------------------------------- MODULE MCMake -------------------------------
(* Model values of the Make runs.                                          *)
EXTENDS Make

\* A small and a large entropy, as from a MathRng never all zero.
TwoDraws == {<<0, 2>>, <<1, 2>>}
=============================================================================
