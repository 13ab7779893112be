------------------------------ MODULE MCLocked ------------------------------
(* Model values of the Locked runs.                                        *)
EXTENDS Locked

\* All zero, a small and a large entropy.
SomeDraws == {<<0, 0>>, <<0, 2>>, <<1, 2>>}
=============================================================================
