--------------------------- MODULE MCConstructors ---------------------------
(* Model values of the runs of the source and of the constructors over it. *)
EXTENDS Constructors

\* All zero, just below a carry, and just below the limit.
SomeDraws == {<<0, 0>>, <<0, 4>>, <<1, 1>>, <<1, 4>>}

\* The largest number: the first increment overflows, and its wrapped sum is not
\* zero.
LargestOnly == {<<HiBase - 1, LoBase - 1>>}
=============================================================================
