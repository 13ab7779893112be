---------------------------- MODULE MCUlidValue -----------------------------
(* Model values of the UlidValue runs: a byte has four values, so that     *)
(* MaxTime is 4^6 - 1.                                                     *)
EXTENDS UlidValue

\* Every power of a byte and its predecessor, and two times that do not fit.
BoundaryTimes == {4^k : k \in 0 .. 6} \cup {4^k - 1 : k \in 0 .. 6} \cup {4^6 + 5}

Constant(n, b) == [i \in 1 .. n |-> b]

\* Ten bytes that differ at either end, and slices of nine and eleven bytes.
SomeEntropies ==
  {Constant(10, 0), Constant(10, 3), [Constant(10, 0) EXCEPT ![1] = 2],
   [Constant(10, 3) EXCEPT ![10] = 1], Constant(9, 1), Constant(11, 1)}

\* Two whole entropies and five bytes.
ShortBuffer == [i \in 1 .. 25 |-> i % 4]
=============================================================================
