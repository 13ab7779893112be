----------------------------- MODULE MCTextForm -----------------------------
(* Model values of the TextForm run.                                       *)
EXTENDS TextForm

Constant(n, b) == [i \in 1 .. n |-> b]

\* Every single bit of the first byte and the first group, the outer bits of
\* the bytes of the other groups, all ones, and bad lengths.
SomeRaws ==
  {[Constant(16, 0) EXCEPT ![i] = 2^k] : i \in 1 .. 6, k \in 0 .. 7}
    \cup {[Constant(16, 0) EXCEPT ![i] = 2^k] : i \in 7 .. 16, k \in {0, 7}}
    \cup {Constant(16, 255), Constant(15, 1), Constant(17, 1)}

\* "7ZZZZZZZZZZZZZZZZZZZZZZZZZ", the largest text.
Largest == [Constant(26, 90) EXCEPT ![1] = 55]

\* A digit and a character outside the alphabet ('0' and 'U') at each position
\* of the first group, a lower-case letter at each position of the others;
\* first characters around '7'; bad lengths.
SomeTexts ==
  {[Largest EXCEPT ![i] = c] : i \in 2 .. 10, c \in {48, 85}}
    \cup {[Largest EXCEPT ![i] = 122 - (i % 2)] : i \in 11 .. 26}
    \cup {[Largest EXCEPT ![1] = c] : c \in {47, 48, 55, 56, 90, 255}}
    \cup {Constant(25, 48), Constant(27, 48)}
=============================================================================
