-------------------------- MODULE RandomIncrement ---------------------------
(***************************************************************************)
(* The arithmetic of MonotonicEntropy::random in src/monotonic.rs: which   *)
(* numbers the rejection loop can return for a given increment bound.      *)
(* ByteBits is the width of a byte (8 in the code); a smaller width lets   *)
(* TLC reach the multi-byte cases with small bounds.                       *)
(***************************************************************************)
EXTENDS Integers, Sequences

CONSTANT ByteBits

ASSUME ByteBitsAssumption == ByteBits \in Nat \ {0}

\* 1 << n
Pow2[n \in Nat] == IF n = 0 THEN 1 ELSE 2 * Pow2[n-1]

Byte == 0 .. Pow2[ByteBits] - 1

\* 64 - x.leading_zeros()
BitLen(x) == IF x = 0 THEN 0 ELSE CHOOSE k \in 1 .. x : Pow2[k-1] <= x /\ x < Pow2[k]

bit_len(bound) == BitLen(bound - 1)

byte_len(bound) == (bit_len(bound) + ByteBits - 1) \div ByteBits

msbit_len(bound) ==
  IF bit_len(bound) % ByteBits = 0 THEN ByteBits ELSE bit_len(bound) % ByteBits

\* rand_buf[0] &= mask, with mask = (1 << msbit_len) - 1
MaskFirst(bs, bound) == [bs EXCEPT ![1] = @ % Pow2[msbit_len(bound)]]

\* u16/u32/u64::from_le_bytes of the bytes read, zero-extended
LittleEndian(bs) ==
  LET sum[i \in 0 .. Len(bs)] ==
        IF i = 0 THEN 0 ELSE sum[i-1] + bs[i] * Pow2[ByteBits * (i-1)]
  IN  sum[Len(bs)]

\* What one pass of the loop reads from the inner source.
Chunks(bound) == [1 .. byte_len(bound) -> Byte]

Candidate(bs, bound) == LittleEndian(MaskFirst(bs, bound))

\* Mutant of Accepted: the bound itself is accepted.
AcceptedBound(c, bound) == c \in 1 .. bound

\* The negation of the loop condition `inc == 0 || inc >= self.inc`.
Accepted(c, bound) == c \in 1 .. bound - 1

AcceptedCandidates(bound) ==
  {c \in 1 .. bound - 1 : Accepted(c, bound)
                          /\ \E bs \in Chunks(bound) : c = Candidate(bs, bound)}

\* Everything random() can return: 1 without reading when inc <= 1, and
\* one more than an accepted candidate otherwise.
Increments(bound) ==
  IF bound <= 1 THEN {1} ELSE {1 + c : c \in AcceptedCandidates(bound)}
=============================================================================
