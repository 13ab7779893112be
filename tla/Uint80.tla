------------------------------- MODULE Uint80 -------------------------------
(***************************************************************************)
(* The 80-bit accumulator of src/monotonic.rs: a 16-bit high word and a    *)
(* 64-bit low word.  HiBase and LoBase are the sizes of the two words      *)
(* (2^16 and 2^64 in the code); every operator is written for any sizes.   *)
(*                                                                         *)
(* The ten bytes the accumulator is exchanged through are seen here as     *)
(* their two big-endian fields <<first two bytes, last eight bytes>>, and  *)
(* byte-wise comparison as comparison field by field, which is the same    *)
(* thing for big-endian fields.                                            *)
(***************************************************************************)
EXTENDS Integers

CONSTANTS HiBase,   \* number of values of Uint80::hi
          LoBase    \* number of values of Uint80::lo

\* With a single value of hi the wrap test `self.hi < old_hi` could never
\* succeed; the code has 2^16.
ASSUME BasesAssumption == /\ HiBase \in Nat /\ HiBase >= 2
                          /\ LoBase \in Nat /\ LoBase >= 1

\* struct Uint80
Uint80Set == [hi : 0 .. HiBase - 1, lo : 0 .. LoBase - 1]

\* The ten bytes of a ULID's entropy, as two big-endian fields.
Fields == (0 .. HiBase - 1) \X (0 .. LoBase - 1)

ZERO == [hi |-> 0, lo |-> 0]

is_zero(u) == u.hi = 0 /\ u.lo = 0

set_bytes(bs) == [hi |-> bs[1], lo |-> bs[2]]

append_to(u) == <<u.hi, u.lo>>

\* Mutants of add: the carry into hi is forgotten, and hi does not wrap.
addNoCarry(u, n) == [hi |-> u.hi, lo |-> (u.lo + n) % LoBase]

addNoWrap(u, n) ==
  LET lo == (u.lo + n) % LoBase
  IN  [hi |-> IF lo < u.lo THEN u.hi + 1 ELSE u.hi, lo |-> lo]

(***************************************************************************)
(* Uint80::add.  The low word is added with wrap-around, a low word that   *)
(* came out smaller carries into the high word, also with wrap-around, and *)
(* the call returns true when the high word came out smaller.  The wrapped *)
(* value is stored whether or not overflow is reported.                    *)
(***************************************************************************)
add(u, n) ==
  LET lo == (u.lo + n) % LoBase
  IN  [hi |-> IF lo < u.lo THEN (u.hi + 1) % HiBase ELSE u.hi, lo |-> lo]

\* Mutant of add_overflows: an unchanged hi counts as overflow.
add_overflows_eagerly(u, n) == add(u, n).hi <= u.hi

\* What Uint80::add returns.
add_overflows(u, n) == add(u, n).hi < u.hi

-----------------------------------------------------------------------------
(* Reference reading of the two representations.                           *)

\* 2^80
Limit == HiBase * LoBase

\* The number an accumulator stands for.
Val(u) == u.hi * LoBase + u.lo

\* The number ten big-endian bytes stand for.
FieldsVal(bs) == bs[1] * LoBase + bs[2]

\* Byte-wise (lexicographic) comparison of two entropies.
LexLess(a, b) == a[1] < b[1] \/ (a[1] = b[1] /\ a[2] < b[2])
=============================================================================
