----------------------------- MODULE UlidValue ------------------------------
(***************************************************************************)
(* A Ulid as a value that is built and changed in place: src/ulid.rs       *)
(* (set_time, with_time_checked, set_entropy, time, entropy, compare) and  *)
(* the constructors of src/entropy.rs over a SliceReader.                  *)
(*                                                                         *)
(* A byte has ByteSize values (256 in the code), so that the shifts by 8   *)
(* of set_time and time become divisions by the weights of the bytes.      *)
(***************************************************************************)
EXTENDS Integers, Sequences

CONSTANTS ByteSize,
          Times,            \* the `ms` arguments, some above MaxTime
          Entropies,        \* the slices given to set_entropy, some of a bad length
          Buffer            \* the bytes under the SliceReader

TimeSize == 6
EntropySize == 10
RAW_SIZE == TimeSize + EntropySize

Byte == 0 .. ByteSize - 1
Ulid == [1 .. RAW_SIZE -> Byte]

ASSUME ValueAssumption ==
  /\ ByteSize \in Nat /\ ByteSize >= 2
  /\ Times \subseteq Nat /\ Entropies \subseteq Seq(Byte) /\ Buffer \in Seq(Byte)

VARIABLES debug,   \* is debug_assert! compiled in?
          id,      \* the ULID
          pos,     \* SliceReader::pos
          res,     \* what the last operation returned
          want,    \* history: the time and the entropy asked for
          taken    \* history: the entropies the constructors took from the reader

vars == <<debug, id, pos, res, want, taken>>

-----------------------------------------------------------------------------
ZERO == [i \in 1 .. RAW_SIZE |-> 0]

\* The weights of the time's bytes: 2^16, 2^24, 2^32 and 2^40 in the code.
Weight2 == ByteSize * ByteSize
Weight3 == Weight2 * ByteSize
Weight4 == Weight3 * ByteSize
Weight5 == Weight4 * ByteSize

MaxTime == Weight5 * ByteSize - 1

\* Mutant of TimeBytes: the shifted times are not narrowed to a byte.
TimeBytesWide(ms) ==
  << ms \div Weight5, ms \div Weight4, ms \div Weight3, ms \div Weight2, ms \div ByteSize, ms >>

\* (ms >> 40) as u8, (ms >> 32) as u8, ..., ms as u8
TimeBytes(ms) ==
  << (ms \div Weight5) % ByteSize, (ms \div Weight4) % ByteSize, (ms \div Weight3) % ByteSize,
     (ms \div Weight2) % ByteSize, (ms \div ByteSize) % ByteSize, ms % ByteSize >>

\* Mutant of WithTime: the bytes are stored least significant first.
WithTimeReversed(u, ms) ==
  [i \in 1 .. RAW_SIZE |-> IF i <= TimeSize THEN TimeBytes(ms)[TimeSize + 1 - i] ELSE u[i]]

\* The six assignments of set_time and of with_time_checked.
WithTime(u, ms) == [i \in 1 .. RAW_SIZE |-> IF i <= TimeSize THEN TimeBytes(ms)[i] ELSE u[i]]

\* Mutant of WithEntropy: the slice is copied one byte too early.
WithEntropyEarly(u, e) ==
  [i \in 1 .. RAW_SIZE |->
    IF i \in TimeSize .. RAW_SIZE - 1 THEN e[i - TimeSize + 1] ELSE u[i]]

\* self.0[6..16].copy_from_slice(entropy)
WithEntropy(u, e) ==
  [i \in 1 .. RAW_SIZE |-> IF i > TimeSize THEN e[i - TimeSize] ELSE u[i]]

time(u) ==
  u[1] * Weight5 + u[2] * Weight4 + u[3] * Weight3 + u[4] * Weight2 + u[5] * ByteSize + u[6]

entropy(u) == SubSeq(u, TimeSize + 1, RAW_SIZE)

\* Byte-wise comparison of two arrays of one length (Ord of [u8; N]).
BytesLess(a, b) ==
  \E i \in 1 .. Len(a) : a[i] < b[i] /\ \A j \in 1 .. i - 1 : a[j] = b[j]

-----------------------------------------------------------------------------
Init ==
  /\ debug \in BOOLEAN
  /\ id = ZERO /\ pos = 0 /\ res = "none"
  /\ want = [time |-> 0, entropy |-> entropy(ZERO)]
  /\ taken = <<>>

\* An operation that returns an error and changes nothing.
Fail(error) == res' = error /\ UNCHANGED <<id, pos, want, taken>>

\* The six bytes of the time are written, whether it fits them or not.
StoreTime(ms) ==
  /\ id' = WithTime(id, ms) /\ want' = [time |-> ms, entropy |-> want.entropy]
  /\ res' = "ok"
  /\ UNCHANGED <<pos, taken>>

\* Ulid::set_time
SetTime(ms) ==
  \/ ms > MaxTime /\ Fail("BigTime")
  \/ ms <= MaxTime /\ StoreTime(ms)

\* Ulid::with_time_checked, whose only check is a debug_assert!: a release
\* build stores the low 48 bits of a time that does not fit.
WithTimeChecked(ms) ==
  \/ debug /\ ms > MaxTime /\ Fail("panic")
  \/ (debug => ms <= MaxTime) /\ StoreTime(ms)

\* Ulid::set_entropy
SetEntropy(e) ==
  \/ Len(e) # EntropySize /\ Fail("DataSize")
  \/ /\ Len(e) = EntropySize
     /\ id' = WithEntropy(id, e) /\ want' = [time |-> want.time, entropy |-> e]
     /\ res' = "ok"
     /\ UNCHANGED <<pos, taken>>

\* set_time fails, and `?` leaves the constructor.
TimeTooBig(ms) == ms > MaxTime /\ Fail("BigTime")

\* A constructor builds on Ulid::ZERO; e are its entropy bytes.
Construct(ms, e) ==
  /\ ms <= MaxTime
  /\ id' = WithEntropy(WithTime(ZERO, ms), e)
  /\ want' = [time |-> ms, entropy |-> e]
  /\ res' = "ok"

\* with_time_only(ms), new(ms, None), and new(ms, Some(&mut ZeroReader)).
NewTimeOnly(ms) == Construct(ms, entropy(ZERO)) /\ UNCHANGED <<pos, taken>>

\* SliceReader::read: what is left, and the next ten bytes.
Remaining == Len(Buffer) - pos

NextBytes == SubSeq(Buffer, pos + 1, pos + EntropySize)

\* Mutant of ShortRead: a short read takes what is left before it fails.
ShortReadGreedy ==
  Remaining < EntropySize /\ pos' = Len(Buffer) /\ res' = "Read" /\ UNCHANGED <<id, want, taken>>

\* SliceReader::read with too few bytes left fails without moving.
ShortRead == Remaining < EntropySize /\ Fail("Read")

\* new(ms, Some(reader)) over a SliceReader: the time is checked before the
\* reader is touched.
NewFromSlice(ms) ==
  \/ ms <= MaxTime /\ ShortRead
  \/ /\ Remaining >= EntropySize
     /\ Construct(ms, NextBytes)
     /\ taken' = Append(taken, NextBytes)
     /\ pos' = pos + EntropySize

Next ==
  /\ \/ \E ms \in Times : \/ SetTime(ms) \/ WithTimeChecked(ms) \/ TimeTooBig(ms)
                           \/ NewTimeOnly(ms) \/ NewFromSlice(ms)
     \/ \E e \in Entropies : SetEntropy(e)
  /\ UNCHANGED debug

Spec == Init /\ [][Next]_vars

-----------------------------------------------------------------------------
\* The ULID stays sixteen bytes and the SliceReader's position inside its slice.
TypeOK ==
  /\ id \in Ulid
  /\ pos \in 0 .. Len(Buffer)
  /\ res \in {"none", "ok", "panic", "BigTime", "DataSize", "Read"}

\* Only a release build, and only in with_time_checked, can be asked for a time
\* that does not fit and answer with a ULID.
TimeKept == debug \/ want.time <= MaxTime

\* After any sequence of operations, failed ones included, the entropy read from
\* the sixteen bytes is the one last asked for, and so is the time, unless a
\* release build stored one above MaxTime: writing one never disturbs the other,
\* no bit of a time that fits is lost in the shifts, and a debug build loses none
\* at all.
ReadsBack ==
  /\ entropy(id) = want.entropy
  /\ TimeKept => time(id) = want.time

\* Comparing two ULIDs byte by byte (compare, derived Ord) is comparing the times
\* asked for and, at the same time, the entropies, as long as no time was cut.
OrderIsTimeFirst ==
  [][TimeKept /\ TimeKept' =>
       (BytesLess(id, id') <=>
          \/ want.time < want'.time
          \/ want.time = want'.time /\ BytesLess(want.entropy, want'.entropy))]_vars

\* The constructors use up the reader's bytes in order, each byte once, and a
\* construction that fails uses none.
ReaderIsConsumedInOrder ==
  /\ pos = EntropySize * Len(taken)
  /\ \A i \in 1 .. Len(taken) :
       taken[i] = SubSeq(Buffer, EntropySize * (i - 1) + 1, EntropySize * i)
=============================================================================
