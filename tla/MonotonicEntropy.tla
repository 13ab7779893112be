-------------------------- MODULE MonotonicEntropy --------------------------
(***************************************************************************)
(* MonotonicEntropy of src/monotonic.rs: a source of ten entropy bytes     *)
(* that continues from the previous bytes while the caller stays in one    *)
(* millisecond, and starts from fresh bytes of the inner source otherwise. *)
(*                                                                         *)
(* A call has exclusive access to the source (&mut self), so a call is one *)
(* step; Locked takes the critical section of a shared one apart.  The     *)
(* inner source is any Entropy: it returns any bytes of Draws, or fails.   *)
(***************************************************************************)
EXTENDS Uint80, RandomIncrement

CONSTANTS IncArg,       \* the `inc` argument of MonotonicEntropy::new
          Incs,         \* the values the public field `inc` is set to later
          DefaultInc,   \* what `inc == 0` stands for, u32::MAX in the code
          Ms,           \* the millisecond timestamps callers pass
          Draws,        \* the ten-byte reads the inner source may return
          SourceFails   \* can a read of the inner source fail?

VARIABLES ms,       \* MonotonicEntropy::ms
          entropy,  \* MonotonicEntropy::entropy
          inc,      \* MonotonicEntropy::inc
          log,      \* history: the reads that wrote the accumulator, oldest first
          result    \* what the last call returned

vars == <<ms, entropy, inc, log, result>>

\* inc is a u64.
Bounds == 0 .. LoBase - 1

ASSUME IncAssumption ==
  /\ IncArg \in Bounds /\ DefaultInc \in Bounds \ {0}
  /\ Incs \subseteq Bounds
ASSUME CallAssumption ==
  /\ Ms \subseteq Nat /\ Draws \subseteq Fields
  /\ SourceFails \in BOOLEAN

\* One logged read: the caller's millisecond, the bytes the accumulator held
\* afterwards, whether they were returned (ok) or an overflow was, and the
\* largest increment the read could have made.
Entry == [ms : Ms, dst : Fields, ok : BOOLEAN, step : Bounds \ {0}]

\* What a call on the source, or on a constructor over it, can return.
Results == {"none", "ok", "MonotonicOverflow", "Read", "BufferSize", "BigTime"}

-----------------------------------------------------------------------------
\* MonotonicEntropy::new, where an `inc` of 0 stands for the default.
Init ==
  /\ ms = 0
  /\ entropy = ZERO
  /\ inc = IF IncArg = 0 THEN DefaultInc ELSE IncArg
  /\ log = <<>>
  /\ result = "none"

\* The test that sends monotonic_read_inner to its increment branch.
Continues(t) == ~is_zero(entropy) /\ ms = t

\* The largest increment: a bound of 0 or 1 makes every increment 1.
Step == IF inc <= 1 THEN 1 ELSE inc

Logged(t, bs, good) ==
  log' = Append(log, [ms |-> t, dst |-> bs, ok |-> good, step |-> Step])

\* The fresh branch, once the inner source has delivered bs.
Fill(t, bs) ==
  /\ ms' = t
  /\ entropy' = set_bytes(bs)
  /\ Logged(t, bs, TRUE)
  /\ result' = "ok"
  /\ UNCHANGED inc

\* increment(), once random() has returned n, and the bytes written after it.
\* An overflow is reported after the wrapped sum was stored.
Increment(t, n) ==
  LET overflow == add_overflows(entropy, n)
  IN  /\ entropy' = add(entropy, n)
      /\ Logged(t, append_to(add(entropy, n)), ~overflow)
      /\ result' = IF overflow THEN "MonotonicOverflow" ELSE "ok"
      /\ UNCHANGED <<ms, inc>>

-----------------------------------------------------------------------------
\* monotonic_read, fresh branch.
Refill(t) ==
  /\ ~Continues(t)
  /\ \E bs \in Draws : Fill(t, bs)

\* monotonic_read, increment branch; it returns the new bytes or an overflow.
Bump(t) ==
  /\ Continues(t)
  /\ \E n \in Increments(inc) : Increment(t, n)

\* Mutant of SourceError: `self.ms = ms` is assigned before the read that fails.
SourceErrorAfterMs(t) ==
  SourceFails /\ ms' = t /\ result' = "Read" /\ UNCHANGED <<entropy, inc, log>>

\* monotonic_read when the inner source fails: in the fresh branch, or while
\* random() draws, which it does only for a bound above 1.  `?` leaves the
\* call before any assignment to ms or entropy.
SourceError(t) ==
  /\ SourceFails
  /\ Continues(t) => inc > 1
  /\ result' = "Read"
  /\ UNCHANGED <<ms, entropy, inc, log>>

\* monotonic_read with fewer than ten bytes of room.
ShortBuffer ==
  /\ result' = "BufferSize"
  /\ UNCHANGED <<ms, entropy, inc, log>>

\* Entropy::read on the monotonic source goes straight to the inner source.
PlainRead ==
  /\ \/ result' = "ok"
     \/ SourceFails /\ result' = "Read"
  /\ UNCHANGED <<ms, entropy, inc, log>>

\* The owner of the source assigns its public field `inc`.
SetInc ==
  /\ inc' \in Incs
  /\ UNCHANGED <<ms, entropy, log, result>>

\* A call that writes the accumulator, and one that does not.
Write == \E t \in Ms : Refill(t) \/ Bump(t)

NoWrite == (\E t \in Ms : SourceError(t)) \/ ShortBuffer \/ PlainRead \/ SetInc

Next == Write \/ NoWrite

Spec == Init /\ [][Next]_vars

-----------------------------------------------------------------------------
\* The accumulator and the bound stay within their words, and the log holds
\* well-formed reads.
TypeOK ==
  /\ ms \in Nat
  /\ entropy \in Uint80Set
  /\ inc \in Bounds
  /\ log \in Seq(Entry)
  /\ result \in Results

ZeroFields == <<0, 0>>

\* Reads i to j are all of one millisecond, all returned bytes, and only the
\* last of them may be all zero (all-zero bytes make the next read a fresh one).
SameRun(i, j) ==
  /\ \A k \in i .. j : log[k].ok /\ log[k].ms = log[i].ms
  /\ \A k \in i .. j - 1 : log[k].dst # ZeroFields

\* The promise of the Monotonic trait (entropy.rs:49-50): within a run of reads
\* of one millisecond every read returns bytes strictly greater than every
\* earlier one, whatever failed reads, short buffers, plain reads and assignments
\* to `inc` happened in between.
SameMsIncreases ==
  \A i, j \in 1 .. Len(log) : i < j /\ SameRun(i, j) => LexLess(log[i].dst, log[j].dst)

\* MonotonicOverflow is reported only when the previous read had the same
\* millisecond and left less room below 2^80 than one increment by the bound then
\* in force, and the wrapped accumulator is then smaller than what it was.
OverflowIsReal ==
  \A j \in 1 .. Len(log) :
    ~log[j].ok =>
      /\ j > 1 /\ log[j-1].ms = log[j].ms
      /\ FieldsVal(log[j-1].dst) + log[j].step >= Limit
      /\ LexLess(log[j].dst, log[j-1].dst)

\* What the next call will continue from is what the last logged call left.
LogTracksState ==
  /\ ~is_zero(entropy) => log # <<>>
  /\ log # <<>> =>
       /\ ms = log[Len(log)].ms
       /\ append_to(entropy) = log[Len(log)].dst

IInv == TypeOK /\ LogTracksState /\ SameMsIncreases /\ OverflowIsReal

\* The trait's promise without the two exceptions SameRun makes: any two
\* successive successful reads of one millisecond increase.
TraitPromise ==
  \A i, j \in 1 .. Len(log) :
    /\ i < j
    /\ log[i].ok /\ log[j].ok
    /\ \A k \in i .. j : log[k].ms = log[i].ms
    => LexLess(log[i].dst, log[j].dst)

-----------------------------------------------------------------------------
(* The abstract promise of module MonotonicReader.                         *)

Reads == [i \in 1 .. Len(log) |->
           [ms |-> log[i].ms, val |-> FieldsVal(log[i].dst), ok |-> log[i].ok]]

Reader == INSTANCE MonotonicReader
            WITH Times <- Ms, Size <- Limit, Steps <- Bounds \ {0}, reads <- Reads, step <- Step

\* MonotonicEntropy implements MonotonicReader: the carry between the two
\* words, the zero test and the stored timestamp together amount to counting
\* up from the last number read.
ImplementsReader == Reader!Spec
=============================================================================
