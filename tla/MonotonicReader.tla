-------------------------- MODULE MonotonicReader ---------------------------
(***************************************************************************)
(* What a monotonic entropy source promises its callers (trait Monotonic   *)
(* of src/entropy.rs, as far as src/monotonic.rs keeps it), over the       *)
(* history of reads alone: entropies are numbers below Size, and the next  *)
(* read of the millisecond of the last one is a larger number, at most     *)
(* step away, or an overflow when there may be no such number.             *)
(*                                                                         *)
(* A millisecond other than the last one, a last number of zero and a      *)
(* reported overflow each start over: the next number may then be any.     *)
(***************************************************************************)
EXTENDS Integers, Sequences

CONSTANTS Times,    \* the timestamps callers pass
          Size,     \* entropies are 0 .. Size-1
          Steps     \* the values of step

VARIABLES reads,    \* the reads so far: [ms, val, ok]
          step      \* the largest increment

Last == reads[Len(reads)]

InRun(t) == reads # <<>> /\ Last.ok /\ Last.ms = t /\ Last.val # 0

Answer(t, v, good) ==
  reads' = Append(reads, [ms |-> t, val |-> v, ok |-> good]) /\ UNCHANGED step

Start(t) ==
  /\ ~InRun(t)
  /\ \E v \in 0 .. Size - 1 : Answer(t, v, TRUE)

Advance(t) ==
  /\ InRun(t)
  /\ \E v \in Last.val + 1 .. Last.val + step : v < Size /\ Answer(t, v, TRUE)

\* A source that overflowed may do so again at once.
Exhaust(t) ==
  /\ reads # <<>> /\ Last.ms = t
  /\ Last.ok => Last.val # 0 /\ Last.val + step >= Size
  /\ \E v \in 0 .. Size - 1 : Answer(t, v, FALSE)

\* The owner of the source chooses another increment.
Retune == step' \in Steps /\ UNCHANGED reads

Init == reads = <<>> /\ step \in Steps

Next == Retune \/ \E t \in Times : Start(t) \/ Advance(t) \/ Exhaust(t)

Spec == Init /\ [][Next]_<<reads, step>>
=============================================================================
