------------------------------ MODULE Harness ------------------------------
(***************************************************************************)
(* The fuzz harness of fuzz/harness.rs, over the constructors and the      *)
(* monotonic source it drives.                                             *)
(*                                                                         *)
(* Batches of iterations run until the budget is spent.  Each iteration    *)
(* makes the round trips INV-1 and INV-3, whose answers are free here (the *)
(* harness is there to notice wrong ones), and every so often INV-5 makes  *)
(* ULIDs of one millisecond from a fresh source.  There the answers are    *)
(* those of Constructors, because the verdict rests on how the source      *)
(* really behaves near its limit.  The xorshift numbers that pick the      *)
(* inputs are any numbers.                                                 *)
(***************************************************************************)
EXTENDS Constructors

CONSTANTS Batch,    \* iterations between two looks at the clock, 10_000 in the code
          Every,    \* INV-5 runs in every so many iterations, 100 in the code
          Rounds,   \* ULIDs INV-5 makes from one source, 256 in the code
          Budget    \* budget_secs: the ticks of the clock until `end`

\* Batch is a multiple of Every, so that the position in the batch tells
\* whether `iterations` is one; MathRng never delivers ten zero bytes
\* (NeverAllZero of module MathRngProofs).
ASSUME HarnessAssumption ==
  /\ Batch \in Nat \ {0} /\ Every \in Nat \ {0} /\ Batch % Every = 0
  /\ Rounds \in Nat \ {0} /\ Budget \in Nat
  /\ ZeroFields \notin Draws /\ ~SourceFails

VARIABLES pc,         \* "while", "for", the invariant tried next, or the exit code
          remaining,  \* the time left until `end`
          iteration,  \* the iterations of this batch
          diverged,   \* is `divergences` above 0?
          time,       \* prev_ms of INV-5
          round,      \* k of INV-5
          prev,       \* prev of INV-5, as a sequence of at most one ULID
          alarms      \* history: the last report of INV-5, and of which source

loopVars == <<remaining, iteration>>
inv5Vars == <<time, round, prev, alarms>>
harnessVars == <<constructorVars, pc, loopVars, diverged, inv5Vars>>

Done == pc \in {"exit 0", "exit 1"}

HarnessInit ==
  /\ ConstructorsInit
  /\ pc = "while" /\ remaining = Budget /\ iteration = 0 /\ diverged = FALSE
  /\ time \in Ms /\ round = 0 /\ prev = <<>> /\ alarms = {}

Tick ==
  /\ remaining > 0 /\ ~Done
  /\ remaining' = remaining - 1
  /\ UNCHANGED <<constructorVars, pc, iteration, diverged, inv5Vars>>

\* Where an iteration ends: at the next one, or back at the `while`.
EndOfIteration == pc' = IF iteration < Batch THEN "for" ELSE "while"

\* Mutant of TimeIsUp: the comparison is swapped.
TimeIsUpSwapped == remaining > 0

TimeIsUp == remaining = 0

\* `while Instant::now() < end`: another batch, or the summary and the exit.
While ==
  /\ pc = "while"
  /\ pc' = IF ~TimeIsUp THEN "for" ELSE IF diverged THEN "exit 1" ELSE "exit 0"
  /\ iteration' = 0
  /\ UNCHANGED <<constructorVars, remaining, diverged, inv5Vars>>

\* The head of the `for` loop and the bytes of random_bytes.
For ==
  /\ pc = "for"
  /\ iteration' = iteration + 1
  /\ pc' = "INV-1"
  /\ UNCHANGED <<constructorVars, remaining, diverged, inv5Vars>>

\* A failing marshal_text skips the rest of the iteration and counts nothing.
MarshalFails ==
  /\ pc = "INV-1"
  /\ EndOfIteration
  /\ UNCHANGED <<constructorVars, loopVars, diverged, inv5Vars>>

\* parse_strict returned the bytes, or other bytes or an error.
RoundTrip ==
  /\ pc = "INV-1"
  /\ pc' = "INV-3"
  /\ \E same \in BOOLEAN : diverged' = (diverged \/ ~same)
  /\ UNCHANGED <<constructorVars, loopVars, inv5Vars>>

\* monotonic(MathRng::from_seed(..), arg)
FreshSource(arg) ==
  /\ ms' = 0 /\ entropy' = ZERO /\ log' = <<>> /\ made' = <<>> /\ result' = "none"
  /\ inc' = IF arg = 0 THEN DefaultInc ELSE arg

\* set_time and time agreed on a random time, or not; INV-5 takes the same time.
TimeRoundTrip ==
  /\ pc = "INV-3"
  /\ \E same \in BOOLEAN : diverged' = (diverged \/ ~same)
  /\ IF iteration % Every = 0
     THEN /\ pc' = "INV-5"
          /\ time' \in {t \in Ms : Fits(t)}
          /\ \E arg \in Incs : FreshSource(arg)
          /\ round' = 0 /\ prev' = <<>>
     ELSE EndOfIteration /\ UNCHANGED <<constructorVars, time, round, prev>>
  /\ UNCHANGED <<loopVars, alarms>>

\* Mutant of MoreRounds: one round too many.
OneRoundMore == round' <= Rounds

\* `for k in 0..256`
MoreRounds == round' < Rounds

\* INV-5 reports a divergence.
Alarm(why) ==
  /\ alarms' = {[why |-> why, first |-> FieldsVal(log[1].dst), step |-> Step]}
  /\ diverged' = TRUE

\* Mutant of AfterReport: the loop goes on after a report.
GoOn == IF MoreRounds THEN UNCHANGED pc ELSE EndOfIteration

\* `break`
AfterReport == EndOfIteration

\* p.compare(&next) is Less, or there is no previous ULID.
InOrder(next) == prev # <<>> => UlidLess(prev[1], next)

\* One call of new_monotonic in INV-5, and what the harness makes of it.
MakeOne ==
  LET next == [ms |-> time, dst |-> append_to(entropy')]
  IN  /\ pc = "INV-5"
      /\ NewMonotonic(time)
      /\ round' = round + 1
      /\ IF result' = "ok" /\ InOrder(next)
         THEN /\ prev' = <<next>>
              /\ IF MoreRounds THEN UNCHANGED pc ELSE EndOfIteration
              /\ UNCHANGED <<diverged, alarms>>
         ELSE /\ Alarm(IF result' = "ok" THEN "misordered" ELSE result')
              /\ AfterReport
              /\ UNCHANGED prev
      /\ UNCHANGED <<loopVars, time>>

HarnessStep == While \/ For \/ MarshalFails \/ RoundTrip \/ TimeRoundTrip \/ MakeOne

Exited == Done /\ UNCHANGED harnessVars

HarnessNext == Tick \/ HarnessStep \/ Exited

\* The program is a single thread that is never blocked, and time passes.
HarnessSpec ==
  HarnessInit /\ [][HarnessNext]_harnessVars
    /\ WF_harnessVars(HarnessStep) /\ WF_harnessVars(Tick)

-----------------------------------------------------------------------------
\* INV-5 never finds two ULIDs out of order: what it reports is an overflow,
\* and after one it stops reading the source, whose wrapped accumulator would
\* give smaller ULIDs.
AlarmsAreOverflows == \A a \in alarms : a.why = "MonotonicOverflow"

\* A source reported by INV-5 had started within Rounds - 1 increments of the
\* limit, so that a report says nothing wrong about the library: the seed put
\* it in the last 2^24 of 2^80 (2^40 for a bound of 0, which stands for 2^32).
AlarmsNearTheTop == \A a \in alarms : a.first + (Rounds - 1) * a.step >= Limit

\* The harness ends, whatever it finds.
Finishes == <>Done
=============================================================================
