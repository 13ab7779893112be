-------------------------------- MODULE Make --------------------------------
(***************************************************************************)
(* make() of src/sys.rs on the process-wide default source: a OnceLock     *)
(* creates a Locked<MonotonicEntropy<MathRng>> on first use, make() reads  *)
(* the clock, and only then enters the lock.  default_entropy() is public, *)
(* so a thread may also call monotonic_read on it with a timestamp of its  *)
(* own.                                                                    *)
(*                                                                         *)
(* MathRng neither fails nor panics, and its ten bytes are never all zero  *)
(* (NeverAllZero of module MathRngProofs).                                 *)
(***************************************************************************)
EXTENDS Locked

CONSTANTS MaxMs,         \* the clock shows 0 .. MaxMs
          MaxTime,       \* the largest time a ULID holds, 2^48 - 1 in the code
          DirectMs,      \* timestamps passed by direct callers
          ClockGoesBack  \* can the system clock be set back?

ASSUME MakeAssumption ==
  /\ MaxMs \in Nat /\ MaxTime \in Nat /\ 0 .. MaxMs \subseteq Ms
  /\ DirectMs \subseteq Ms /\ ClockGoesBack \in BOOLEAN
  /\ ~SourceFails /\ ~SourcePanics /\ M!ZeroFields \notin Draws /\ IncArg = 0

VARIABLES clock,   \* SystemTime::now() in milliseconds
          once,    \* DEFAULT_ENTROPY: "empty", "running" its initialiser, "ready"
          kind,    \* is the thread's call a "make" or a "direct" one?
          serial,  \* history: FALSE once calls overlapped, a direct call was made
                   \* or the clock went back
          before,  \* history: how many ULIDs had been returned when the call began
          made     \* history: the ULIDs make() returned, in the order of the returns

makeVars == <<clock, once, kind, serial, before, made>>
allVars == <<lockedVars, makeVars>>

-----------------------------------------------------------------------------
MakeInit ==
  /\ Init
  /\ clock \in 0 .. MaxMs
  /\ once = "empty"
  /\ kind = [p \in Threads |-> "make"]
  /\ serial = TRUE
  /\ before = [p \in Threads |-> 0]
  /\ made = <<>>

\* Time passes, or the clock is set back.
Tick ==
  /\ clock' \in 0 .. MaxMs
  /\ clock' > clock \/ (ClockGoesBack /\ clock' < clock)
  /\ serial' = (serial /\ clock' > clock)
  /\ UNCHANGED <<lockedVars, once, kind, before, made>>

\* A thread calls make(), or default_entropy() to use the source directly.
Enter(p, k) ==
  /\ pc[p] = "idle" /\ calls < MaxCalls
  /\ Goto(p, "once")
  /\ kind' = [kind EXCEPT ![p] = k]
  /\ before' = [before EXCEPT ![p] = Len(made)]
  /\ serial' = (serial /\ k = "make" /\ \A q \in Threads : pc[q] = "idle")
  /\ calls' = calls + 1
  /\ UNCHANGED <<sourceVars, lockVars, arg, out, clock, once, made>>

\* Mutant of OnceEmpty: a running initialiser is not waited for.
OnceNotReady == once # "ready"

OnceEmpty == once = "empty"

\* get_or_init finds the cell empty; other threads now wait for it.
OnceBegin(p) ==
  /\ pc[p] = "once" /\ OnceEmpty
  /\ once' = "running"
  /\ Goto(p, "init")
  /\ UNCHANGED <<sourceVars, lockVars, arg, out, calls, clock, kind, serial, before, made>>

\* The initialiser: Locked::new(MonotonicEntropy::new(MathRng, 0)).
OnceInit(p) ==
  /\ pc[p] = "init"
  /\ ms' = 0 /\ entropy' = M!ZERO /\ inc' = DefaultInc
  /\ once' = "ready"
  /\ Goto(p, "now")
  /\ UNCHANGED <<log, result, lockVars, arg, out, calls, clock, kind, serial, before, made>>

\* get_or_init finds the source there.
OnceGet(p) ==
  /\ pc[p] = "once" /\ once = "ready"
  /\ Goto(p, "now")
  /\ UNCHANGED <<sourceVars, lockVars, arg, out, calls, makeVars>>

UseTime(p, t) ==
  /\ arg' = [arg EXCEPT ![p] = [ms |-> t, room |-> TRUE]]
  /\ Goto(p, "lock")
  /\ UNCHANGED <<sourceVars, lockVars, out, calls, makeVars>>

\* make(): now(), and set_time, which panics past MaxTime.
ReadClock(p) ==
  /\ pc[p] = "now" /\ kind[p] = "make" /\ clock <= MaxTime
  /\ UseTime(p, clock)

BigTimePanic(p) ==
  /\ pc[p] = "now" /\ kind[p] = "make" /\ clock > MaxTime
  /\ Unwind(p)
  /\ UNCHANGED <<sourceVars, arg, out, calls, makeVars>>

\* A direct caller brings a timestamp of its own.
BringTime(p) ==
  /\ pc[p] = "now" /\ kind[p] = "direct"
  /\ \E t \in DirectMs : UseTime(p, t)

\* make() returns; the new ULID's time and entropy are the arguments and the
\* result of the read.
MakeReturn(p) ==
  /\ pc[p] = "return" /\ kind[p] = "make" /\ out[p].res = "ok"
  /\ made' = Append(made, [ms |-> arg[p].ms, dst |-> out[p].dst,
                           pos |-> out[p].pos, after |-> before[p]])
  /\ Goto(p, "idle")
  /\ UNCHANGED <<sourceVars, lockVars, arg, out, calls, clock, once, kind, serial, before>>

\* `.expect("MathRng never fails")` on the error of the read, after the guard
\* was dropped in Unlock.
MakePanic(p) ==
  /\ pc[p] = "return" /\ kind[p] = "make" /\ out[p].res # "ok"
  /\ Unwind(p)
  /\ UNCHANGED <<sourceVars, arg, out, calls, makeVars>>

\* The steps inside Locked::monotonic_read, and the return to a direct caller.
LockedStep(p) == Section(p) /\ UNCHANGED makeVars

DirectReturn(p) == kind[p] = "direct" /\ Return(p) /\ UNCHANGED makeVars

\* What a thread does once it has entered.
MakeStep(p) ==
  \/ OnceBegin(p) \/ OnceInit(p) \/ OnceGet(p)
  \/ ReadClock(p) \/ BigTimePanic(p) \/ BringTime(p)
  \/ LockedStep(p)
  \/ MakeReturn(p) \/ MakePanic(p) \/ DirectReturn(p)

MakeNext ==
  \/ Tick
  \/ \E p \in Threads :
       \/ Enter(p, "make")
       \/ DirectMs # {} /\ Enter(p, "direct")
       \/ MakeStep(p)

\* A thread inside a call keeps running; time need not pass.
MakeSpec ==
  MakeInit /\ [][MakeNext]_allVars /\ \A p \in Threads : WF_allVars(MakeStep(p))

-----------------------------------------------------------------------------
MakeLabels == Labels \cup {"once", "init", "now"}

\* The default source, the OnceLock, the clock and the ULIDs keep their types.
MakeTypeOK ==
  /\ M!TypeOK
  /\ lock \in Threads \cup {NoThread}
  /\ pc \in [Threads -> MakeLabels]
  /\ clock \in 0 .. MaxMs
  /\ once \in {"empty", "running", "ready"}
  /\ kind \in [Threads -> {"make", "direct"}]
  /\ serial \in BOOLEAN
  /\ before \in [Threads -> Nat]
  /\ made \in Seq([ms : Ms, dst : M!Fields, pos : Nat, after : Nat])

\* The order of ULIDs: time first, then entropy.
UlidLess(a, b) == a.ms < b.ms \/ (a.ms = b.ms /\ M!LexLess(a.dst, b.dst))

\* Call j of make() began after call i had returned.
Follows(i, j) == i <= made[j].after

\* A ULID made after another one was returned is larger, provided that every
\* read of the source from the one to the other was for the same millisecond
\* and succeeded: what the lock really guarantees to concurrent callers.
MakeIncreasesInRun ==
  \A i, j \in 1 .. Len(made) :
    Follows(i, j) /\ M!SameRun(made[i].pos, made[j].pos) =>
      made[i].pos < made[j].pos /\ UlidLess(made[i], made[j])

\* The read that thread p is about to return from is in the log as an overflow
\* of the accumulator for its own millisecond.
OwnOverflow(p) ==
  /\ out[p].pos \in 1 .. Len(log)
  /\ ~log[out[p].pos].ok /\ log[out[p].pos].ms = arg[p].ms

\* A thread panics for a reason of its own only: its make() read a clock past
\* MaxTime, or its own read overflowed.  No direct reader panics, and no thread
\* panics at the lock because an earlier panic of another one had poisoned it:
\* after any panic make() goes on working for everybody else.
PanicsAreOwn ==
  [][\A p \in Threads :
       pc[p] # "panicked" /\ pc'[p] = "panicked" =>
         /\ kind[p] = "make"
         /\ (pc[p] = "now" /\ clock > MaxTime) \/ (pc[p] = "return" /\ OwnOverflow(p))]_allVars

\* Every call of make() and every direct read ends, also for the threads that
\* wait while another one runs the initialiser.
EveryMakeEnds ==
  \A p \in Threads : pc[p] = "once" ~> pc[p] \in {"idle", "panicked"}

\* Calls of make() one after the other, from any threads, return strictly
\* increasing ULIDs while the clock does not go back, nobody else reads the source
\* and no call has panicked (the test make_monotonic_within_same_ms, sys.rs:262-277).
MakeIncreases ==
  serial /\ (\A p \in Threads : pc[p] # "panicked") =>
    \A i, j \in 1 .. Len(made) : i < j => UlidLess(made[i], made[j])

\* make() has increasing entropy for one millisecond and is safe for concurrent
\* use (sys.rs:140-145).
SameMsMakeIncreases ==
  \A i, j \in 1 .. Len(made) :
    Follows(i, j) /\ made[i].ms = made[j].ms => UlidLess(made[i], made[j])
=============================================================================
