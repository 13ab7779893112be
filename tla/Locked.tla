------------------------------- MODULE Locked -------------------------------
(***************************************************************************)
(* Locked of src/monotonic.rs: a MonotonicEntropy behind a Mutex, shared   *)
(* by threads that call Locked::monotonic_read.  The critical section is   *)
(* taken apart where a thread can be preempted: after the lock, after the  *)
(* test that picks a branch, and after the read.                           *)
(*                                                                         *)
(* A source that panics unwinds through the guard, which releases the lock *)
(* and poisons it; `.expect("monotonic mutex poisoned")` then makes every  *)
(* later call panic too.  The field `inc` is out of reach inside the Mutex *)
(* and keeps the value the constructor gave it.                            *)
(***************************************************************************)
EXTENDS Integers, Sequences

CONSTANTS HiBase, LoBase, ByteBits, IncArg, Incs, DefaultInc, Ms, Draws, SourceFails,
          MaxCalls,      \* bound on the number of calls
          Threads,
          NoThread,      \* the holder of a free lock
          SourcePanics   \* can the inner source panic?

ASSUME LockedAssumption ==
  NoThread \notin Threads /\ SourcePanics \in BOOLEAN /\ MaxCalls \in Nat

VARIABLES ms, entropy, inc, log, result,  \* the MonotonicEntropy inside the Mutex
          lock,      \* the thread that holds the guard, or NoThread
          poisoned,  \* the Mutex's poison flag
          pc,        \* where each thread is
          arg,       \* each thread's arguments: the millisecond, and whether
                     \* dst has room for ten bytes
          out,       \* what each thread's call returned, and (history) how
                     \* long the log was then
          calls      \* calls so far, capped by MaxCalls

M == INSTANCE MonotonicEntropy

\* What MonotonicEntropy assumes of its constants.
ASSUME SourceAssumption ==
  /\ HiBase \in Nat /\ HiBase >= 2 /\ LoBase \in Nat /\ LoBase >= 1
  /\ ByteBits \in Nat \ {0}
  /\ IncArg \in M!Bounds /\ DefaultInc \in M!Bounds \ {0} /\ Incs \subseteq M!Bounds
  /\ Ms \subseteq Nat /\ Draws \subseteq M!Fields /\ SourceFails \in BOOLEAN

sourceVars == <<ms, entropy, inc, log, result>>
lockVars == <<lock, poisoned>>
threadVars == <<pc, arg, out, calls>>
lockedVars == <<sourceVars, lockVars, threadVars>>

NoBytes == <<0, 0>>

-----------------------------------------------------------------------------
Init ==
  /\ M!Init
  /\ lock = NoThread /\ poisoned = FALSE
  /\ pc = [p \in Threads |-> "idle"]
  /\ arg = [p \in Threads |-> [ms |-> 0, room |-> TRUE]]
  /\ out = [p \in Threads |-> [res |-> "none", dst |-> NoBytes, pos |-> 0]]
  /\ calls = 0

Goto(p, label) == pc' = [pc EXCEPT ![p] = label]

\* What the call returns is settled inside the section.
Deliver(p, bytes) ==
  out' = [out EXCEPT ![p] = [res |-> result', dst |-> bytes, pos |-> Len(log')]]

\* A thread calls Locked::monotonic_read(t, dst).
Call(p, t, room) ==
  /\ pc[p] = "idle" /\ calls < MaxCalls
  /\ Goto(p, "lock")
  /\ arg' = [arg EXCEPT ![p] = [ms |-> t, room |-> room]]
  /\ calls' = calls + 1
  /\ UNCHANGED <<sourceVars, lockVars, out>>

\* Mutants: the source is entered without waiting for the lock; the poison flag
\* is ignored (PoisonError::into_inner); an error is returned with the guard
\* alive, so that the caller unwraps it inside the section.
FreeAlways == TRUE
PoisonIgnored == FALSE
ReleaseAfterOk(p) == lock' = IF out[p].res = "ok" THEN NoThread ELSE lock

\* The Mutex lets a thread in while no guard is alive.
Free == lock = NoThread

\* lock() returns a PoisonError.
IsPoisoned == poisoned

\* The guard of thread p is dropped.
Release(p) == lock' = NoThread

\* Thread p panics.  A guard it still holds is dropped while it unwinds, which
\* frees the lock and poisons it.
Unwind(p) ==
  /\ Goto(p, "panicked")
  /\ \/ lock = p /\ lock' = NoThread /\ poisoned' = TRUE
     \/ lock # p /\ UNCHANGED lockVars

\* self.inner.lock() returns the guard.
Acquire(p) ==
  /\ pc[p] = "lock" /\ Free /\ ~IsPoisoned
  /\ lock' = p
  /\ Goto(p, "read")
  /\ UNCHANGED <<sourceVars, poisoned, arg, out, calls>>

\* self.inner.lock() returns a PoisonError and expect panics.
LockPanic(p) ==
  /\ pc[p] = "lock" /\ Free /\ IsPoisoned
  /\ Unwind(p)
  /\ UNCHANGED <<sourceVars, arg, out, calls>>

\* monotonic_read_inner: too little room for ten bytes.
TooShort(p) ==
  /\ pc[p] = "read" /\ ~arg[p].room
  /\ M!ShortBuffer
  /\ Deliver(p, NoBytes)
  /\ Goto(p, "unlock")
  /\ UNCHANGED <<lockVars, arg, calls>>

\* monotonic_read_inner: the test that picks the branch.
Branch(p) ==
  /\ pc[p] = "read" /\ arg[p].room
  /\ Goto(p, IF M!Continues(arg[p].ms) THEN "bump" ELSE "fill")
  /\ UNCHANGED <<sourceVars, lockVars, arg, out, calls>>

\* monotonic_read_inner: the fresh branch.
DoFill(p) ==
  /\ pc[p] = "fill"
  /\ \E bs \in Draws : M!Fill(arg[p].ms, bs)
  /\ Deliver(p, M!append_to(entropy'))
  /\ Goto(p, "unlock")
  /\ UNCHANGED <<lockVars, arg, calls>>

\* monotonic_read_inner: the increment branch; dst is not written on overflow.
DoBump(p) ==
  /\ pc[p] = "bump"
  /\ \E n \in M!Increments(inc) : M!Increment(arg[p].ms, n)
  /\ Deliver(p, IF result' = "ok" THEN M!append_to(entropy') ELSE NoBytes)
  /\ Goto(p, "unlock")
  /\ UNCHANGED <<lockVars, arg, calls>>

\* Is the thread about to read from the inner source?
Reading(p) == pc[p] = "fill" \/ (pc[p] = "bump" /\ inc > 1)

\* The inner source fails, and the error is returned.
ReadFails(p) ==
  /\ SourceFails /\ Reading(p)
  /\ result' = "Read"
  /\ UNCHANGED <<ms, entropy, inc, log>>
  /\ Deliver(p, NoBytes)
  /\ Goto(p, "unlock")
  /\ UNCHANGED <<lockVars, arg, calls>>

\* The inner source panics, under the guard.
ReadPanics(p) ==
  /\ SourcePanics /\ Reading(p)
  /\ Unwind(p)
  /\ UNCHANGED <<sourceVars, arg, out, calls>>

\* The guard is dropped at the end of Locked::monotonic_read.
Unlock(p) ==
  /\ pc[p] = "unlock"
  /\ Release(p)
  /\ Goto(p, "return")
  /\ UNCHANGED <<sourceVars, poisoned, arg, out, calls>>

\* The caller of Locked::monotonic_read goes on.
Return(p) ==
  /\ pc[p] = "return"
  /\ Goto(p, "idle")
  /\ UNCHANGED <<sourceVars, lockVars, arg, out, calls>>

\* Locked::read needs exclusive access (&mut self), so no other thread is in a
\* call; it still takes the lock, panics when that is poisoned, and poisons it
\* when the source panics.
LockedRead(p) ==
  /\ pc[p] = "idle" /\ calls < MaxCalls
  /\ \A q \in Threads : pc[q] \in {"idle", "panicked"}
  /\ calls' = calls + 1
  /\ UNCHANGED <<lock, arg, out>>
  /\ \/ ~IsPoisoned /\ M!PlainRead /\ UNCHANGED <<poisoned, pc>>
     \/ ~IsPoisoned /\ SourcePanics /\ poisoned' = TRUE /\ Goto(p, "panicked")
        /\ UNCHANGED sourceVars
     \/ IsPoisoned /\ Goto(p, "panicked") /\ UNCHANGED <<sourceVars, poisoned>>

\* Everything a thread does between its call and the end of the critical section.
Section(p) ==
  \/ Acquire(p) \/ LockPanic(p)
  \/ TooShort(p) \/ Branch(p)
  \/ DoFill(p) \/ DoBump(p)
  \/ ReadFails(p) \/ ReadPanics(p)
  \/ Unlock(p)

Next ==
  \E p \in Threads :
    \/ \E t \in Ms, room \in BOOLEAN : Call(p, t, room)
    \/ LockedRead(p)
    \/ Section(p)
    \/ Return(p)

(***************************************************************************)
(* A thread inside a call keeps running.  Nothing is assumed about the     *)
(* order in which the Mutex lets waiting threads in: with finitely many    *)
(* calls a thread that waits is let in some time.                          *)
(***************************************************************************)
Fairness == \A p \in Threads : WF_lockedVars(Section(p)) /\ WF_lockedVars(Return(p))

Spec == Init /\ [][Next]_lockedVars /\ Fairness

-----------------------------------------------------------------------------
InSection == {"read", "bump", "fill", "unlock"}

Labels == InSection \cup {"idle", "lock", "return", "panicked"}

\* labels are the places a thread may be at.
ThreadsOK(labels) ==
  /\ lock \in Threads \cup {NoThread}
  /\ pc \in [Threads -> labels]
  /\ arg \in [Threads -> [ms : Ms \cup {0}, room : BOOLEAN]]

OutOK == out \in [Threads -> [res : M!Results, dst : M!Fields, pos : Nat]]

\* The source inside the Mutex, the lock and the threads keep their types.
TypeOK ==
  /\ M!TypeOK
  /\ ThreadsOK(Labels)
  /\ poisoned \in BOOLEAN
  /\ OutOK
  /\ calls \in 0 .. MaxCalls

\* A thread is between lock() and the drop of its guard exactly while it holds
\* the lock, on the error path and on the unwinding path too.
HolderInSection == \A p \in Threads : pc[p] \in InSection <=> lock = p

\* The branch a thread has picked is still the right one when it acts on it:
\* nobody changed the timestamp or the accumulator in between.
BranchStillRight ==
  \A p \in Threads :
    /\ pc[p] = "bump" => arg[p].room /\ M!Continues(arg[p].ms)
    /\ pc[p] = "fill" => arg[p].room /\ ~M!Continues(arg[p].ms)

\* A thread on its way to the source has been given a timestamp.
ArgumentsGiven ==
  \A p \in Threads : pc[p] \in InSection \cup {"lock"} => arg[p].ms \in Ms

\* A poisoned lock is never held again.
PoisonedIsFree == poisoned => lock = NoThread

\* The inductive invariant behind the properties of the lock, also for callers
\* that have labels of their own.
LockInv(labels) ==
  ThreadsOK(labels) /\ HolderInSection /\ BranchStillRight /\ ArgumentsGiven /\ PoisonedIsFree

LInv == LockInv(Labels)

\* After a panic inside the section the source is never touched again, so that
\* no caller ever continues from a half-done read.
PoisonedIsFrozen == [][poisoned => UNCHANGED sourceVars]_lockedVars

\* However the threads interleave, fail and panic, the source behaves as if
\* each call were one step of a MonotonicEntropy used by a single thread.
ImplementsMonotonicEntropy == M!Spec

\* Every call ends, by returning or by a panic: an error or a panic in one
\* thread never leaves another one waiting for the lock.
EveryCallEnds ==
  \A p \in Threads : pc[p] = "lock" ~> pc[p] \in {"idle", "panicked"}
=============================================================================
