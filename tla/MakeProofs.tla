----------------------------- MODULE MakeProofs -----------------------------
(***************************************************************************)
(* What Locked and make() guarantee to any set of threads.                 *)
(*                                                                         *)
(* Locked: the Mutex makes every call of monotonic_read atomic, also with  *)
(* failing and panicking sources; the shared source refines the sequential *)
(* MonotonicEntropy.                                                       *)
(*                                                                         *)
(* make(): the OnceLock never disturbs a source in use, a thread panics    *)
(* only for a reason of its own, and ULIDs increase within a run of reads  *)
(* and, for callers one after the other, for ever.                         *)
(***************************************************************************)
EXTENDS Make, TLAPS

-----------------------------------------------------------------------------
(* Locked                                                                  *)

\* What is proved of the sequential source.
P == INSTANCE MonotonicEntropyProofs

USE DEF InSection, Labels, Free, IsPoisoned, Release

\* The invariant holds before any call.
LEMMA InitLInv == Init => LInv
BY LockedAssumption
   DEF Init, LInv, ThreadsOK, HolderInSection, BranchStillRight, ArgumentsGiven,
       PoisonedIsFree, LockInv

\* A step of one thread that leaves the source alone moves only that thread.
LEMMA QuietStep ==
  ASSUME NEW labels, LockInv(labels),
         NEW p \in Threads, NEW label \in labels, Goto(p, label),
         ms' = ms, entropy' = entropy, arg' = arg,
         lock' \in Threads \cup {NoThread},
         \A q \in Threads \ {p} : lock' = q <=> lock = q,
         lock' = p <=> label \in InSection,
         poisoned' => lock' = NoThread,
         label \in InSection \cup {"lock"} => arg[p].ms \in Ms,
         label = "bump" => arg[p].room /\ M!Continues(arg[p].ms),
         label = "fill" => arg[p].room /\ ~M!Continues(arg[p].ms)
  PROVE  LockInv(labels)'
<1>1. pc \in [Threads -> labels] /\ pc' = [pc EXCEPT ![p] = label]
  BY DEF LockInv, ThreadsOK, Goto
<1>2. pc'[p] = label /\ \A q \in Threads \ {p} : pc'[q] = pc[q]
  BY <1>1
<1>3. ThreadsOK(labels)'
  BY <1>1 DEF LockInv, ThreadsOK
<1>4. HolderInSection'
  BY <1>2 DEF LockInv, HolderInSection
<1>5. \A t : M!Continues(t)' <=> M!Continues(t)
  BY DEF M!Continues
<1>6. BranchStillRight'
  BY <1>2, <1>5 DEF LockInv, BranchStillRight
<1>7. ArgumentsGiven'
  BY <1>2 DEF LockInv, ArgumentsGiven
<1> QED BY <1>3, <1>4, <1>6, <1>7 DEF LockInv, PoisonedIsFree

\* A thread that finishes its read inside the section disturbs no other thread,
\* whatever it did to the source: no other thread is inside.
LEMMA WorkStep ==
  ASSUME NEW labels, LockInv(labels), "unlock" \in labels,
         NEW p \in Threads, pc[p] \in InSection, Goto(p, "unlock"),
         arg' = arg, lock' = lock, poisoned' = poisoned
  PROVE  LockInv(labels)'
<1>1. pc \in [Threads -> labels] /\ pc' = [pc EXCEPT ![p] = "unlock"]
  BY DEF LockInv, ThreadsOK, Goto
<1>2. pc'[p] = "unlock" /\ \A q \in Threads \ {p} : pc'[q] = pc[q]
  BY <1>1
<1>3. lock = p /\ \A q \in Threads \ {p} : pc[q] \notin InSection
  BY DEF LockInv, HolderInSection
<1>4. ThreadsOK(labels)'
  BY <1>1 DEF LockInv, ThreadsOK
<1>5. HolderInSection'
  BY <1>2 DEF LockInv, HolderInSection
<1>6. BranchStillRight'
  BY <1>2, <1>3 DEF BranchStillRight
<1>7. ArgumentsGiven'
  BY <1>2 DEF LockInv, ArgumentsGiven
<1> QED BY <1>4, <1>5, <1>6, <1>7 DEF LockInv, PoisonedIsFree

\* A thread that brings arguments to the lock touches nothing else.
LEMMA ArgumentStep ==
  ASSUME NEW labels, LockInv(labels), "lock" \in labels,
         NEW p \in Threads, pc[p] \notin InSection, Goto(p, "lock"),
         NEW t \in Ms, NEW room \in BOOLEAN,
         arg' = [arg EXCEPT ![p] = [ms |-> t, room |-> room]],
         UNCHANGED <<sourceVars, lockVars>>
  PROVE  LockInv(labels)'
<1>1. /\ pc \in [Threads -> labels] /\ pc' = [pc EXCEPT ![p] = "lock"]
      /\ arg \in [Threads -> [ms : Ms \cup {0}, room : BOOLEAN]]
  BY DEF LockInv, ThreadsOK, Goto
<1>2. /\ pc'[p] = "lock" /\ arg'[p] = [ms |-> t, room |-> room]
      /\ \A q \in Threads \ {p} : pc'[q] = pc[q] /\ arg'[q] = arg[q]
  BY <1>1
<1>3. lock' = lock /\ poisoned' = poisoned /\ ms' = ms /\ entropy' = entropy
  BY DEF sourceVars, lockVars
<1>4. ThreadsOK(labels)'
  BY <1>1, <1>3 DEF LockInv, ThreadsOK
<1>5. HolderInSection'
  BY <1>2, <1>3 DEF LockInv, HolderInSection
<1>6. BranchStillRight'
  BY <1>2, <1>3 DEF LockInv, BranchStillRight, M!Continues
<1>7. ArgumentsGiven'
  BY <1>2 DEF LockInv, ArgumentsGiven
<1> QED BY <1>3, <1>4, <1>5, <1>6, <1>7 DEF LockInv, PoisonedIsFree

\* A thread that panics outside the section holds no guard, and moves only itself.
LEMMA UnwindOutside ==
  ASSUME NEW labels, LockInv(labels), NEW p \in Threads, pc[p] \notin InSection, Unwind(p)
  PROVE  Goto(p, "panicked") /\ UNCHANGED lockVars
BY DEF LockInv, HolderInSection, Unwind

\* A thread that panics inside the section lets go of the lock and poisons it.
LEMMA UnwindInside ==
  ASSUME NEW labels, LockInv(labels), NEW p \in Threads, pc[p] \in InSection, Unwind(p)
  PROVE  Goto(p, "panicked") /\ lock = p /\ lock' = NoThread
BY DEF LockInv, HolderInSection, Unwind

\* Every step inside the section keeps the invariant.
LEMMA SectionKeepsLockInv ==
  ASSUME NEW labels, Labels \subseteq labels, LockInv(labels), NEW p \in Threads, Section(p)
  PROVE  LockInv(labels)'
<1> USE DEF sourceVars, lockVars
<1>1. /\ pc[p] \in InSection <=> lock = p
      /\ pc[p] \in InSection \cup {"lock"} => arg[p].ms \in Ms
      /\ lock \in Threads \cup {NoThread} /\ p # NoThread
      /\ poisoned => lock = NoThread
  BY LockedAssumption DEF LockInv, HolderInSection, ArgumentsGiven, ThreadsOK, PoisonedIsFree
<1>2. CASE Acquire(p)
  <2>1. lock = NoThread /\ lock' = p /\ ~poisoned /\ ~poisoned' /\ Goto(p, "read")
    BY <1>2 DEF Acquire
  <2>2. \A q \in Threads \ {p} : lock' = q <=> lock = q
    BY <2>1, LockedAssumption
  <2> QED BY <1>1, <1>2, <2>1, <2>2, QuietStep DEF Acquire
<1>3. CASE LockPanic(p)
  <2>1. Goto(p, "panicked") /\ UNCHANGED lockVars
    BY <1>3, UnwindOutside DEF LockPanic
  <2> QED BY <1>1, <1>3, <2>1, QuietStep DEF LockPanic
<1>4. CASE TooShort(p)
  BY <1>4, WorkStep DEF TooShort
<1>5. CASE Branch(p)
  BY <1>1, <1>5, QuietStep DEF Branch
<1>6. CASE DoFill(p)
  BY <1>6, WorkStep DEF DoFill
<1>7. CASE DoBump(p)
  BY <1>7, WorkStep DEF DoBump
<1>8. CASE ReadFails(p)
  BY <1>8, WorkStep DEF ReadFails, Reading
<1>9. CASE ReadPanics(p)
  <2>1. pc[p] \in InSection /\ UNCHANGED <<sourceVars, arg>>
    BY <1>9 DEF ReadPanics, Reading
  <2>2. Goto(p, "panicked") /\ lock = p /\ lock' = NoThread
    BY <1>9, <2>1, UnwindInside DEF ReadPanics
  <2> QED BY <1>1, <2>1, <2>2, QuietStep, LockedAssumption
<1>10. CASE Unlock(p)
  BY <1>1, <1>10, QuietStep, LockedAssumption DEF Unlock
<1> QED BY <1>2, <1>3, <1>4, <1>5, <1>6, <1>7, <1>8, <1>9, <1>10 DEF Section

\* The return to the caller keeps the invariant.
LEMMA ReturnKeepsLockInv ==
  ASSUME NEW labels, Labels \subseteq labels, LockInv(labels), NEW p \in Threads, Return(p)
  PROVE  LockInv(labels)'
BY QuietStep DEF Return, LockInv, HolderInSection, ThreadsOK, PoisonedIsFree, sourceVars, lockVars

\* Every step of every thread keeps the invariant.
LEMMA NextLInv == LInv /\ [Next]_lockedVars => LInv'
<1> SUFFICES ASSUME LInv, [Next]_lockedVars PROVE LInv'
  OBVIOUS
<1> USE DEF sourceVars, lockVars, LInv
<1>1. ASSUME NEW p \in Threads, Section(p) PROVE LInv'
  BY <1>1, SectionKeepsLockInv
<1>2. ASSUME NEW p \in Threads, Return(p) PROVE LInv'
  BY <1>2, ReturnKeepsLockInv
<1>3. ASSUME NEW p \in Threads, LockedRead(p) PROVE LInv'
  <2>1. CASE pc' = pc
    <3>1. ms' = ms /\ entropy' = entropy /\ UNCHANGED <<lock, arg>> /\ poisoned' = poisoned
      BY <1>3, <2>1 DEF LockedRead, M!PlainRead, Goto, LockInv, ThreadsOK
    <3> QED BY <3>1, <2>1 DEF LockInv, ThreadsOK, HolderInSection, BranchStillRight,
                              ArgumentsGiven, PoisonedIsFree, M!Continues
  <2>2. CASE pc' # pc
    <3>1. /\ Goto(p, "panicked") /\ UNCHANGED <<sourceVars, lock, arg>>
          /\ pc[p] = "idle" /\ \A q \in Threads : pc[q] \notin InSection
      BY <1>3, <2>2 DEF LockedRead
    <3>2. lock = NoThread
      BY <3>1 DEF LockInv, ThreadsOK, HolderInSection
    <3> QED BY <3>1, <3>2, LockedAssumption, QuietStep
  <2> QED BY <2>1, <2>2
<1>4. CASE UNCHANGED lockedVars
  BY <1>4 DEF lockedVars, threadVars, LockInv, ThreadsOK, HolderInSection, BranchStillRight,
              ArgumentsGiven, PoisonedIsFree, M!Continues
<1>5. ASSUME NEW p \in Threads, NEW t \in Ms, NEW room \in BOOLEAN, Call(p, t, room)
      PROVE  LInv'
  BY <1>5, ArgumentStep DEF Call
<1> QED BY <1>1, <1>2, <1>3, <1>4, <1>5 DEF Next

\* The lock invariant holds however the threads interleave.
THEOREM LockInvariance == Spec => []LInv
BY InitLInv, NextLInv, PTL DEF Spec

\* At most one thread is between lock() and the drop of its guard, on every path.
THEOREM SectionIsExclusive == Spec => []HolderInSection
<1>1. LInv => HolderInSection
  BY DEF LInv, LockInv
<1> QED BY <1>1, LockInvariance, PTL

\* The branch a thread picked is still right when it acts on it.
THEOREM BranchesStayRight == Spec => []BranchStillRight
<1>1. LInv => BranchStillRight
  BY DEF LInv, LockInv
<1> QED BY <1>1, LockInvariance, PTL

\* Once a thread has panicked inside the section, the timestamp, the accumulator
\* and the log never change again.
THEOREM PoisonFreezes == Spec => PoisonedIsFrozen
<1>1. LInv /\ [Next]_lockedVars => [poisoned => UNCHANGED sourceVars]_lockedVars
  <2> SUFFICES ASSUME LInv, Next, poisoned PROVE UNCHANGED sourceVars
    BY DEF lockedVars
  <2>1. \A p \in Threads : pc[p] \notin InSection
    BY LockedAssumption DEF LInv, LockInv, PoisonedIsFree, HolderInSection
  <2>2. PICK p \in Threads : \/ \E t \in Ms, room \in BOOLEAN : Call(p, t, room)
                            \/ LockedRead(p) \/ Section(p) \/ Return(p)
    BY DEF Next
  <2>3. CASE \E t \in Ms, room \in BOOLEAN : Call(p, t, room)
    BY <2>3 DEF Call, sourceVars
  <2>4. CASE Return(p)
    BY <2>4 DEF Return, sourceVars
  <2>5. CASE Section(p)
    <3>1. LockPanic(p)
      BY <2>1, <2>5 DEF Section, Acquire, TooShort, Branch, DoFill, DoBump, ReadFails,
                        ReadPanics, Reading, Unlock
    <3> QED BY <3>1 DEF LockPanic, sourceVars
  <2>6. CASE LockedRead(p)
    BY <2>6 DEF LockedRead, sourceVars
  <2> QED BY <2>2, <2>3, <2>4, <2>5, <2>6
<1> QED BY <1>1, LockInvariance, PTL DEF Spec, PoisonedIsFrozen

\* A step inside the section is a call of the sequential source, or leaves the
\* source alone.
LEMMA SectionStep ==
  ASSUME NEW labels, LockInv(labels), NEW p \in Threads, Section(p)
  PROVE  M!Next \/ UNCHANGED sourceVars
<1>1. pc[p] \in InSection => arg[p].ms \in Ms
  BY DEF LockInv, ArgumentsGiven
<1>2. CASE TooShort(p)
  BY <1>2 DEF TooShort, M!Next, M!NoWrite
<1>3. CASE DoFill(p)
  <2>1. ~M!Continues(arg[p].ms) /\ arg[p].ms \in Ms
    BY <1>1, <1>3 DEF DoFill, LockInv, BranchStillRight
  <2>2. M!Refill(arg[p].ms)
    BY <1>3, <2>1 DEF DoFill, M!Refill
  <2> QED BY <2>1, <2>2 DEF M!Next, M!Write
<1>4. CASE DoBump(p)
  <2>1. M!Continues(arg[p].ms) /\ arg[p].ms \in Ms
    BY <1>1, <1>4 DEF DoBump, LockInv, BranchStillRight
  <2>2. M!Bump(arg[p].ms)
    BY <1>4, <2>1 DEF DoBump, M!Bump
  <2> QED BY <2>1, <2>2 DEF M!Next, M!Write
<1>5. CASE ReadFails(p)
  <2>1. /\ arg[p].ms \in Ms
        /\ M!Continues(arg[p].ms) => inc > 1
    BY <1>1, <1>5 DEF ReadFails, Reading, LockInv, BranchStillRight
  <2>2. M!SourceError(arg[p].ms)
    BY <1>5, <2>1 DEF ReadFails, M!SourceError
  <2> QED BY <2>1, <2>2 DEF M!Next, M!NoWrite
<1>6. CASE Acquire(p) \/ LockPanic(p) \/ Branch(p) \/ ReadPanics(p) \/ Unlock(p)
  BY <1>6 DEF Acquire, LockPanic, Branch, ReadPanics, Unlock
<1> QED BY <1>2, <1>3, <1>4, <1>5, <1>6 DEF Section

\* Locked implements the sequential MonotonicEntropy: every interleaving of its
\* threads, with failures and panics, is a sequence of whole calls.
THEOREM LockMakesAtomic == Spec => ImplementsMonotonicEntropy
<1>1. Init => M!Init
  BY DEF Init
<1>2. LInv /\ [Next]_lockedVars => [M!Next]_(M!vars)
  <2> SUFFICES ASSUME LInv, [Next]_lockedVars PROVE M!Next \/ UNCHANGED sourceVars
    BY DEF M!vars, sourceVars
  <2>1. CASE UNCHANGED lockedVars
    BY <2>1 DEF lockedVars
  <2>2. CASE Next
    <3>1. ASSUME NEW p \in Threads, NEW t \in Ms, NEW room \in BOOLEAN, Call(p, t, room)
          PROVE  UNCHANGED sourceVars
      BY <3>1 DEF Call
    <3>2. ASSUME NEW p \in Threads, Return(p) PROVE UNCHANGED sourceVars
      BY <3>2 DEF Return
    <3>3. ASSUME NEW p \in Threads, LockedRead(p)
          PROVE  M!PlainRead \/ UNCHANGED sourceVars
      BY <3>3 DEF LockedRead
    <3> QED BY <2>2, <3>1, <3>2, <3>3, SectionStep DEF LInv, Next, M!Next, M!NoWrite
  <2> QED BY <2>1, <2>2
<1> QED BY <1>1, <1>2, LockInvariance, PTL
        DEF Spec, ImplementsMonotonicEntropy, M!Spec

-----------------------------------------------------------------------------
(* The invariant of the sequential source, carried over to the shared one. *)

\* The operators of the two instances of MonotonicEntropy are the same.
LEMMA SameSource ==
  /\ M!Bounds = P!Bounds /\ M!Fields = P!Fields
  /\ M!Init = P!Init /\ M!vars = P!vars /\ M!Next = P!Next
<1> USE DEF M!Bounds, P!Bounds, M!Fields, P!Fields, M!is_zero, P!is_zero,
            M!set_bytes, P!set_bytes, M!append_to, P!append_to, M!Step, P!Step
<1>1. M!Init = P!Init /\ M!vars = P!vars
  BY DEF M!Init, P!Init, M!ZERO, P!ZERO, M!vars, P!vars
<1>2. \A b : M!Increments(b) = P!Increments(b)
  BY DEF M!Increments, P!Increments, M!AcceptedCandidates, P!AcceptedCandidates,
         M!Accepted, P!Accepted, M!Chunks, P!Chunks, M!Candidate, P!Candidate,
         M!LittleEndian, P!LittleEndian, M!MaskFirst, P!MaskFirst, M!msbit_len, P!msbit_len,
         M!byte_len, P!byte_len, M!bit_len, P!bit_len, M!BitLen, P!BitLen, M!Byte, P!Byte,
         M!Pow2, P!Pow2
<1>3. M!Next = P!Next
  BY <1>2 DEF M!Next, P!Next, M!Write, P!Write, M!NoWrite, P!NoWrite, M!Refill, P!Refill,
              M!Bump, P!Bump, M!SourceError, P!SourceError, M!ShortBuffer, P!ShortBuffer,
              M!PlainRead, P!PlainRead, M!SetInc, P!SetInc, M!Continues, P!Continues,
              M!Fill, P!Fill, M!Increment, P!Increment, M!Logged, P!Logged,
              M!add, P!add, M!add_overflows, P!add_overflows
<1> QED BY <1>1, <1>3

\* So are their invariants, now and after a step.
LEMMA SameInvariant == M!IInv = P!IInv /\ M!IInv' = P!IInv'
BY DEF M!IInv, P!IInv, M!TypeOK, P!TypeOK, M!LogTracksState, P!LogTracksState,
       M!SameMsIncreases, P!SameMsIncreases, M!OverflowIsReal, P!OverflowIsReal,
       M!Uint80Set, P!Uint80Set, M!Bounds, P!Bounds, M!Entry, P!Entry, M!Fields, P!Fields,
       M!Results, P!Results, M!is_zero, P!is_zero, M!append_to, P!append_to,
       M!SameRun, P!SameRun, M!ZeroFields, P!ZeroFields, M!LexLess, P!LexLess,
       M!FieldsVal, P!FieldsVal, M!Limit, P!Limit

\* The invariant of the sequential source is inductive in its instance here.
LEMMA SourceInit == M!Init => M!IInv
BY P!InitIInv, SourceAssumption, SameSource, SameInvariant

LEMMA SourceKeeps == M!IInv /\ [M!Next]_(M!vars) => M!IInv'
<1>1. P!IInv /\ [P!Next]_(P!vars) => P!IInv'
  BY P!NextIInv, SourceAssumption, SameSource
<1> QED BY <1>1, SameSource, SameInvariant DEF M!vars, P!vars

\* However its threads interleave, fail and panic, the shared source has the
\* invariant of the sequential one.
THEOREM SharedInvariance == Spec => []M!IInv
BY LockMakesAtomic, SourceInit, SourceKeeps, PTL DEF ImplementsMonotonicEntropy, M!Spec

\* The promise of the Monotonic trait for a source shared by any threads: within a
\* run of one millisecond every read is greater than all earlier ones.
THEOREM SharedReadsIncrease == Spec => []M!SameMsIncreases
<1>1. M!IInv => M!SameMsIncreases
  BY DEF M!IInv
<1> QED BY <1>1, SharedInvariance, PTL

-----------------------------------------------------------------------------
(* Types.                                                                  *)

\* What a thread delivers has its type when the source has.
LEMMA DeliverTyped ==
  ASSUME OutOK, M!IInv', NEW p \in Threads, NEW bytes \in M!Fields, Deliver(p, bytes)
  PROVE  OutOK'
<1>1. result' \in M!Results /\ Len(log') \in Nat
  BY DEF M!IInv, M!TypeOK
<1> QED BY <1>1 DEF OutOK, Deliver

\* The accumulator's bytes are two fields.
LEMMA AppendTyped == /\ NoBytes \in M!Fields
                     /\ M!IInv' => M!append_to(entropy') \in M!Fields
<1>1. NoBytes \in M!Fields
  BY SourceAssumption DEF NoBytes, M!Fields
<1>2. ASSUME M!IInv' PROVE M!append_to(entropy') \in M!Fields
  BY <1>2, SourceAssumption DEF M!IInv, M!TypeOK, M!Uint80Set, M!append_to, M!Fields
<1> QED BY <1>1, <1>2

\* A step of the section keeps the type of what was delivered.
LEMMA SectionOutOK ==
  ASSUME OutOK, M!IInv', NEW p \in Threads, Section(p)
  PROVE  OutOK'
<1>1. CASE TooShort(p) \/ ReadFails(p) \/ DoFill(p) \/ DoBump(p)
  BY <1>1, DeliverTyped, AppendTyped DEF TooShort, ReadFails, DoFill, DoBump
<1>2. CASE Acquire(p) \/ LockPanic(p) \/ Branch(p) \/ ReadPanics(p) \/ Unlock(p)
  BY <1>2 DEF Acquire, LockPanic, Branch, ReadPanics, Unlock, OutOK
<1> QED BY <1>1, <1>2 DEF Section

\* The source, the lock and every thread keep their types.
THEOREM LockedTypeCorrect == Spec => []TypeOK
<1> DEFINE Typed == poisoned \in BOOLEAN /\ OutOK /\ calls \in 0 .. MaxCalls
<1>1. Init => Typed
  <2> SUFFICES ASSUME Init PROVE Typed
    OBVIOUS
  <2>1. [res |-> "none", dst |-> NoBytes, pos |-> 0] \in [res : M!Results, dst : M!Fields, pos : Nat]
    BY AppendTyped DEF M!Results
  <2>2. OutOK
    BY <2>1 DEF Init, OutOK
  <2>3. calls \in 0 .. MaxCalls
    BY LockedAssumption DEF Init
  <2>4. poisoned \in BOOLEAN
    BY DEF Init
  <2> QED BY <2>2, <2>3, <2>4
<1>2. Typed /\ M!IInv' /\ [Next]_lockedVars => Typed'
  <2> SUFFICES ASSUME Typed, M!IInv', [Next]_lockedVars PROVE Typed'
    OBVIOUS
  <2>1. ASSUME NEW p \in Threads, Section(p) PROVE Typed'
    <3>1. calls' = calls /\ poisoned' \in BOOLEAN
      BY <2>1 DEF Section, Acquire, LockPanic, TooShort, Branch, DoFill, DoBump,
                  ReadFails, ReadPanics, Unwind, Unlock, lockVars
    <3> QED BY <2>1, <3>1, SectionOutOK
  <2>2. ASSUME NEW p \in Threads, LockedRead(p) PROVE Typed'
    <3>1. out' = out /\ poisoned' \in BOOLEAN
      BY <2>2 DEF LockedRead
    <3>2. calls' \in 0 .. MaxCalls
      BY <2>2, LockedAssumption DEF LockedRead
    <3> QED BY <3>1, <3>2 DEF OutOK
  <2>3. ASSUME NEW p \in Threads, NEW t \in Ms, NEW room \in BOOLEAN, Call(p, t, room)
        PROVE  Typed'
    BY <2>3, LockedAssumption DEF Call, lockVars, OutOK
  <2>4. ASSUME NEW p \in Threads, Return(p) PROVE Typed'
    BY <2>4 DEF Return, lockVars, OutOK
  <2>5. CASE UNCHANGED lockedVars
    BY <2>5 DEF lockedVars, lockVars, threadVars, OutOK
  <2> QED BY <2>1, <2>2, <2>3, <2>4, <2>5 DEF Next
<1>3. LInv /\ M!IInv /\ Typed => TypeOK
  BY DEF LInv, LockInv, M!IInv, TypeOK
<1> QED BY <1>1, <1>2, <1>3, LockInvariance, SharedInvariance, PTL DEF Spec

-----------------------------------------------------------------------------
(* make()                                                                  *)

\* A thread that has passed get_or_init sees the source, and until one has, the
\* source is as Init left it: the initialiser changes nothing that was used.
OnceInv ==
  /\ once \in {"empty", "running", "ready"}
  /\ once # "ready" => log = <<>> /\ ms = 0 /\ entropy = M!ZERO /\ inc = DefaultInc
  /\ \A p \in Threads :
       /\ pc[p] \in InSection \cup {"now", "lock", "return"} => once = "ready"
       /\ pc[p] = "init" => once = "running"
  /\ \A p, q \in Threads : pc[p] = "init" /\ pc[q] = "init" => p = q

\* make() and the direct callers always bring room for ten bytes.
RoomGiven == \A p \in Threads : pc[p] \in InSection \cup {"lock"} => arg[p].room = TRUE

\* Entry pos of the log is a successful read of dst for millisecond t.
IsRead(pos, t, dst) ==
  pos \in 1 .. Len(log) /\ log[pos].ok /\ log[pos].ms = t /\ log[pos].dst = dst

\* The ULIDs returned before this one or this call began come from earlier reads.
EarlierReads(n, pos) == \A k \in 1 .. n : made[k].pos < pos

\* A thread that has read knows which entry of the log its read was, also when
\* that read overflowed, and the entry comes after those of the ULIDs returned when its call began.
Delivered ==
  \A p \in Threads :
    pc[p] \in {"unlock", "return"} =>
      /\ out[p].res = "ok" => IsRead(out[p].pos, arg[p].ms, out[p].dst)
      /\ out[p].res # "ok" => OwnOverflow(p)
      /\ EarlierReads(before[p], out[p].pos)

\* So does every ULID returned.
MadeLogged ==
  \A i \in 1 .. Len(made) :
    /\ IsRead(made[i].pos, made[i].ms, made[i].dst)
    /\ made[i].after \in 0 .. i - 1
    /\ EarlierReads(made[i].after, made[i].pos)

\* What a call remembers of its beginning.
BeforeOK == \A p \in Threads : before[p] \in 0 .. Len(made)

MakeTypes ==
  /\ clock \in 0 .. MaxMs
  /\ kind \in [Threads -> {"make", "direct"}]
  /\ serial \in BOOLEAN
  /\ before \in [Threads -> Nat]
  /\ made \in Seq([ms : Ms, dst : M!Fields, pos : Nat, after : Nat])
  /\ OutOK

\* The inductive invariant of MakeSpec.
MInv ==
  /\ M!IInv /\ LockInv(MakeLabels) /\ ~poisoned
  /\ MakeTypes /\ OnceInv /\ RoomGiven /\ Delivered /\ MadeLogged /\ BeforeOK

-----------------------------------------------------------------------------
(* What holds in addition while calls come one after the other.            *)

NoPanic == \A p \in Threads : pc[p] # "panicked"

\* At most one thread is in a call, and that is one of make().
Alone ==
  /\ \A p, q \in Threads : pc[p] # "idle" /\ pc[q] # "idle" => p = q
  /\ \A p \in Threads : pc[p] # "idle" => kind[p] = "make"

\* Neither the source nor a call is ahead of the clock, and a call that has not
\* read yet is not behind the source.
InTime ==
  /\ log # <<>> => ms <= clock
  /\ \A p \in Threads :
       /\ pc[p] \in InSection \cup {"lock", "return"} => arg[p].ms <= clock
       /\ pc[p] \in {"lock", "read", "bump", "fill"} /\ log # <<>> => ms <= arg[p].ms

\* Unless a call is on its way back from the source, the last ULID returned is
\* the last read of the source.
Settled ==
  (\A p \in Threads : pc[p] \notin {"unlock", "return"}) /\ log # <<>> =>
    made # <<>> /\ made[Len(made)].pos = Len(log)

\* The ULID a call is about to return is larger than all before it.
Pending ==
  \A p \in Threads :
    pc[p] \in {"unlock", "return"} /\ out[p].res = "ok" =>
      /\ out[p].pos = Len(log) /\ out[p].dst # M!ZeroFields
      /\ \A i \in 1 .. Len(made) :
           UlidLess(made[i], [ms |-> arg[p].ms, dst |-> out[p].dst])

MadeIncreases ==
  /\ \A i \in 1 .. Len(made) : made[i].dst # M!ZeroFields
  /\ \A i, j \in 1 .. Len(made) : i < j => UlidLess(made[i], made[j])

SerialInv == Alone /\ InTime /\ Settled /\ Pending /\ MadeIncreases

\* Inductive together with MInv.
SInv == serial /\ NoPanic => SerialInv

-----------------------------------------------------------------------------
USE DEF InSection, Labels, MakeLabels

\* A thread that moves leaves the others where they are.
LEMMA Moves ==
  ASSUME LockInv(MakeLabels), NEW p \in Threads, NEW label, Goto(p, label)
  PROVE  pc'[p] = label /\ \A q \in Threads \ {p} : pc'[q] = pc[q]
BY DEF LockInv, ThreadsOK, Goto

\* The invariant holds before any call.
LEMMA MakeInitInv == MakeInit => MInv
<1> SUFFICES ASSUME MakeInit PROVE MInv
  OBVIOUS
<1>1. M!IInv
  BY SourceInit DEF MakeInit, Init
<1>2. LockInv(MakeLabels)
  BY LockedAssumption
     DEF MakeInit, Init, LockInv, ThreadsOK, HolderInSection, BranchStillRight,
         ArgumentsGiven, PoisonedIsFree
<1>3. OutOK
  <2>1. [res |-> "none", dst |-> NoBytes, pos |-> 0] \in [res : M!Results, dst : M!Fields, pos : Nat]
    BY AppendTyped DEF M!Results
  <2> QED BY <2>1 DEF MakeInit, Init, OutOK
<1>4. serial \in BOOLEAN /\ ~poisoned
  BY DEF MakeInit, Init
<1>5. MakeTypes
  BY <1>3, <1>4 DEF MakeInit, MakeTypes
<1>6. OnceInv
  BY MakeAssumption DEF MakeInit, Init, M!Init, OnceInv
<1>7. RoomGiven /\ Delivered /\ MadeLogged /\ BeforeOK
  BY DEF MakeInit, Init, RoomGiven, Delivered, MadeLogged, BeforeOK
<1> QED BY <1>1, <1>2, <1>4, <1>5, <1>6, <1>7 DEF MInv

-----------------------------------------------------------------------------
(* Steps that leave the source and the ULIDs returned alone.               *)

\* A thread moves on and keeps what it has read.
LEMMA QuietKeeps ==
  ASSUME MInv, NEW p \in Threads, NEW label, Goto(p, label),
         UNCHANGED <<sourceVars, out, made>>,
         LockInv(MakeLabels)', ~poisoned', MakeTypes', OnceInv',
         \A q \in Threads \ {p} : arg'[q] = arg[q] /\ before'[q] = before[q],
         before'[p] \in 0 .. Len(made),
         label \in InSection \cup {"lock"} => arg'[p].room = TRUE,
         label \in {"unlock", "return"} =>
           pc[p] \in {"unlock", "return"} /\ arg'[p] = arg[p] /\ before'[p] = before[p]
  PROVE  MInv'
<1>1. pc'[p] = label /\ \A q \in Threads \ {p} : pc'[q] = pc[q]
  BY Moves DEF MInv
<1>2. M!IInv'
  BY SourceKeeps DEF MInv, M!vars, sourceVars
<1>3. log' = log /\ out' = out /\ made' = made
  BY DEF sourceVars
<1>4. RoomGiven'
  BY <1>1 DEF MInv, RoomGiven
<1>5. Delivered'
  BY <1>1, <1>3 DEF MInv, Delivered, IsRead, OwnOverflow, EarlierReads
<1>6. MadeLogged'
  BY <1>3 DEF MInv, MadeLogged, IsRead, EarlierReads
<1>7. BeforeOK'
  BY <1>3 DEF MInv, BeforeOK
<1> QED BY <1>2, <1>4, <1>5, <1>6, <1>7 DEF MInv

\* A thread that does not run the initialiser does not disturb the OnceLock.
LEMMA OnceKept ==
  ASSUME MInv, NEW p \in Threads, NEW label, Goto(p, label), label # "init",
         once' = once, UNCHANGED sourceVars,
         label \in InSection \cup {"now", "lock", "return"} => once = "ready"
  PROVE  OnceInv'
<1>1. pc'[p] = label /\ \A q \in Threads \ {p} : pc'[q] = pc[q]
  BY Moves DEF MInv
<1> QED BY <1>1 DEF MInv, OnceInv, sourceVars

\* Time passes.
LEMMA TickKeeps == MInv /\ Tick => MInv'
<1> SUFFICES ASSUME MInv, Tick PROVE MInv'
  OBVIOUS
<1>1. /\ UNCHANGED <<sourceVars, lock, poisoned, pc, arg, out, once, kind, before, made>>
      /\ clock' \in 0 .. MaxMs
  BY DEF Tick, lockedVars, lockVars, threadVars
<1>2. serial' \in BOOLEAN
  BY DEF Tick, MInv, MakeTypes
<1>3. M!IInv'
  BY <1>1, SourceKeeps DEF MInv, M!vars, sourceVars
<1>4. LockInv(MakeLabels)' /\ ~poisoned'
  BY <1>1 DEF MInv, sourceVars, LockInv, ThreadsOK, HolderInSection, BranchStillRight,
              ArgumentsGiven, PoisonedIsFree, M!Continues
<1>5. MakeTypes'
  BY <1>1, <1>2 DEF MInv, MakeTypes, OutOK
<1>6. OnceInv' /\ RoomGiven'
  BY <1>1 DEF MInv, sourceVars, OnceInv, RoomGiven
<1>7. Delivered' /\ MadeLogged' /\ BeforeOK'
  BY <1>1 DEF MInv, sourceVars, Delivered, MadeLogged, BeforeOK, IsRead, OwnOverflow,
              EarlierReads
<1> QED BY <1>3, <1>4, <1>5, <1>6, <1>7 DEF MInv

\* A call begins.
LEMMA EnterKeeps ==
  ASSUME MInv, NEW p \in Threads, NEW k \in {"make", "direct"}, Enter(p, k)
  PROVE  MInv'
<1>1. Goto(p, "once") /\ pc[p] = "idle" /\ UNCHANGED <<sourceVars, lockVars, arg, out, clock, once, made>>
  BY DEF Enter
<1>2. LockInv(MakeLabels)'
  BY <1>1, QuietStep DEF MInv, LockInv, ThreadsOK, HolderInSection, PoisonedIsFree,
                         sourceVars, lockVars
<1>3. Len(made) \in Nat /\ kind \in [Threads -> {"make", "direct"}] /\ before \in [Threads -> Nat]
  BY DEF MInv, MakeTypes
<1>4. serial' \in BOOLEAN
  BY DEF MInv, MakeTypes, Enter
<1>5. MakeTypes'
  BY <1>1, <1>3, <1>4 DEF MInv, MakeTypes, Enter, OutOK
<1>6. before'[p] = Len(made) /\ \A q \in Threads \ {p} : before'[q] = before[q]
  BY <1>3 DEF Enter
<1>7. OnceInv'
  BY <1>1, OnceKept
<1>8. ~poisoned' /\ arg' = arg
  BY <1>1 DEF MInv, lockVars
<1>9. before'[p] \in 0 .. Len(made)
  BY <1>3, <1>6
<1> QED BY <1>1, <1>2, <1>5, <1>6, <1>7, <1>8, <1>9, QuietKeeps

\* A thread that keeps to itself: nothing changes but where it is.
LEMMA WalkKeeps ==
  ASSUME MInv, NEW p \in Threads, NEW label \in MakeLabels \ (InSection \cup {"lock", "return", "init"}),
         pc[p] \notin InSection, Goto(p, label), label = "now" => once = "ready",
         UNCHANGED <<sourceVars, lockVars, arg, out, calls, makeVars>>
  PROVE  MInv'
<1>1. LockInv(MakeLabels)'
  BY QuietStep DEF MInv, LockInv, ThreadsOK, HolderInSection, PoisonedIsFree, sourceVars, lockVars
<1>2. MakeTypes'
  BY DEF MInv, MakeTypes, makeVars, OutOK
<1>3. OnceInv'
  BY OnceKept DEF makeVars
<1>4. ~poisoned' /\ arg' = arg /\ made' = made
  BY DEF MInv, lockVars, makeVars
<1>5. before' = before /\ before'[p] \in 0 .. Len(made)
  BY DEF MInv, BeforeOK, makeVars
<1> QED BY <1>1, <1>2, <1>3, <1>4, <1>5, QuietKeeps

\* The OnceLock lets one thread run the initialiser.
LEMMA OnceBeginKeeps ==
  ASSUME MInv, NEW p \in Threads, OnceBegin(p)
  PROVE  MInv'
<1>1. /\ Goto(p, "init") /\ pc[p] = "once" /\ once = "empty" /\ once' = "running"
      /\ UNCHANGED <<sourceVars, lockVars, arg, out, clock, kind, serial, before, made>>
  BY DEF OnceBegin, OnceEmpty
<1>2. LockInv(MakeLabels)'
  BY <1>1, QuietStep DEF MInv, LockInv, ThreadsOK, HolderInSection, PoisonedIsFree,
                         sourceVars, lockVars
<1>3. MakeTypes'
  BY <1>1 DEF MInv, MakeTypes, OutOK
<1>4. pc'[p] = "init" /\ \A q \in Threads \ {p} : pc'[q] = pc[q]
  BY <1>1, Moves DEF MInv
<1>5. OnceInv'
  BY <1>1, <1>4 DEF MInv, OnceInv, sourceVars
<1>6. ~poisoned'
  BY <1>1 DEF MInv, lockVars
<1>7. before' = before /\ before'[p] \in 0 .. Len(made)
  BY <1>1 DEF MInv, BeforeOK
<1> QED BY <1>1, <1>2, <1>3, <1>5, <1>6, <1>7, QuietKeeps

\* The initialiser builds the source nobody has used yet: no value changes.
LEMMA OnceInitKeeps ==
  ASSUME MInv, NEW p \in Threads, OnceInit(p)
  PROVE  MInv' /\ UNCHANGED sourceVars
<1>1. /\ Goto(p, "now") /\ pc[p] = "init" /\ once' = "ready"
      /\ UNCHANGED <<log, result, lockVars, arg, out, clock, kind, serial, before, made>>
  BY DEF OnceInit
<1>2. once = "running"
  BY <1>1 DEF MInv, OnceInv
<1>3. UNCHANGED sourceVars
  BY <1>2 DEF MInv, OnceInv, OnceInit, sourceVars
<1>4. LockInv(MakeLabels)'
  BY <1>1, <1>3, QuietStep DEF MInv, LockInv, ThreadsOK, HolderInSection, PoisonedIsFree,
                         sourceVars, lockVars
<1>5. MakeTypes'
  BY <1>1 DEF MInv, MakeTypes, OutOK
<1>6. pc'[p] = "now" /\ \A q \in Threads \ {p} : pc'[q] = pc[q]
  BY <1>1, Moves DEF MInv
<1>7. OnceInv'
  BY <1>1, <1>6 DEF MInv, OnceInv
<1>8. ~poisoned'
  BY <1>1 DEF MInv, lockVars
<1>9. before' = before /\ before'[p] \in 0 .. Len(made)
  BY <1>1 DEF MInv, BeforeOK
<1> QED BY <1>1, <1>3, <1>4, <1>5, <1>7, <1>8, <1>9, QuietKeeps

\* A caller goes to the lock with its time and room for ten bytes.
LEMMA UseTimeKeeps ==
  ASSUME MInv, NEW p \in Threads, NEW t \in Ms, pc[p] = "now", UseTime(p, t)
  PROVE  MInv'
<1>1. /\ Goto(p, "lock") /\ arg' = [arg EXCEPT ![p] = [ms |-> t, room |-> TRUE]]
      /\ UNCHANGED <<sourceVars, lockVars, out, makeVars>>
  BY DEF UseTime
<1>2. LockInv(MakeLabels)'
  BY <1>1, ArgumentStep DEF MInv
<1>3. MakeTypes'
  BY <1>1 DEF MInv, MakeTypes, makeVars, OutOK
<1>4. OnceInv'
  BY <1>1, OnceKept DEF MInv, OnceInv, makeVars
<1>5. ~poisoned' /\ made' = made
  BY <1>1 DEF MInv, lockVars, makeVars
<1>6. before' = before /\ before'[p] \in 0 .. Len(made)
  BY <1>1 DEF MInv, BeforeOK, makeVars
<1>7. arg'[p].room = TRUE /\ \A q \in Threads \ {p} : arg'[q] = arg[q]
  BY <1>1 DEF MInv, LockInv, ThreadsOK
<1> QED BY <1>1, <1>2, <1>3, <1>4, <1>5, <1>6, <1>7, QuietKeeps

-----------------------------------------------------------------------------
(* The critical section, and the return.                                   *)

\* A read inside the section appends one entry to the log, for the caller's
\* millisecond, and delivers what the entry says.
LEMMA WorkWrites ==
  ASSUME MInv, NEW p \in Threads, DoFill(p) \/ DoBump(p)
  PROVE  \E e :
           /\ log' = Append(log, e) /\ e.ms = arg[p].ms
           /\ out'[p].pos = Len(log') /\ out'[p].res = result'
           /\ result' = "ok" => e.ok /\ out'[p].dst = e.dst
           /\ result' # "ok" => ~e.ok
           /\ \A q \in Threads \ {p} : out'[q] = out[q]
<1>1. out \in [Threads -> [res : M!Results, dst : M!Fields, pos : Nat]]
  BY DEF MInv, MakeTypes, OutOK
<1>2. CASE DoFill(p)
  <2>1. PICK bs \in Draws : M!Fill(arg[p].ms, bs)
    BY <1>2 DEF DoFill
  <2>2. M!append_to(entropy') = bs
    BY <2>1, SourceAssumption DEF M!Fill, M!append_to, M!set_bytes, M!Fields
  <2> DEFINE e == [ms |-> arg[p].ms, dst |-> bs, ok |-> TRUE, step |-> M!Step]
  <2>3. log' = Append(log, e) /\ result' = "ok"
    BY <2>1 DEF M!Fill, M!Logged
  <2>4. out' = [out EXCEPT ![p] = [res |-> result', dst |-> bs, pos |-> Len(log')]]
    BY <1>2, <2>2 DEF DoFill, Deliver
  <2>5. e.ms = arg[p].ms /\ e.dst = bs /\ e.ok
    OBVIOUS
  <2> HIDE DEF e
  <2>6. /\ out'[p] = [res |-> result', dst |-> bs, pos |-> Len(log')]
        /\ \A q \in Threads \ {p} : out'[q] = out[q]
    BY <1>1, <2>4
  <2> QED BY <2>3, <2>5, <2>6
<1>3. CASE DoBump(p)
  <2>1. PICK n \in M!Increments(inc) : M!Increment(arg[p].ms, n)
    BY <1>3 DEF DoBump
  <2> DEFINE bs == M!append_to(entropy')
             good == ~M!add_overflows(entropy, n)
             e == [ms |-> arg[p].ms, dst |-> bs, ok |-> good, step |-> M!Step]
  <2>2. log' = Append(log, e)
    BY <2>1 DEF M!Increment, M!Logged
  <2>3. (result' = "ok" => good) /\ (result' # "ok" => ~good)
    BY <2>1 DEF M!Increment
  <2>4. out' = [out EXCEPT ![p] = [res |-> result', dst |-> IF result' = "ok" THEN bs ELSE NoBytes,
                                   pos |-> Len(log')]]
    BY <1>3 DEF DoBump, Deliver
  <2>5. e.ms = arg[p].ms /\ e.dst = bs /\ (good => e.ok) /\ (~good => ~e.ok)
    OBVIOUS
  <2> HIDE DEF e, bs, good
  <2>6. /\ out'[p] = [res |-> result', dst |-> IF result' = "ok" THEN bs ELSE NoBytes,
                      pos |-> Len(log')]
        /\ \A q \in Threads \ {p} : out'[q] = out[q]
    BY <1>1, <2>4
  <2> QED BY <2>2, <2>3, <2>5, <2>6
<1> QED BY <1>2, <1>3

\* What was read stays in the log.
LEMMA ReadsStay ==
  ASSUME log \in Seq(M!Entry), NEW e, log' = Append(log, e),
         NEW pos, NEW t, NEW dst, IsRead(pos, t, dst)
  PROVE  /\ pos \in 1 .. Len(log') /\ log'[pos] = log[pos]
         /\ log'[pos].ok /\ log'[pos].ms = t /\ log'[pos].dst = dst
BY DEF IsRead

\* A step that reads inside the section keeps the invariant.
LEMMA WorkKeeps ==
  ASSUME MInv, NEW p \in Threads, DoFill(p) \/ DoBump(p), UNCHANGED makeVars
  PROVE  MInv'
<1>1. /\ Goto(p, "unlock") /\ pc[p] \in {"fill", "bump"}
      /\ UNCHANGED <<lock, poisoned, arg>> /\ Section(p)
  BY DEF DoFill, DoBump, lockVars, Section
<1>2. UNCHANGED <<clock, once, kind, serial, before, made>>
  BY DEF makeVars
<1>3. M!IInv'
  BY <1>1, SectionStep, SourceKeeps DEF MInv, M!vars, sourceVars
<1>4. LockInv(MakeLabels)'
  BY <1>1, SectionKeepsLockInv DEF MInv
<1>5. MakeTypes'
  BY <1>1, <1>2, <1>3, SectionOutOK DEF MInv, MakeTypes
<1>6. pc'[p] = "unlock" /\ \A q \in Threads \ {p} : pc'[q] = pc[q]
  BY <1>1, Moves DEF MInv
<1>7. once = "ready"
  BY <1>1 DEF MInv, OnceInv
<1>8. OnceInv'
  BY <1>2, <1>6, <1>7 DEF MInv, OnceInv
<1>9. RoomGiven' /\ BeforeOK'
  BY <1>1, <1>2, <1>6 DEF MInv, RoomGiven, BeforeOK
<1>10. PICK e : /\ log' = Append(log, e) /\ e.ms = arg[p].ms
                /\ out'[p].pos = Len(log') /\ out'[p].res = result'
                /\ result' = "ok" => e.ok /\ out'[p].dst = e.dst
                /\ result' # "ok" => ~e.ok
                /\ \A q \in Threads \ {p} : out'[q] = out[q]
  BY WorkWrites
<1>11. log \in Seq(M!Entry) /\ log' \in Seq(M!Entry)
  BY <1>3 DEF MInv, M!IInv, M!TypeOK
<1>12. Len(log') = Len(log) + 1 /\ log'[Len(log')] = e
  BY <1>10, <1>11
<1>13. MadeLogged'
  BY <1>2, <1>10, <1>11, ReadsStay DEF MInv, MadeLogged, IsRead, EarlierReads
<1>14. Delivered'
  <2> SUFFICES ASSUME NEW q \in Threads, pc'[q] \in {"unlock", "return"}
               PROVE  /\ out'[q].res = "ok" => IsRead(out[q].pos, arg[q].ms, out[q].dst)'
                      /\ out'[q].res # "ok" => OwnOverflow(q)'
                      /\ EarlierReads(before[q], out[q].pos)'
    BY DEF Delivered
  <2>1. CASE q = p
    <3>1. out'[p].res = "ok" => IsRead(out[p].pos, arg[p].ms, out[p].dst)'
      BY <1>1, <1>10, <1>11, <1>12 DEF IsRead
    <3>2. \A k \in 1 .. before[p] : made[k].pos \in 1 .. Len(log)
      BY DEF MInv, BeforeOK, MadeLogged, IsRead
    <3>3. EarlierReads(before[p], out[p].pos)'
      BY <1>2, <1>10, <1>11, <1>12, <3>2 DEF EarlierReads
    <3>4. out'[p].res # "ok" => OwnOverflow(p)'
      BY <1>1, <1>10, <1>11, <1>12 DEF OwnOverflow
    <3> QED BY <2>1, <3>1, <3>3, <3>4
  <2>2. CASE q # p
    <3>1. pc[q] \in {"unlock", "return"} /\ out'[q] = out[q] /\ arg'[q] = arg[q]
      BY <1>1, <1>6, <1>10, <2>2
    <3>2. /\ out[q].res = "ok" => IsRead(out[q].pos, arg[q].ms, out[q].dst)
          /\ out[q].res # "ok" => OwnOverflow(q)
          /\ EarlierReads(before[q], out[q].pos)
      BY <3>1 DEF MInv, Delivered
    <3>3. out'[q].res = "ok" => IsRead(out[q].pos, arg[q].ms, out[q].dst)'
      BY <1>10, <1>11, <3>1, <3>2, ReadsStay DEF IsRead
    <3>4. out'[q].res # "ok" => OwnOverflow(q)'
      BY <1>10, <1>11, <3>1, <3>2 DEF OwnOverflow
    <3> QED BY <1>2, <3>1, <3>2, <3>3, <3>4 DEF EarlierReads
  <2> QED BY <2>1, <2>2
<1>15. ~poisoned'
  BY <1>1 DEF MInv
<1> QED BY <1>3, <1>4, <1>5, <1>8, <1>9, <1>13, <1>14, <1>15 DEF MInv

\* With room for ten bytes and a source that neither fails nor panics, a thread
\* inside Locked::monotonic_read does one of five things.
LEMMA SectionWorks ==
  ASSUME MInv, NEW p \in Threads, Section(p)
  PROVE  Acquire(p) \/ Branch(p) \/ DoFill(p) \/ DoBump(p) \/ Unlock(p)
<1>1. ~LockPanic(p)
  BY DEF MInv, LockPanic, IsPoisoned
<1>2. ~TooShort(p)
  BY DEF MInv, RoomGiven, TooShort
<1>3. ~ReadFails(p) /\ ~ReadPanics(p)
  BY MakeAssumption DEF ReadFails, ReadPanics
<1> QED BY <1>1, <1>2, <1>3 DEF Section

\* Every step inside Locked::monotonic_read keeps the invariant.
LEMMA SectionKeeps ==
  ASSUME MInv, NEW p \in Threads, LockedStep(p)
  PROVE  MInv'
<1>1. CASE DoFill(p) \/ DoBump(p)
  BY <1>1, WorkKeeps DEF LockedStep
<1>2. CASE Acquire(p) \/ Branch(p) \/ Unlock(p)
  <2>1. PICK label \in InSection \cup {"return"} :
          /\ Goto(p, label) /\ pc[p] \in InSection \cup {"lock"}
          /\ label \in {"unlock", "return"} => pc[p] = "unlock"
    BY <1>2 DEF Acquire, Branch, Unlock
  <2>2. UNCHANGED <<sourceVars, arg, out, calls, poisoned>>
    BY <1>2 DEF Acquire, Branch, Unlock, lockVars
  <2>3. UNCHANGED <<clock, once, kind, serial, before, made>>
    BY DEF LockedStep, makeVars
  <2>4. LockInv(MakeLabels)'
    BY SectionKeepsLockInv DEF MInv, LockedStep
  <2>5. MakeTypes'
    BY <2>2, <2>3 DEF MInv, MakeTypes, OutOK
  <2>6. OnceInv'
    BY <2>1, <2>2, <2>3, OnceKept DEF MInv, OnceInv
  <2>7. ~poisoned' /\ arg[p].room = TRUE
    BY <2>1, <2>2 DEF MInv, RoomGiven
  <2>8. before'[p] \in 0 .. Len(made)
    BY <2>3 DEF MInv, BeforeOK
  <2> QED BY <2>1, <2>2, <2>3, <2>4, <2>5, <2>6, <2>7, <2>8, QuietKeeps
<1> QED BY <1>1, <1>2, SectionWorks DEF LockedStep

\* The ULID returned is the read the call made.
LEMMA MakeReturnKeeps ==
  ASSUME MInv, NEW p \in Threads, MakeReturn(p)
  PROVE  MInv'
<1> DEFINE u == [ms |-> arg[p].ms, dst |-> out[p].dst, pos |-> out[p].pos, after |-> before[p]]
<1>1. /\ pc[p] = "return" /\ Goto(p, "idle") /\ out[p].res = "ok" /\ made' = Append(made, u)
      /\ UNCHANGED <<sourceVars, lockVars, arg, out, clock, once, kind, serial, before>>
  BY DEF MakeReturn
<1>2. log' = log /\ poisoned' = poisoned
  BY <1>1 DEF sourceVars, lockVars
<1>3. IsRead(out[p].pos, arg[p].ms, out[p].dst) /\ EarlierReads(before[p], out[p].pos)
  BY <1>1 DEF MInv, Delivered
<1>4. before[p] \in 0 .. Len(made)
  BY DEF MInv, BeforeOK
<1>5. log \in Seq(M!Entry) /\ made \in Seq([ms : Ms, dst : M!Fields, pos : Nat, after : Nat])
  BY DEF MInv, MakeTypes, M!IInv, M!TypeOK
<1>6. u \in [ms : Ms, dst : M!Fields, pos : Nat, after : Nat]
  <2>1. log[out[p].pos] \in M!Entry
    BY <1>3, <1>5 DEF IsRead
  <2> QED BY <1>3, <1>4, <2>1 DEF IsRead, M!Entry
<1>7. u.ms = arg[p].ms /\ u.dst = out[p].dst /\ u.pos = out[p].pos /\ u.after = before[p]
  OBVIOUS
<1> HIDE DEF u
<1>8. /\ made' \in Seq([ms : Ms, dst : M!Fields, pos : Nat, after : Nat])
      /\ Len(made') = Len(made) + 1 /\ made'[Len(made) + 1] = u
      /\ \A i \in 1 .. Len(made) : made'[i] = made[i]
  BY <1>1, <1>5, <1>6
<1>9. M!IInv'
  BY <1>1, SourceKeeps DEF MInv, M!vars, sourceVars
<1>10. LockInv(MakeLabels)'
  BY <1>1, QuietStep DEF MInv, LockInv, ThreadsOK, HolderInSection, PoisonedIsFree,
                         sourceVars, lockVars
<1>11. MakeTypes'
  BY <1>1, <1>8 DEF MInv, MakeTypes, OutOK
<1>12. pc'[p] = "idle" /\ \A q \in Threads \ {p} : pc'[q] = pc[q]
  BY <1>1, Moves DEF MInv
<1>13. OnceInv'
  BY <1>1, OnceKept
<1>14. RoomGiven'
  BY <1>1, <1>12 DEF MInv, RoomGiven
<1>15. BeforeOK'
  <2>1. Len(made) \in Nat /\ \A q \in Threads : before[q] \in 0 .. Len(made)
    BY <1>5 DEF MInv, BeforeOK
  <2> QED BY <1>1, <1>8, <2>1 DEF BeforeOK
<1>16. \A n \in 0 .. Len(made) : \A pos : EarlierReads(n, pos) =>
         \A k \in 1 .. n : made'[k].pos < pos
  <2>1. \A n \in 0 .. Len(made) : \A k \in 1 .. n : made'[k] = made[k]
    BY <1>5, <1>8
  <2> QED BY <2>1 DEF EarlierReads
<1>17. Delivered'
  <2> SUFFICES ASSUME NEW q \in Threads, pc'[q] \in {"unlock", "return"}
               PROVE  /\ out'[q].res = "ok" => IsRead(out[q].pos, arg[q].ms, out[q].dst)'
                      /\ out'[q].res # "ok" => OwnOverflow(q)'
                      /\ EarlierReads(before[q], out[q].pos)'
    BY DEF Delivered
  <2>1. pc[q] \in {"unlock", "return"}
    BY <1>12
  <2>2. before[q] \in 0 .. Len(made)
    BY DEF MInv, BeforeOK
  <2> QED BY <1>1, <1>2, <1>16, <2>1, <2>2 DEF MInv, Delivered, IsRead, OwnOverflow, EarlierReads
<1>18. MadeLogged'
  <2> SUFFICES ASSUME NEW i \in 1 .. Len(made')
               PROVE  /\ IsRead(made[i].pos, made[i].ms, made[i].dst)'
                      /\ made'[i].after \in 0 .. i - 1
                      /\ EarlierReads(made[i].after, made[i].pos)'
    BY DEF MadeLogged
  <2>1. CASE i = Len(made) + 1
    <3>1. /\ IsRead(made[i].pos, made[i].ms, made[i].dst)'
          /\ made'[i].after = before[p]
      BY <1>2, <1>3, <1>7, <1>8, <2>1 DEF IsRead
    <3>2. EarlierReads(made[i].after, made[i].pos)'
      BY <1>3, <1>4, <1>7, <1>8, <1>16, <2>1 DEF EarlierReads
    <3> QED BY <1>4, <1>5, <2>1, <3>1, <3>2
  <2>2. CASE i \in 1 .. Len(made)
    <3>1. /\ IsRead(made[i].pos, made[i].ms, made[i].dst)
          /\ made[i].after \in 0 .. i - 1
          /\ EarlierReads(made[i].after, made[i].pos)
      BY <2>2 DEF MInv, MadeLogged
    <3>2. made[i].after \in 0 .. Len(made)
      BY <1>5, <2>2, <3>1
    <3> QED BY <1>2, <1>8, <1>16, <2>2, <3>1, <3>2 DEF IsRead, EarlierReads
  <2> QED BY <1>5, <1>8, <2>1, <2>2
<1>19. ~poisoned'
  BY <1>2 DEF MInv
<1> QED BY <1>9, <1>10, <1>11, <1>13, <1>14, <1>15, <1>17, <1>18, <1>19 DEF MInv

\* A step of a thread that has entered keeps the invariant.
LEMMA MakeStepKeeps ==
  ASSUME MInv, NEW p \in Threads, MakeStep(p)
  PROVE  MInv'
<1>1. CASE OnceGet(p) \/ DirectReturn(p)
  BY <1>1, WalkKeeps DEF OnceGet, DirectReturn, Return
<1>2. CASE BigTimePanic(p) \/ MakePanic(p)
  <2>1. /\ pc[p] \notin InSection /\ Unwind(p)
        /\ UNCHANGED <<sourceVars, arg, out, calls, makeVars>>
    BY <1>2 DEF BigTimePanic, MakePanic
  <2>2. Goto(p, "panicked") /\ UNCHANGED lockVars
    BY <2>1, UnwindOutside DEF MInv
  <2> QED BY <2>1, <2>2, WalkKeeps
<1>3. CASE ReadClock(p)
  <2>1. clock \in Ms
    BY MakeAssumption DEF MInv, MakeTypes
  <2> QED BY <1>3, <2>1, UseTimeKeeps DEF ReadClock
<1>4. CASE BringTime(p)
  BY <1>4, UseTimeKeeps, MakeAssumption DEF BringTime
<1> QED BY <1>1, <1>2, <1>3, <1>4, OnceBeginKeeps, OnceInitKeeps, SectionKeeps, MakeReturnKeeps
        DEF MakeStep

\* Every step keeps the invariant.
LEMMA NextMInv == MInv /\ [MakeNext]_allVars => MInv'
<1> SUFFICES ASSUME MInv, [MakeNext]_allVars PROVE MInv'
  OBVIOUS
<1>1. CASE UNCHANGED allVars
  <2>1. UNCHANGED <<sourceVars, lock, poisoned, pc, arg, out, clock, once, kind, serial, before, made>>
    BY <1>1 DEF allVars, lockedVars, lockVars, threadVars, makeVars
  <2>2. M!IInv'
    BY <2>1, SourceKeeps DEF MInv, M!vars, sourceVars
  <2>3. LockInv(MakeLabels)' /\ ~poisoned'
    BY <2>1 DEF MInv, sourceVars, LockInv, ThreadsOK, HolderInSection, BranchStillRight,
                ArgumentsGiven, PoisonedIsFree, M!Continues
  <2>4. MakeTypes'
    BY <2>1 DEF MInv, MakeTypes, OutOK
  <2>5. OnceInv' /\ RoomGiven'
    BY <2>1 DEF MInv, sourceVars, OnceInv, RoomGiven
  <2>6. Delivered' /\ MadeLogged' /\ BeforeOK'
    BY <2>1 DEF MInv, sourceVars, Delivered, MadeLogged, BeforeOK, IsRead, OwnOverflow,
                EarlierReads
  <2> QED BY <2>2, <2>3, <2>4, <2>5, <2>6 DEF MInv
<1> QED BY <1>1, TickKeeps, EnterKeeps, MakeStepKeeps DEF MakeNext

\* The invariant holds however callers interleave and the clock moves.
THEOREM MakeInvariance == MakeSpec => []MInv
BY MakeInitInv, NextMInv, PTL DEF MakeSpec

\* A step that makes p panic is one of the two panics of p's own make().
LEMMA PanicStep ==
  ASSUME MInv, MakeNext, NEW p \in Threads, pc[p] # "panicked", pc'[p] = "panicked"
  PROVE  BigTimePanic(p) \/ MakePanic(p)
<1>1. pc' # pc
  OBVIOUS
<1>2. ASSUME NEW q \in Threads, NEW label, Goto(q, label) PROVE q = p /\ label = "panicked"
  BY <1>2, Moves DEF MInv
<1>3. ~Tick
  BY <1>1 DEF Tick, lockedVars, threadVars
<1>4. ASSUME NEW q \in Threads, NEW k PROVE ~Enter(q, k)
  BY <1>2 DEF Enter
<1>5. ASSUME NEW q \in Threads PROVE ~LockedStep(q)
  BY <1>2, SectionWorks DEF LockedStep, Acquire, Branch, DoFill, DoBump, Unlock
<1>6. ASSUME NEW q \in Threads, MakeStep(q) PROVE BigTimePanic(q) \/ MakePanic(q)
  BY <1>2, <1>5, <1>6 DEF MakeStep, OnceBegin, OnceInit, OnceGet, ReadClock, BringTime, UseTime,
                          MakeReturn, DirectReturn, Return
<1>7. ASSUME NEW q \in Threads, BigTimePanic(q) \/ MakePanic(q) PROVE q = p
  BY <1>2, <1>7 DEF BigTimePanic, MakePanic, Unwind
<1> QED BY <1>3, <1>4, <1>6, <1>7 DEF MakeNext

\* A thread panics only because its own make() read a clock past MaxTime or its
\* own read overflowed; no panic of one caller reaches another one through the
\* lock, whatever the threads, the clock and the bytes of MathRng.
THEOREM PanicsStayOwn == MakeSpec => PanicsAreOwn
<1>1. MInv /\ [MakeNext]_allVars =>
        [\A p \in Threads :
           pc[p] # "panicked" /\ pc'[p] = "panicked" =>
             /\ kind[p] = "make"
             /\ (pc[p] = "now" /\ clock > MaxTime) \/ (pc[p] = "return" /\ OwnOverflow(p))]_allVars
  <2> SUFFICES ASSUME MInv, MakeNext, NEW p \in Threads,
                      pc[p] # "panicked", pc'[p] = "panicked"
               PROVE  /\ kind[p] = "make"
                      /\ \/ pc[p] = "now" /\ clock > MaxTime
                         \/ pc[p] = "return" /\ OwnOverflow(p)
    OBVIOUS
  <2>1. CASE BigTimePanic(p)
    BY <2>1 DEF BigTimePanic
  <2>2. CASE MakePanic(p)
    BY <2>2 DEF MakePanic, MInv, Delivered
  <2> QED BY <2>1, <2>2, PanicStep
<1> QED BY <1>1, MakeInvariance, PTL DEF MakeSpec, PanicsAreOwn

\* The default source, the OnceLock, the clock and the ULIDs keep their types.
THEOREM MakeTypeCorrect == MakeSpec => []MakeTypeOK
<1>1. MInv => MakeTypeOK
  BY DEF MInv, MakeTypeOK, MakeTypes, M!IInv, LockInv, ThreadsOK, OnceInv
<1> QED BY <1>1, MakeInvariance, PTL

\* Among any concurrent callers, a ULID made after another one was returned is
\* larger, while the source was read for one millisecond from the one to the other.
THEOREM MakeRunsIncrease == MakeSpec => []MakeIncreasesInRun
<1>1. MInv => MakeIncreasesInRun
  <2> SUFFICES ASSUME MInv, NEW i \in 1 .. Len(made), NEW j \in 1 .. Len(made),
                      Follows(i, j), M!SameRun(made[i].pos, made[j].pos)
               PROVE  made[i].pos < made[j].pos /\ UlidLess(made[i], made[j])
    BY DEF MakeIncreasesInRun
  <2>1. /\ IsRead(made[i].pos, made[i].ms, made[i].dst)
        /\ IsRead(made[j].pos, made[j].ms, made[j].dst)
        /\ made[j].after \in 0 .. j - 1 /\ EarlierReads(made[j].after, made[j].pos)
    BY DEF MInv, MadeLogged
  <2>2. i \in 1 .. made[j].after
    BY <2>1 DEF Follows
  <2>3. made[i].pos < made[j].pos
    BY <2>1, <2>2 DEF EarlierReads
  <2>4. M!LexLess(log[made[i].pos].dst, log[made[j].pos].dst)
    BY <2>1, <2>3 DEF MInv, M!IInv, M!SameMsIncreases, IsRead
  <2>5. log[made[j].pos].ms = log[made[i].pos].ms
    BY <2>1, <2>3 DEF M!SameRun, IsRead
  <2> QED BY <2>1, <2>3, <2>4, <2>5 DEF UlidLess, IsRead
<1> QED BY <1>1, MakeInvariance, PTL

\* The OnceLock and the Mutex together make the default source a MonotonicEntropy
\* that exists from the start and whose calls are atomic.
THEOREM MakeSharesSource == MakeSpec => ImplementsMonotonicEntropy
<1>1. MakeInit => M!Init
  BY DEF MakeInit, Init
<1>2. MInv /\ [MakeNext]_allVars => [M!Next]_(M!vars)
  <2> SUFFICES ASSUME MInv, [MakeNext]_allVars PROVE M!Next \/ UNCHANGED sourceVars
    BY DEF M!vars, sourceVars
  <2>1. CASE UNCHANGED allVars
    BY <2>1 DEF allVars, lockedVars
  <2>2. CASE Tick
    BY <2>2 DEF Tick, lockedVars
  <2>3. ASSUME NEW p \in Threads, NEW k, Enter(p, k) PROVE UNCHANGED sourceVars
    BY <2>3 DEF Enter
  <2>4. ASSUME NEW p \in Threads, LockedStep(p) PROVE M!Next \/ UNCHANGED sourceVars
    BY <2>4, SectionStep DEF MInv, LockedStep
  <2>5. ASSUME NEW p \in Threads, MakeStep(p), ~OnceInit(p), ~LockedStep(p)
        PROVE  UNCHANGED sourceVars
    BY <2>5 DEF MakeStep, OnceBegin, OnceGet, ReadClock, BringTime, UseTime, BigTimePanic,
                MakeReturn, MakePanic, DirectReturn, Return
  <2> QED BY <2>1, <2>2, <2>3, <2>4, <2>5, OnceInitKeeps DEF MakeNext
<1> QED BY <1>1, <1>2, MakeInvariance, PTL
        DEF MakeSpec, ImplementsMonotonicEntropy, M!Spec

-----------------------------------------------------------------------------
(* Calls of make() one after the other.                                    *)

\* The bytes of two reads are ordered like numbers: transitively, above zero.
LEMMA LexOrder ==
  /\ \A a, b, c \in M!Fields : M!LexLess(a, b) /\ M!LexLess(b, c) => M!LexLess(a, c)
  /\ \A a, b \in M!Fields : M!LexLess(a, b) => b # M!ZeroFields
<1>1. \A a \in M!Fields : a[1] \in Nat /\ a[2] \in Nat
  BY SourceAssumption DEF M!Fields
<1>2. ASSUME NEW a \in M!Fields, NEW b \in M!Fields, NEW c \in M!Fields,
             M!LexLess(a, b), M!LexLess(b, c)
      PROVE  M!LexLess(a, c)
  BY <1>1, <1>2 DEF M!LexLess
<1>3. ASSUME NEW a \in M!Fields, NEW b \in M!Fields, M!LexLess(a, b)
      PROVE  b # M!ZeroFields
  BY <1>1, <1>3 DEF M!LexLess, M!ZeroFields
<1> QED BY <1>2, <1>3

\* The numbers the proofs compare.
LEMMA Times ==
  ASSUME MInv
  PROVE  /\ clock \in Nat /\ ms \in Nat
         /\ \A p \in Threads : arg[p].ms \in Nat
         /\ \A i \in 1 .. Len(made) : made[i].ms \in Nat /\ made[i].dst \in M!Fields
         /\ log \in Seq(M!Entry)
         /\ made \in Seq([ms : Ms, dst : M!Fields, pos : Nat, after : Nat])
<1>1. clock \in Nat /\ made \in Seq([ms : Ms, dst : M!Fields, pos : Nat, after : Nat])
  BY MakeAssumption DEF MInv, MakeTypes
<1>2. ms \in Nat /\ log \in Seq(M!Entry)
  BY DEF MInv, M!IInv, M!TypeOK
<1>3. \A p \in Threads : arg[p].ms \in Nat
  <2>1. Ms \cup {0} \subseteq Nat
    BY SourceAssumption
  <2>2. \A p \in Threads : arg[p] \in [ms : Ms \cup {0}, room : BOOLEAN]
    BY DEF MInv, LockInv, ThreadsOK
  <2> QED BY <2>1, <2>2
<1>4. \A i \in 1 .. Len(made) : made[i].ms \in Nat /\ made[i].dst \in M!Fields
  <2> DEFINE Made == [ms : Ms, dst : M!Fields, pos : Nat, after : Nat]
  <2>1. made \in Seq(Made)
    BY <1>1
  <2> HIDE DEF Made
  <2>2. \A i \in 1 .. Len(made) : made[i] \in Made
    BY <2>1
  <2> USE DEF Made
  <2>3. Ms \subseteq Nat
    BY SourceAssumption
  <2> QED BY <2>2, <2>3
<1> QED BY <1>1, <1>2, <1>3, <1>4

\* The last ULID returned is the last read, when nobody is on the way back.
LEMMA LastMade ==
  ASSUME MInv, Settled, log # <<>>, \A p \in Threads : pc[p] \notin {"unlock", "return"}
  PROVE  /\ Len(made) \in 1 .. Len(made) /\ Len(log) \in 1 .. Len(log)
         /\ made[Len(made)].ms = ms /\ made[Len(made)].dst = M!append_to(entropy)
         /\ log[Len(log)].ok /\ log[Len(log)].ms = ms
         /\ log[Len(log)].dst = M!append_to(entropy)
<1>1. made # <<>> /\ made[Len(made)].pos = Len(log)
  BY DEF Settled
<1>2. Len(made) \in 1 .. Len(made) /\ Len(log) \in 1 .. Len(log)
  BY <1>1, Times
<1>3. IsRead(Len(log), made[Len(made)].ms, made[Len(made)].dst)
  BY <1>1, <1>2 DEF MInv, MadeLogged
<1>4. ms = log[Len(log)].ms /\ M!append_to(entropy) = log[Len(log)].dst
  BY DEF MInv, M!IInv, M!LogTracksState
<1> QED BY <1>2, <1>3, <1>4 DEF IsRead

\* A ULID larger than the last one returned is larger than all of them.
LEMMA AboveLast ==
  ASSUME MInv, MadeIncreases, Len(made) \in 1 .. Len(made),
         NEW t \in Nat, NEW bs \in M!Fields,
         UlidLess(made[Len(made)], [ms |-> t, dst |-> bs])
  PROVE  \A i \in 1 .. Len(made) : UlidLess(made[i], [ms |-> t, dst |-> bs])
<1> TAKE i \in 1 .. Len(made)
<1> DEFINE a == made[i]  b == made[Len(made)]
<1>1. a.ms \in Nat /\ b.ms \in Nat /\ a.dst \in M!Fields /\ b.dst \in M!Fields
  BY Times
<1>2. CASE i = Len(made)
  BY <1>2
<1>3. CASE i < Len(made)
  <2>1. UlidLess(a, b)
    BY <1>3 DEF MadeIncreases
  <2>2. \/ a.ms < b.ms
        \/ a.ms = b.ms /\ M!LexLess(a.dst, b.dst)
    BY <2>1 DEF UlidLess
  <2>3. \/ b.ms < t
        \/ b.ms = t /\ M!LexLess(b.dst, bs)
    BY DEF UlidLess
  <2>4. a.ms < t \/ (a.ms = t /\ M!LexLess(a.dst, bs))
    <3>1. M!LexLess(a.dst, b.dst) /\ M!LexLess(b.dst, bs) => M!LexLess(a.dst, bs)
      BY <1>1, LexOrder
    <3> HIDE DEF a, b
    <3> QED BY <1>1, <2>2, <2>3, <3>1
  <2> QED BY <2>4 DEF UlidLess
<1> QED BY <1>2, <1>3, Times

\* A thread that moves outside the section, and is the only one in a call.
LEMMA SerialWalk ==
  ASSUME MInv, SerialInv, NEW p \in Threads, NEW label, Goto(p, label),
         pc[p] # "idle",
         UNCHANGED <<sourceVars, arg, out, clock, kind, made>>,
         label \notin {"lock", "return", "unlock"},
         label \in InSection => pc[p] \in {"lock", "read", "bump", "fill"},
         pc[p] \notin {"unlock", "return"}
  PROVE  SerialInv'
<1>1. pc'[p] = label /\ \A q \in Threads \ {p} : pc'[q] = pc[q]
  BY Moves DEF MInv
<1>2. UNCHANGED <<ms, log, arg, out, clock, kind, made>>
  BY DEF sourceVars
<1>3. Alone'
  BY <1>1, <1>2 DEF SerialInv, Alone
<1>4. InTime'
  BY <1>1, <1>2 DEF SerialInv, InTime
<1>5. Settled'
  BY <1>1, <1>2 DEF SerialInv, Settled
<1>6. Pending'
  BY <1>1, <1>2 DEF SerialInv, Pending, UlidLess
<1>7. MadeIncreases'
  BY <1>2 DEF SerialInv, MadeIncreases, UlidLess
<1> QED BY <1>3, <1>4, <1>5, <1>6, <1>7 DEF SerialInv

\* The clock goes forward.
LEMMA SerialTick ==
  ASSUME MInv, SerialInv, Tick, serial'
  PROVE  SerialInv'
<1>1. clock' > clock /\ clock' \in Nat
  <2>1. clock' > clock
    BY DEF Tick
  <2>2. clock' \in 0 .. MaxMs
    BY DEF Tick
  <2> QED BY <2>1, <2>2, MakeAssumption
<1>2. UNCHANGED <<ms, log, pc, arg, out, kind, made>>
  BY DEF Tick, lockedVars, sourceVars, threadVars
<1>3. InTime'
  <2>1. \A t \in Nat : t <= clock => t <= clock'
    BY <1>1, Times
  <2>2. ms \in Nat /\ \A p \in Threads : arg[p].ms \in Nat
    BY Times
  <2> QED BY <1>2, <2>1, <2>2 DEF SerialInv, InTime
<1>4. Alone' /\ Settled'
  BY <1>2 DEF SerialInv, Alone, Settled
<1>5. Pending' /\ MadeIncreases'
  BY <1>2 DEF SerialInv, Pending, MadeIncreases, UlidLess
<1> QED BY <1>3, <1>4, <1>5 DEF SerialInv

\* A call of make() begins while no other is under way.
LEMMA SerialEnter ==
  ASSUME MInv, SerialInv, NEW p \in Threads, NEW k, Enter(p, k), serial'
  PROVE  SerialInv'
<1>1. /\ Goto(p, "once") /\ k = "make" /\ \A q \in Threads : pc[q] = "idle"
      /\ kind' = [kind EXCEPT ![p] = k]
  BY DEF Enter
<1>2. UNCHANGED <<ms, log, arg, out, clock, made>>
  BY DEF Enter, sourceVars
<1>3. pc'[p] = "once" /\ \A q \in Threads \ {p} : pc'[q] = "idle"
  BY <1>1, Moves DEF MInv
<1>4. kind'[p] = "make"
  BY <1>1 DEF MInv, MakeTypes
<1>5. Alone'
  BY <1>3, <1>4 DEF Alone
<1>6. InTime'
  BY <1>2, <1>3 DEF SerialInv, InTime
<1>7. Settled'
  BY <1>1, <1>2 DEF SerialInv, Settled
<1>8. Pending'
  BY <1>3 DEF Pending
<1>9. MadeIncreases'
  BY <1>2 DEF SerialInv, MadeIncreases, UlidLess
<1> QED BY <1>5, <1>6, <1>7, <1>8, <1>9 DEF SerialInv

\* make() has read the clock; the source is not ahead of it.
LEMMA SerialClock ==
  ASSUME MInv, SerialInv, NEW p \in Threads, ReadClock(p)
  PROVE  SerialInv'
<1>1. /\ Goto(p, "lock") /\ pc[p] = "now" /\ arg' = [arg EXCEPT ![p] = [ms |-> clock, room |-> TRUE]]
  BY DEF ReadClock, UseTime
<1>2. UNCHANGED <<ms, log, out, clock, kind, made>>
  BY DEF ReadClock, UseTime, sourceVars, makeVars
<1>3. pc'[p] = "lock" /\ \A q \in Threads \ {p} : pc'[q] = pc[q] /\ pc[q] = "idle"
  BY <1>1, Moves DEF MInv, SerialInv, Alone
<1>4. arg'[p].ms = clock
  BY <1>1 DEF MInv, LockInv, ThreadsOK
<1>5. Alone'
  BY <1>1, <1>2, <1>3 DEF SerialInv, Alone
<1>6. InTime'
  BY <1>2, <1>3, <1>4, Times DEF SerialInv, InTime
<1>7. Settled'
  BY <1>1, <1>2, <1>3 DEF SerialInv, Settled
<1>8. Pending'
  BY <1>3 DEF Pending
<1>9. MadeIncreases'
  BY <1>2 DEF SerialInv, MadeIncreases, UlidLess
<1> QED BY <1>5, <1>6, <1>7, <1>8, <1>9 DEF SerialInv

\* The guard is dropped; the ULID is on its way back.
LEMMA SerialUnlock ==
  ASSUME MInv, SerialInv, NEW p \in Threads, Unlock(p), UNCHANGED makeVars
  PROVE  SerialInv'
<1>1. Goto(p, "return") /\ pc[p] = "unlock"
  BY DEF Unlock
<1>2. UNCHANGED <<ms, log, arg, out, clock, kind, made>>
  BY DEF Unlock, sourceVars, makeVars
<1>3. pc'[p] = "return" /\ \A q \in Threads \ {p} : pc'[q] = pc[q]
  BY <1>1, Moves DEF MInv
<1>4. Alone'
  BY <1>1, <1>2, <1>3 DEF SerialInv, Alone
<1>5. InTime'
  BY <1>1, <1>2, <1>3 DEF SerialInv, InTime
<1>6. Settled'
  BY <1>3 DEF Settled
<1>7. Pending'
  BY <1>1, <1>2, <1>3 DEF SerialInv, Pending, UlidLess
<1>8. MadeIncreases'
  BY <1>2 DEF SerialInv, MadeIncreases, UlidLess
<1> QED BY <1>4, <1>5, <1>6, <1>7, <1>8 DEF SerialInv

\* make() returns a ULID larger than all before it.
LEMMA SerialReturn ==
  ASSUME MInv, SerialInv, NEW p \in Threads, MakeReturn(p)
  PROVE  SerialInv'
<1> DEFINE u == [ms |-> arg[p].ms, dst |-> out[p].dst, pos |-> out[p].pos, after |-> before[p]]
<1>1. /\ Goto(p, "idle") /\ pc[p] = "return" /\ out[p].res = "ok" /\ made' = Append(made, u)
  BY DEF MakeReturn
<1>2. UNCHANGED <<ms, log, arg, out, clock, kind>>
  BY DEF MakeReturn, sourceVars
<1>3. pc'[p] = "idle" /\ \A q \in Threads \ {p} : pc'[q] = "idle"
  BY <1>1, Moves DEF MInv, SerialInv, Alone
<1>4. u.ms = arg[p].ms /\ u.dst = out[p].dst /\ u.pos = out[p].pos
  OBVIOUS
<1>5. /\ u.pos = Len(log) /\ u.dst # M!ZeroFields
      /\ \A i \in 1 .. Len(made) : UlidLess(made[i], u)
  BY <1>1, <1>4 DEF SerialInv, Pending, UlidLess
<1> HIDE DEF u
<1>6. /\ Len(made) \in Nat /\ made' # <<>>
      /\ Len(made') = Len(made) + 1 /\ made'[Len(made) + 1] = u
      /\ \A i \in 1 .. Len(made) : made'[i] = made[i]
  BY <1>1, Times
<1>7. Alone' /\ Pending'
  BY <1>3 DEF Alone, Pending
<1>8. InTime'
  BY <1>2, <1>3 DEF SerialInv, InTime
<1>9. Settled'
  BY <1>2, <1>5, <1>6 DEF Settled
<1>10. \A i \in 1 .. Len(made') : made'[i].dst # M!ZeroFields
  BY <1>5, <1>6 DEF SerialInv, MadeIncreases
<1>11. ASSUME NEW i \in 1 .. Len(made'), NEW j \in 1 .. Len(made'), i < j
       PROVE  UlidLess(made'[i], made'[j])
  <2>1. i \in 1 .. Len(made) /\ (j \in 1 .. Len(made) \/ j = Len(made) + 1)
    BY <1>6, <1>11
  <2>2. CASE j \in 1 .. Len(made)
    BY <1>6, <1>11, <2>1, <2>2 DEF SerialInv, MadeIncreases
  <2>3. CASE j = Len(made) + 1
    BY <1>5, <1>6, <2>1, <2>3
  <2> QED BY <2>1, <2>2, <2>3
<1>12. MadeIncreases'
  BY <1>10, <1>11 DEF MadeIncreases, UlidLess
<1> QED BY <1>7, <1>8, <1>9, <1>12 DEF SerialInv

\* A read of the only caller: its ULID is larger than all before it.
LEMMA SerialWork ==
  ASSUME MInv, MInv', SerialInv, NEW p \in Threads, DoFill(p) \/ DoBump(p), UNCHANGED makeVars
  PROVE  SerialInv'
<1> DEFINE t == arg[p].ms
<1>1. Goto(p, "unlock") /\ pc[p] \in {"fill", "bump"} /\ arg' = arg
  BY DEF DoFill, DoBump
<1>2. UNCHANGED <<clock, kind, made>>
  BY DEF makeVars
<1>3. pc'[p] = "unlock" /\ \A q \in Threads \ {p} : pc'[q] = "idle" /\ pc[q] = "idle"
  BY <1>1, Moves DEF MInv, SerialInv, Alone
<1>4. PICK e : /\ log' = Append(log, e) /\ e.ms = t
               /\ out'[p].pos = Len(log') /\ out'[p].res = result'
               /\ result' = "ok" => e.ok /\ out'[p].dst = e.dst
               /\ result' # "ok" => ~e.ok
               /\ \A q \in Threads \ {p} : out'[q] = out[q]
  BY WorkWrites
<1>5. /\ Len(log) \in Nat /\ Len(log') = Len(log) + 1 /\ log' # <<>> /\ log'[Len(log')] = e
      /\ \A k \in 1 .. Len(log) : log'[k] = log[k]
      /\ e.dst \in M!Fields
  <2>1. log \in Seq(M!Entry) /\ log' \in Seq(M!Entry)
    BY DEF MInv, M!IInv, M!TypeOK
  <2>2. Len(log') = Len(log) + 1 /\ log'[Len(log')] = e
    BY <1>4, <2>1
  <2>3. e \in M!Entry
    BY <2>1, <2>2
  <2> QED BY <1>4, <2>1, <2>2, <2>3 DEF M!Entry
<1>6. t \in Nat /\ ms \in Nat /\ t <= clock /\ (log # <<>> => ms <= t)
  BY <1>1, Times DEF SerialInv, InTime
<1>7. Alone'
  BY <1>1, <1>2, <1>3 DEF SerialInv, Alone
<1>8. InTime'
  <2>1. ms' = t
    BY <1>4, <1>5 DEF MInv, M!IInv, M!LogTracksState
  <2> QED BY <1>1, <1>2, <1>3, <1>6, <2>1 DEF InTime
<1>9. Settled'
  BY <1>3 DEF Settled
<1>10. MadeIncreases'
  BY <1>2 DEF SerialInv, MadeIncreases, UlidLess
<1>11. log # <<>> =>
         /\ Len(made) \in 1 .. Len(made) /\ Len(log) \in 1 .. Len(log)
         /\ made[Len(made)].ms = ms /\ made[Len(made)].dst = M!append_to(entropy)
         /\ made[Len(made)].dst \in M!Fields
         /\ log[Len(log)].ok /\ log[Len(log)].ms = ms
         /\ log[Len(log)].dst = M!append_to(entropy)
         /\ M!append_to(entropy) # M!ZeroFields
  BY <1>1, <1>3, LastMade, Times DEF SerialInv, MadeIncreases
<1>12. log = <<>> => made = <<>>
  <2>1. log = <<>> => Len(log) = 0
    OBVIOUS
  <2>2. \A i \in 1 .. Len(made) : made[i].pos \in 1 .. Len(log)
    BY DEF MInv, MadeLogged, IsRead
  <2> QED BY <2>1, <2>2, Times
<1>13. ASSUME result' = "ok"
       PROVE  e.dst # M!ZeroFields /\ \A i \in 1 .. Len(made) : UlidLess(made[i], [ms |-> t, dst |-> e.dst])
  <2>1. CASE DoFill(p)
    <3>1. ~M!Continues(t)
      BY <2>1 DEF DoFill, MInv, LockInv, BranchStillRight
    <3>2. e.dst # M!ZeroFields
      <4>1. PICK bs \in Draws : M!Fill(t, bs)
        BY <2>1 DEF DoFill
      <4>2. log' = Append(log, [ms |-> t, dst |-> bs, ok |-> TRUE, step |-> M!Step])
        BY <4>1 DEF M!Fill, M!Logged
      <4>3. e.dst = bs
        BY <1>5, <4>2, Times
      <4> QED BY <4>3, MakeAssumption
    <3>3. CASE log = <<>>
      BY <1>12, <3>2, <3>3
    <3>4. CASE log # <<>>
      <4>1. ms # t
        BY <1>11, <3>1, <3>4 DEF M!Continues, M!is_zero, M!append_to, M!ZeroFields
      <4>2. ms < t
        BY <1>6, <3>4, <4>1
      <4>3. UlidLess(made[Len(made)], [ms |-> t, dst |-> e.dst])
        BY <1>11, <3>4, <4>2 DEF UlidLess
      <4> QED BY <1>5, <1>6, <1>11, <3>2, <3>4, <4>3, AboveLast DEF SerialInv
    <3> QED BY <3>3, <3>4
  <2>2. CASE DoBump(p)
    <3>1. ms = t /\ log # <<>>
      BY <2>2 DEF DoBump, MInv, LockInv, BranchStillRight, M!Continues, M!IInv, M!LogTracksState
    <3>2. PICK n \in Nat : n = Len(log)
      BY <1>5
    <3>3. n \in 1 .. Len(log') /\ n + 1 \in 1 .. Len(log') /\ n < n + 1
      BY <1>5, <1>11, <3>2, <3>1
    <3>4. log'[n] = log[n] /\ log'[n + 1] = e
      BY <1>5, <1>11, <3>2, <3>1
    <3>5. M!SameRun(n, n + 1)'
      <4>1. \A k \in n .. n + 1 : k = n \/ k = n + 1
        OBVIOUS
      <4>2. \A k \in n .. n + 1 - 1 : k = n
        OBVIOUS
      <4>3. log'[n].ok /\ log'[n].ms = t /\ log'[n].dst # M!ZeroFields
        BY <1>11, <3>2, <3>1, <3>4
      <4>4. log'[n + 1].ok /\ log'[n + 1].ms = t
        BY <1>4, <1>13, <3>4
      <4> HIDE DEF t
      <4> QED BY <4>1, <4>2, <4>3, <4>4 DEF M!SameRun, M!ZeroFields
    <3>6. M!LexLess(log'[n].dst, log'[n + 1].dst)
      BY <3>3, <3>5 DEF MInv, M!IInv, M!SameMsIncreases, M!LexLess
    <3>7. M!LexLess(made[Len(made)].dst, e.dst)
      BY <1>11, <3>2, <3>1, <3>4, <3>6
    <3>8. e.dst # M!ZeroFields
      BY <1>5, <1>11, <3>1, <3>7, LexOrder
    <3>9. UlidLess(made[Len(made)], [ms |-> t, dst |-> e.dst])
      BY <1>11, <3>1, <3>7 DEF UlidLess
    <3> QED BY <1>5, <1>6, <1>11, <3>1, <3>8, <3>9, AboveLast DEF SerialInv
  <2> QED BY <2>1, <2>2
<1>14. Pending'
  <2> SUFFICES ASSUME NEW q \in Threads, pc'[q] \in {"unlock", "return"}, out'[q].res = "ok"
               PROVE  /\ out'[q].pos = Len(log') /\ out'[q].dst # M!ZeroFields
                      /\ \A i \in 1 .. Len(made) :
                           UlidLess(made[i], [ms |-> t, dst |-> out'[q].dst])
                      /\ q = p
    BY <1>1, <1>2 DEF Pending, UlidLess, M!ZeroFields, M!LexLess
  <2>1. q = p /\ result' = "ok"
    BY <1>3, <1>4
  <2> QED BY <1>4, <1>13, <2>1
<1> QED BY <1>7, <1>8, <1>9, <1>10, <1>14 DEF SerialInv

\* Calls that came one after the other so far did so before, and a thread that
\* has panicked takes no step.
LEMMA SerialBefore ==
  ASSUME MInv, [MakeNext]_allVars, serial', NoPanic'
  PROVE  serial /\ NoPanic
<1>1. serial
  BY DEF MakeNext, MakeStep, Tick, Enter, OnceBegin, OnceInit, OnceGet, ReadClock, BringTime,
         UseTime, BigTimePanic, LockedStep, MakeReturn, MakePanic, DirectReturn, makeVars, allVars
<1>2. pc \in [Threads -> MakeLabels]
  BY DEF MInv, LockInv, ThreadsOK
<1>3. ASSUME NEW p \in Threads, pc[p] # "panicked", NEW label, Goto(p, label)
      PROVE  NoPanic
  BY <1>2, <1>3 DEF Goto, NoPanic
<1>4. CASE pc' = pc
  BY <1>1, <1>4 DEF NoPanic
<1>5. CASE UNCHANGED allVars \/ Tick
  BY <1>4, <1>5 DEF allVars, lockedVars, threadVars, Tick
<1>6. ASSUME NEW p \in Threads, NEW k, Enter(p, k) PROVE NoPanic
  BY <1>3, <1>6 DEF Enter
<1>7. ASSUME NEW p \in Threads, LockedStep(p) PROVE NoPanic
  BY <1>3, <1>7, SectionWorks DEF LockedStep, Acquire, Branch, DoFill, DoBump, Unlock
<1>8. ASSUME NEW p \in Threads, MakeStep(p), ~LockedStep(p) PROVE NoPanic
  BY <1>3, <1>8 DEF MakeStep, OnceBegin, OnceInit, OnceGet, ReadClock, BringTime,
         UseTime, BigTimePanic, MakeReturn, MakePanic, Unwind, DirectReturn, Return
<1> QED BY <1>1, <1>5, <1>6, <1>7, <1>8 DEF MakeNext

\* Every step keeps what holds for calls one after the other.
LEMMA NextSInv == MInv /\ MInv' /\ SInv /\ [MakeNext]_allVars => SInv'
<1> SUFFICES ASSUME MInv, MInv', SInv, [MakeNext]_allVars, serial', NoPanic'
             PROVE  SerialInv'
  BY DEF SInv
<1>1. SerialInv
  BY SerialBefore DEF SInv
<1>2. CASE UNCHANGED allVars
  <2>1. UNCHANGED <<ms, log, pc, arg, out, clock, kind, made>>
    BY <1>2 DEF allVars, lockedVars, sourceVars, threadVars, makeVars
  <2> QED BY <1>1, <2>1 DEF SerialInv, Alone, InTime, Settled, Pending, MadeIncreases, UlidLess
<1>3. ASSUME NEW p \in Threads, LockedStep(p) PROVE SerialInv'
  <2>1. CASE DoFill(p) \/ DoBump(p)
    BY <1>1, <1>3, <2>1, SerialWork DEF LockedStep
  <2>2. CASE Unlock(p)
    BY <1>1, <1>3, <2>2, SerialUnlock DEF LockedStep
  <2>3. CASE Acquire(p) \/ Branch(p)
    BY <1>1, <1>3, <2>3, SerialWalk DEF LockedStep, Acquire, Branch, makeVars
  <2> QED BY <1>3, <2>1, <2>2, <2>3, SectionWorks DEF LockedStep
<1>4. ASSUME NEW p \in Threads, OnceBegin(p) \/ OnceGet(p) PROVE SerialInv'
  BY <1>1, <1>4, SerialWalk DEF OnceBegin, OnceGet, makeVars
<1>5. ASSUME NEW p \in Threads, OnceInit(p) PROVE SerialInv'
  BY <1>1, <1>5, OnceInitKeeps, SerialWalk DEF OnceInit
<1>6. ASSUME NEW p \in Threads PROVE ~BigTimePanic(p) /\ ~MakePanic(p)
  <2>1. ~Goto(p, "panicked")
    BY Moves DEF MInv, NoPanic
  <2> QED BY <2>1 DEF BigTimePanic, MakePanic, Unwind
<1>7. ASSUME NEW p \in Threads PROVE ~BringTime(p) /\ ~DirectReturn(p)
  BY <1>1 DEF SerialInv, Alone, BringTime, DirectReturn, Return
<1> QED BY <1>1, <1>2, <1>3, <1>4, <1>5, <1>6, <1>7,
           SerialTick, SerialEnter, SerialClock, SerialReturn DEF MakeNext, MakeStep

\* Calls of make() one after the other return strictly increasing ULIDs as long
\* as the clock does not go back, nobody else reads the source and none panics:
\* for any number of threads and calls, any clock and any bytes of MathRng.
THEOREM SerialMakesIncrease == MakeSpec => []MakeIncreases
<1>1. MakeInit => SInv
  <2> SUFFICES ASSUME MakeInit PROVE SerialInv
    BY DEF SInv
  <2>1. log = <<>> /\ made = <<>> /\ \A p \in Threads : pc[p] = "idle"
    BY DEF MakeInit, Init, M!Init
  <2> QED BY <2>1 DEF SerialInv, Alone, InTime, Settled, Pending, MadeIncreases
<1>2. SInv => MakeIncreases
  BY DEF SInv, SerialInv, MakeIncreases, NoPanic, MadeIncreases
<1> QED BY <1>1, <1>2, NextSInv, MakeInvariance, PTL DEF MakeSpec
=============================================================================
