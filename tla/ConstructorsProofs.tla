------------------------- MODULE ConstructorsProofs -------------------------
(***************************************************************************)
(* What callers read sorts in the order in which they read it, as far as   *)
(* Forward says, for words of any size, any times, any source and any      *)
(* number of calls.                                                        *)
(*                                                                         *)
(* The proof adds the history of answers to the invariant of the source:   *)
(* MadeTracksState says that the last answer is what the source continues  *)
(* from, which the failing and the plain calls must not disturb.           *)
(*                                                                         *)
(* The second half is about INV-5 of the fuzz harness, which drives the    *)
(* constructors, for any number of rounds and any increment bound: what it *)
(* reports is never a fault of the library.  Its invariant follows the     *)
(* source from its seed: after so many rounds it is at most so many        *)
(* increments above the first read.                                        *)
(***************************************************************************)
EXTENDS Harness, MonotonicEntropyProofs

MadeSet == [ms : Ms, dst : Fields, ok : BOOLEAN]

\* The order of ULIDs is transitive.
LEMMA UlidLessTransitive ==
  ASSUME NEW a \in MadeSet, NEW b \in MadeSet, NEW c \in MadeSet,
         UlidLess(a, b), UlidLess(b, c)
  PROVE  UlidLess(a, c)
<1>1. /\ a.ms \in Nat /\ b.ms \in Nat /\ c.ms \in Nat
      /\ a.dst \in Fields /\ b.dst \in Fields /\ c.dst \in Fields
  BY CallAssumption DEF MadeSet
<1>2. LexLess(a.dst, b.dst) /\ LexLess(b.dst, c.dst) => LexLess(a.dst, c.dst)
  BY <1>1, LexLessTransitive
<1> QED BY <1>1, <1>2 DEF UlidLess

\* An answer that is larger than the last one whenever its time does not go back,
\* and neither is an overflow, keeps the whole history sorted.
LEMMA AppendKeepsSorted ==
  ASSUME made \in Seq(MadeSet), UlidsIncrease,
         NEW e \in MadeSet, made' = Append(made, e),
         /\ made # <<>> /\ made[Len(made)].ok /\ e.ok
         /\ made[Len(made)].ms <= e.ms /\ made[Len(made)].dst # ZeroFields
         => UlidLess(made[Len(made)], e)
  PROVE  UlidsIncrease'
<1> DEFINE n == Len(made)
<1>1. /\ n \in Nat /\ Len(made') = n + 1 /\ made'[n + 1] = e
      /\ \A k \in 1 .. n : made'[k] = made[k] /\ made[k] \in MadeSet
  OBVIOUS
<1>2. SUFFICES ASSUME NEW i \in 1 .. n + 1, NEW j \in 1 .. n + 1, i < j,
                      Forward(i, j)'
               PROVE  UlidLess(made'[i], made'[j])
  BY <1>1 DEF UlidsIncrease, UlidLess
<1>3. /\ \A k \in i .. j : made'[k].ok
      /\ \A k \in i .. j - 1 : made'[k].ms <= made'[k+1].ms /\ made'[k].dst # ZeroFields
  BY <1>2 DEF Forward
<1>4. CASE j <= n
  <2>1. \A k \in i .. j : made[k].ok
    BY <1>1, <1>2, <1>3, <1>4
  <2>2. \A k \in i .. j - 1 : made[k].ms <= made[k+1].ms /\ made[k].dst # ZeroFields
    <3> TAKE k \in i .. j - 1
    <3>1. k \in 1 .. n /\ k + 1 \in 1 .. n
      BY <1>1, <1>2, <1>4
    <3> QED BY <1>1, <1>3, <3>1
  <2>3. Forward(i, j)
    BY <2>1, <2>2 DEF Forward
  <2> QED BY <1>1, <1>2, <1>4, <2>3 DEF UlidsIncrease
<1>5. CASE j = n + 1
  <2>1. i \in 1 .. n /\ n \in 1 .. n /\ made # <<>> /\ n \in i .. j - 1
    BY <1>1, <1>2, <1>5
  <2>2. made[n].ok /\ e.ok /\ made[n].ms <= e.ms /\ made[n].dst # ZeroFields
    BY <1>1, <1>3, <2>1
  <2>3. UlidLess(made[n], e)
    BY <2>1, <2>2
  <2>4. CASE i = n
    BY <1>1, <1>5, <2>1, <2>3, <2>4
  <2>5. CASE i < n
    <3>1. Forward(i, n)
      BY <1>1, <1>3, <1>5, <2>1, <2>5 DEF Forward
    <3>2. UlidLess(made[i], made[n])
      BY <2>1, <2>5, <3>1 DEF UlidsIncrease
    <3>3. UlidLess(made[i], e)
      BY <1>1, <2>1, <2>3, <3>2, UlidLessTransitive
    <3> QED BY <1>1, <1>5, <2>1, <3>3
  <2> QED BY <1>1, <2>1, <2>4, <2>5
<1> QED BY <1>1, <1>4, <1>5

-----------------------------------------------------------------------------
\* A read, by new_monotonic or by the owner, is larger than the last one; one that
\* overflows ends the run.
LEMMA ReadKeeps ==
  ASSUME CInv, NEW t \in Ms, Read(t)
  PROVE  CInv'
<1>1. /\ IInv /\ made \in Seq(MadeSet) /\ MadeTracksState /\ UlidsIncrease
      /\ entropy \in Uint80Set /\ inc \in Bounds /\ ms \in Nat /\ t \in Nat
  BY CallAssumption DEF CInv, IInv, TypeOK, MadeSet
<1>2. IInv'
  BY <1>1, NextIInv DEF Read, Next, Write
<1>3. CASE result' # "ok"
  <2> DEFINE e == [ms |-> t, dst |-> ZeroFields, ok |-> FALSE]
  <2>1. made' = Append(made, e)
    BY <1>3 DEF Read
  <2>2. e \in MadeSet /\ ~e.ok
    BY BasesAssumption DEF MadeSet, ZeroFields, Fields
  <2> HIDE DEF e
  <2>3. UlidsIncrease'
    BY <1>1, <2>1, <2>2, AppendKeepsSorted
  <2>4. made' \in Seq(MadeSet) /\ Len(made') = Len(made) + 1 /\ made'[Len(made) + 1] = e
    BY <1>1, <2>1, <2>2
  <2> QED BY <1>2, <2>2, <2>3, <2>4 DEF CInv, MadeSet, MadeTracksState
<1>4. CASE result' = "ok"
  <2> DEFINE e == [ms |-> t, dst |-> append_to(entropy'), ok |-> TRUE]
  <2>1. made' = Append(made, e)
    BY <1>4 DEF Read
  <2>2. entropy' \in Uint80Set
    BY <1>2 DEF IInv, TypeOK
  <2>3. e \in MadeSet
    BY <2>2, BytesKeepNumber DEF MadeSet
  <2>4. ms' = t
    <3>1. ASSUME Refill(t) PROVE ms' = t
      BY <3>1 DEF Refill, Fill
    <3>2. ASSUME Bump(t) PROVE ms' = t
      BY <3>2 DEF Bump, Increment, Continues
    <3> QED BY <3>1, <3>2 DEF Read
  <2>5. /\ made # <<>> /\ made[Len(made)].ok
        /\ made[Len(made)].ms <= t /\ made[Len(made)].dst # ZeroFields
        => UlidLess(made[Len(made)], e)
    <3> SUFFICES ASSUME made # <<>>, made[Len(made)].ok, made[Len(made)].ms <= t,
                        made[Len(made)].dst # ZeroFields
                 PROVE  UlidLess(made[Len(made)], e)
      OBVIOUS
    <3>1. ms = made[Len(made)].ms /\ append_to(entropy) = made[Len(made)].dst
      BY <1>1 DEF MadeTracksState
    <3>2. CASE ms < t
      BY <3>1, <3>2 DEF UlidLess
    <3>3. CASE ms = t
      <4>1. Bump(t)
        BY <1>1, <3>1, <3>3, ZeroBytes DEF Read, Refill, Continues
      <4>2. PICK m \in Increments(inc) : Increment(t, m)
        BY <4>1 DEF Bump
      <4>3. entropy' = add(entropy, m) /\ ~add_overflows(entropy, m)
        BY <1>4, <4>2 DEF Increment
      <4>4. LexLess(append_to(entropy), append_to(entropy'))
        BY <1>1, <4>3, IncrementOrders
      <4> QED BY <3>1, <3>3, <4>4 DEF UlidLess
    <3> QED BY <1>1, <3>1, <3>2, <3>3
  <2> HIDE DEF e
  <2>6. UlidsIncrease'
    <3>1. e.ms = t
      BY DEF e
    <3> QED BY <1>1, <2>1, <2>3, <2>5, <3>1, AppendKeepsSorted
  <2>7. MadeTracksState' /\ made' \in Seq(MadeSet)
    <3>1. made' \in Seq(MadeSet) /\ Len(made') = Len(made) + 1 /\ made'[Len(made) + 1] = e
      BY <1>1, <2>1, <2>3
    <3> QED BY <2>4, <3>1 DEF MadeTracksState, e
  <2> QED BY <1>2, <2>6, <2>7 DEF CInv, MadeSet
<1> QED BY <1>3, <1>4

\* A call that leaves the source and the history alone keeps the invariant.
LEMMA QuietKeeps ==
  ASSUME CInv, UNCHANGED <<ms, entropy, log, made>>, IInv'
  PROVE  CInv'
BY DEF CInv, MadeTracksState, UlidsIncrease, Forward

\* The constructors keep the invariant.
LEMMA ConstructorsKeep ==
  CInv /\ [Constructed \/ Direct]_constructorVars => CInv'
<1> SUFFICES ASSUME CInv, [Constructed \/ Direct]_constructorVars PROVE CInv'
  OBVIOUS
<1>1. IInv /\ inc \in Bounds /\ result \in Results
  BY DEF CInv, IInv, TypeOK
<1>2. ASSUME NEW t \in Ms, BigTime(t) PROVE CInv'
  BY <1>1, <1>2, NoWriteKeepsIInv, QuietKeeps DEF BigTime, Results
<1>3. ASSUME NEW t \in Ms, NewMonotonic(t) PROVE CInv'
  BY <1>3, ReadKeeps DEF NewMonotonic
<1>4. ASSUME NEW t \in Ms, NewMonotonicFails(t) PROVE CInv'
  BY <1>1, <1>4, NoWriteKeepsIInv, QuietKeeps DEF NewMonotonicFails, SourceError, Results
<1>5. ASSUME NEW t \in Ms, New(t) PROVE CInv'
  BY <1>1, <1>5, NoWriteKeepsIInv, QuietKeeps DEF New, PlainRead, Results
<1>6. ASSUME NEW t \in Ms, TimeOnly(t) PROVE CInv'
  BY <1>1, <1>6, NoWriteKeepsIInv, QuietKeeps DEF TimeOnly, Results
<1>7. ASSUME NEW t \in Ms, Read(t) PROVE CInv'
  BY <1>7, ReadKeeps
<1>8. CASE NoWrite /\ UNCHANGED made
  <2>1. IInv'
    BY <1>1, <1>8, NextIInv DEF Next
  <2>2. UNCHANGED <<ms, entropy, log>>
    BY <1>8 DEF NoWrite, SourceError, ShortBuffer, PlainRead, SetInc
  <2> QED BY <1>8, <2>1, <2>2, QuietKeeps
<1>9. CASE UNCHANGED constructorVars
  BY <1>1, <1>9, NoWriteKeepsIInv, QuietKeeps DEF constructorVars
<1> QED BY <1>2, <1>3, <1>4, <1>5, <1>6, <1>7, <1>8, <1>9 DEF Constructed, Direct

\* The inductive invariant holds after any number of constructor calls and direct
\* reads: a constructor never breaks what the source promises.
THEOREM ConstructorsInvariance == ConstructorsSpec => []CInv
<1>1. ConstructorsInit => CInv
  BY InitIInv DEF ConstructorsInit, CInv, MadeTracksState, UlidsIncrease
<1> QED BY <1>1, ConstructorsKeep, PTL DEF ConstructorsSpec

\* The ULIDs of new_monotonic and the direct monotonic reads among them sort in the
\* order in which their callers got them, in every stretch of answers in which the
\* times do not go back and none overflowed or was ten zero bytes (Forward).  Plain
\* and time-only constructors, plain reads, failing calls, times that do not fit and
\* assignments to inc may come in between.  The three exceptions are real: after an
\* overflow or ten zero bytes the same millisecond gets smaller bytes.
THEOREM UlidsSort == ConstructorsSpec => []UlidsIncrease
<1>1. CInv => UlidsIncrease
  BY DEF CInv
<1> QED BY <1>1, ConstructorsInvariance, PTL

\* The specification of the runs, with its bound on the log, is a special case.
THEOREM BoundedIsSpecial == BoundedSpec => ConstructorsSpec
<1>1. [BoundedNext]_constructorVars => [Constructed \/ Direct]_constructorVars
  BY DEF BoundedNext
<1> QED BY <1>1, PTL DEF BoundedSpec, ConstructorsSpec

-----------------------------------------------------------------------------
(* The harness.                                                            *)

\* The source INV-5 reads has been read `round` times, each time for `time`.
Started ==
  /\ log # <<>> /\ log \in Seq(Entry) /\ ms = time
  /\ ~is_zero(entropy)
  /\ prev = <<[ms |-> time, dst |-> append_to(entropy)]>>
  /\ Val(entropy) <= FieldsVal(log[1].dst) + (round - 1) * Step

FollowsSource ==
  pc = "INV-5" =>
    /\ time \in Ms /\ round \in 0 .. Rounds - 1
    /\ inc \in Bounds /\ entropy \in Uint80Set
    /\ round = 0 => log = <<>> /\ is_zero(entropy) /\ prev = <<>>
    /\ round > 0 => Started

\* The inductive invariant of the harness.
HInv == FollowsSource /\ AlarmsAreOverflows /\ AlarmsNearTheTop

-----------------------------------------------------------------------------
\* The first read of a fresh source is a fresh one, and never reported.
LEMMA FirstRead ==
  ASSUME HInv, MakeOne, round = 0
  PROVE  HInv'
<1>1. /\ time \in Ms /\ time \in Nat /\ inc \in Bounds /\ log = <<>> /\ prev = <<>> /\ pc = "INV-5"
  BY CallAssumption DEF HInv, FollowsSource, MakeOne
<1>2. PICK bs \in Draws : Fill(time, bs)
  BY DEF HInv, FollowsSource, MakeOne, NewMonotonic, Read, Bump, Continues, Refill
<1> DEFINE e == [ms |-> time, dst |-> bs, ok |-> TRUE, step |-> Step]
<1>3. /\ bs \in Fields /\ bs # ZeroFields /\ result' = "ok" /\ ms' = time /\ inc' = inc
      /\ entropy' = set_bytes(bs) /\ log' = Append(log, e)
  BY <1>2, CallAssumption, HarnessAssumption DEF Fill, Logged
<1>4. /\ entropy' \in Uint80Set /\ append_to(entropy') = bs /\ FieldsVal(bs) = Val(entropy')
      /\ ~is_zero(entropy')
  BY <1>3, BytesKeepNumber, ZeroBytes
<1>5. e \in Entry
  BY <1>1, <1>3, StepIsBound DEF Entry
<1>6. e.dst = bs
  OBVIOUS
<1> HIDE DEF e
<1>7. log' \in Seq(Entry) /\ log' # <<>> /\ log'[1] = e
  BY <1>1, <1>3, <1>5
<1>8. /\ prev' = <<[ms |-> time, dst |-> append_to(entropy')]>> /\ time' = time /\ alarms' = alarms
      /\ round' = 1 /\ (pc' = "INV-5" => 1 < Rounds)
  BY <1>1, <1>3 DEF MakeOne, InOrder, MoreRounds, EndOfIteration
<1>9. Step' = Step /\ Step \in Nat
  BY <1>1, <1>3, IncrementsInRange DEF Step
<1>10. Val(entropy') <= FieldsVal(log'[1].dst) + (round' - 1) * Step'
  <2>1. (round' - 1) * Step' = 0
    BY <1>8, <1>9
  <2>2. Val(entropy') \in Nat
    BY <1>4, ValRange, BasesAssumption DEF Limit
  <2> QED BY <1>4, <1>6, <1>7, <2>1, <2>2
<1>11. Started'
  BY <1>3, <1>4, <1>7, <1>8, <1>10 DEF Started, Val, FieldsVal, Step
<1>12. FollowsSource'
  BY <1>1, <1>3, <1>4, <1>8, <1>11, HarnessAssumption DEF FollowsSource
<1> QED BY <1>8, <1>12 DEF HInv, AlarmsAreOverflows, AlarmsNearTheTop

\* Later reads count up by at most Step.  An overflow ends INV-5, and the report
\* is of a source that started within Rounds - 1 increments of the limit.
LEMMA LaterRead ==
  ASSUME HInv, MakeOne, round # 0
  PROVE  HInv'
<1>1. /\ time \in Ms /\ time \in Nat /\ inc \in Bounds /\ entropy \in Uint80Set /\ pc = "INV-5"
      /\ round \in Nat /\ round > 0 /\ round < Rounds /\ Rounds \in Nat /\ Started
  <2>1. /\ time \in Ms /\ inc \in Bounds /\ entropy \in Uint80Set /\ pc = "INV-5"
        /\ round \in 0 .. Rounds - 1 /\ (round > 0 => Started)
    BY DEF HInv, FollowsSource, MakeOne
  <2>2. round \in Nat /\ round > 0 /\ round < Rounds /\ Rounds \in Nat
    BY <2>1, HarnessAssumption
  <2>3. time \in Nat
    BY <2>1, CallAssumption
  <2> QED BY <2>1, <2>2, <2>3
<1>2. PICK n \in Increments(inc) : Increment(time, n)
  BY <1>1 DEF Started, MakeOne, NewMonotonic, Read, Bump, Continues, Refill
<1> DEFINE first == FieldsVal(log[1].dst)
           good == ~add_overflows(entropy, n)
           e == [ms |-> time, dst |-> append_to(entropy'), ok |-> good, step |-> Step]
<1>3. /\ entropy' = add(entropy, n) /\ log' = Append(log, e) /\ UNCHANGED <<ms, inc>>
      /\ result' = IF good THEN "ok" ELSE "MonotonicOverflow"
  BY <1>2 DEF Increment, Logged
<1>4. n \in 1 .. LoBase - 1 /\ n \in 1 .. Step /\ Step \in Nat /\ Step' = Step
  BY <1>1, <1>3, IncrementsInRange DEF Step
<1>5. /\ entropy' \in Uint80Set
      /\ good => LexLess(append_to(entropy), append_to(entropy'))
      /\ good => Val(entropy') = Val(entropy) + n
      /\ ~good => Val(entropy) + n >= Limit
  BY <1>1, <1>3, <1>4, AddCases, AddIsExact, IncrementOrders
<1>6. /\ log \in Seq(Entry) /\ log # <<>> /\ ms = time /\ ~is_zero(entropy)
      /\ prev = <<[ms |-> time, dst |-> append_to(entropy)]>>
      /\ Val(entropy) <= first + (round - 1) * Step
  BY <1>1 DEF Started
<1>7. first \in Nat /\ Val(entropy) \in Nat /\ Limit \in Nat
  <2>1. log[1] \in Entry
    BY <1>6
  <2>2. log[1].dst[1] \in Nat /\ log[1].dst[2] \in Nat
    BY <2>1, BasesAssumption DEF Entry, Fields
  <2> QED BY <1>1, <2>2, ValRange, BasesAssumption DEF FieldsVal, Limit
<1>8. PICK a \in Nat, b \in Nat, c \in Nat :
        /\ a = (round - 1) * Step /\ b = round * Step /\ c = (Rounds - 1) * Step
        /\ a + Step = b /\ b <= c
  <2>1. PICK d \in Nat : d = Rounds - 1 - round
    BY <1>1
  <2>2. (round + d) * Step = round * Step + d * Step /\ d * Step \in Nat
    BY <1>1, <1>4, <2>1
  <2>3. round + d = Rounds - 1
    BY <1>1, <2>1
  <2>4. round * Step <= (Rounds - 1) * Step
    BY <1>1, <1>4, <2>2, <2>3
  <2>5. (round - 1) * Step + Step = round * Step
    BY <1>1, <1>4
  <2>6. (round - 1) * Step \in Nat /\ round * Step \in Nat /\ (Rounds - 1) * Step \in Nat
    BY <1>1, <1>4
  <2> QED BY <2>4, <2>5, <2>6
<1>9. Val(entropy) + n <= first + b
  <2>1. Val(entropy) <= first + a
    BY <1>6, <1>8
  <2>2. a + Step = b
    BY <1>8
  <2> HIDE DEF first
  <2> QED BY <1>4, <1>7, <2>1, <2>2
<1>10. time' = time /\ round' = round + 1
  BY DEF MakeOne
<1>11. CASE good
  <2>1. InOrder([ms |-> time, dst |-> append_to(entropy')])
    BY <1>5, <1>6, <1>11 DEF InOrder, UlidLess
  <2>2. /\ prev' = <<[ms |-> time, dst |-> append_to(entropy')]>> /\ alarms' = alarms
        /\ pc' = "INV-5" => round + 1 < Rounds
    BY <1>3, <1>10, <1>11, <2>1 DEF MakeOne, MoreRounds, EndOfIteration
  <2>3. append_to(entropy') \in Fields /\ ~is_zero(entropy')
    <3>1. append_to(entropy') \in Fields /\ append_to(entropy) \in Fields
      BY <1>1, <1>5, BytesKeepNumber
    <3>2. append_to(entropy') # ZeroFields
      BY <1>5, <1>11, <3>1, BasesAssumption DEF LexLess, ZeroFields, Fields
    <3> QED BY <1>5, <3>1, <3>2, ZeroBytes
  <2>4. e \in Entry
    BY <1>1, <2>3, StepIsBound DEF Entry
  <2> HIDE DEF e, first, good
  <2>5. log' \in Seq(Entry) /\ log' # <<>> /\ log'[1] = log[1]
    BY <1>3, <1>6, <2>4
  <2>6. Val(entropy') <= first + round * Step
    BY <1>5, <1>8, <1>9, <1>11
  <2>7. first' = first /\ round' - 1 = round
    BY <1>1, <1>10, <2>5 DEF first, FieldsVal
  <2>8. Started'
    BY <1>3, <1>4, <1>6, <1>10, <2>2, <2>3, <2>5, <2>6, <2>7 DEF Started, first
  <2>9. FollowsSource'
    BY <1>1, <1>3, <1>5, <1>10, <2>2, <2>8 DEF FollowsSource
  <2> QED BY <2>2, <2>9 DEF HInv, AlarmsAreOverflows, AlarmsNearTheTop
<1>12. CASE ~good
  <2>1. /\ alarms' = {[why |-> "MonotonicOverflow", first |-> first, step |-> Step]}
        /\ pc' # "INV-5"
    BY <1>3, <1>12 DEF MakeOne, Alarm, AfterReport, EndOfIteration
  <2> HIDE DEF first, good
  <2>2. b <= c
    BY <1>8
  <2>3. first + c >= Limit
    BY <1>4, <1>5, <1>7, <1>9, <1>12, <2>2
  <2> QED BY <1>8, <2>1, <2>3 DEF HInv, FollowsSource, AlarmsAreOverflows, AlarmsNearTheTop
<1> QED BY <1>11, <1>12

\* INV-5 starts with a source nobody has read.
LEMMA SourceIsFresh ==
  ASSUME HInv, TimeRoundTrip
  PROVE  HInv'
<1>1. alarms' = alarms
  BY DEF TimeRoundTrip
<1>2. CASE pc' = "INV-5"
  <2>1. iteration % Every = 0
    BY <1>2 DEF TimeRoundTrip, EndOfIteration
  <2>2. /\ time' \in Ms /\ round' = 0 /\ prev' = <<>>
        /\ \E arg \in Incs : FreshSource(arg)
    BY <2>1 DEF TimeRoundTrip
  <2>3. /\ log' = <<>> /\ entropy' \in Uint80Set /\ is_zero(entropy') /\ inc' \in Bounds
    BY <2>2, BasesAssumption, IncAssumption DEF FreshSource, ZERO, Uint80Set, is_zero
  <2>4. FollowsSource'
    BY <2>2, <2>3, HarnessAssumption DEF FollowsSource, is_zero
  <2> QED BY <1>1, <2>4 DEF HInv, AlarmsAreOverflows, AlarmsNearTheTop
<1>3. CASE pc' # "INV-5"
  BY <1>1, <1>3 DEF HInv, FollowsSource, AlarmsAreOverflows, AlarmsNearTheTop
<1> QED BY <1>2, <1>3

\* Every step of the harness keeps the invariant.
LEMMA NextHInv == HInv /\ [HarnessNext]_harnessVars => HInv'
<1> SUFFICES ASSUME HInv, [HarnessNext]_harnessVars PROVE HInv'
  OBVIOUS
<1>1. CASE Tick \/ Exited \/ UNCHANGED harnessVars
  <2>1. UNCHANGED <<ms, entropy, inc, log, pc, time, round, prev, alarms>>
    BY <1>1 DEF Tick, Exited, harnessVars, constructorVars, inv5Vars
  <2> QED BY <2>1 DEF HInv, FollowsSource, Started, Step, AlarmsAreOverflows, AlarmsNearTheTop
<1>2. CASE While \/ For \/ MarshalFails \/ RoundTrip
  <2>1. pc' # "INV-5" /\ alarms' = alarms
    BY <1>2 DEF While, For, MarshalFails, RoundTrip, EndOfIteration, inv5Vars
  <2> QED BY <2>1 DEF HInv, FollowsSource, AlarmsAreOverflows, AlarmsNearTheTop
<1> QED BY <1>1, <1>2, SourceIsFresh, FirstRead, LaterRead DEF HarnessNext, HarnessStep

\* The harness never leaves its invariant.
THEOREM HarnessInvariance == HarnessSpec => []HInv
<1>1. HarnessInit => HInv
  BY DEF HarnessInit, HInv, FollowsSource, AlarmsAreOverflows, AlarmsNearTheTop
<1> QED BY <1>1, NextHInv, PTL DEF HarnessSpec

\* INV-5 never reports ULIDs out of order: a report is an overflow of the source.
THEOREM ReportsAreOverflows == HarnessSpec => []AlarmsAreOverflows
<1>1. HInv => AlarmsAreOverflows
  BY DEF HInv
<1> QED BY <1>1, HarnessInvariance, PTL

\* A source that INV-5 reports was seeded within Rounds - 1 increments of the limit.
THEOREM ReportsAreNearTheTop == HarnessSpec => []AlarmsNearTheTop
<1>1. HInv => AlarmsNearTheTop
  BY DEF HInv
<1> QED BY <1>1, HarnessInvariance, PTL
=============================================================================
