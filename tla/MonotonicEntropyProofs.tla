----------------------- MODULE MonotonicEntropyProofs -----------------------
(***************************************************************************)
(* The invariants of MonotonicEntropy for words of any size, an increment  *)
(* bound that changes between calls, any timestamps, any bytes the inner   *)
(* source may return and any number of calls.                              *)
(*                                                                         *)
(* IInv is the inductive invariant: SameMsIncreases speaks of the log, and *)
(* only LogTracksState ties the log to the timestamp and the accumulator   *)
(* that the next call tests and continues from.  The facts about the       *)
(* accumulator come first: addition with a carry is addition of numbers,   *)
(* its overflow flag is exact, and comparing bytes is comparing numbers.   *)
(***************************************************************************)
EXTENDS MonotonicEntropy, SequenceTheorems, TLAPS

\* Wrap-around of a sum of two words is at most one subtraction.
LEMMA WrapOnce ==
  ASSUME NEW B \in Nat, B >= 1, NEW a \in Nat, a < B + B
  PROVE  a % B = IF a < B THEN a ELSE a - B
OBVIOUS

\* The three outcomes of Uint80::add: no carry, a carry into hi, and a carry
\* out of hi, which alone is reported as overflow.
LEMMA AddCases ==
  ASSUME NEW u \in Uint80Set, NEW n \in 1 .. LoBase - 1
  PROVE  /\ add(u, n) \in Uint80Set
         /\ \/ /\ ~add_overflows(u, n)
               /\ add(u, n).hi = u.hi
               /\ add(u, n).lo = u.lo + n
               /\ u.lo + n < LoBase
            \/ /\ ~add_overflows(u, n)
               /\ add(u, n).hi = u.hi + 1
               /\ u.hi + 1 < HiBase
               /\ add(u, n).lo = u.lo + n - LoBase
               /\ u.lo + n >= LoBase
            \/ /\ add_overflows(u, n)
               /\ u.hi = HiBase - 1
               /\ add(u, n).hi = 0
               /\ add(u, n).lo = u.lo + n - LoBase
               /\ u.lo + n >= LoBase
<1> DEFINE s == u.lo + n
           lo == s % LoBase
           hi == IF lo < u.lo THEN (u.hi + 1) % HiBase ELSE u.hi
<1>1. /\ u.hi \in 0 .. HiBase - 1 /\ u.lo \in 0 .. LoBase - 1
      /\ s \in Nat /\ s < LoBase + LoBase
      /\ u.hi + 1 \in Nat /\ u.hi + 1 < HiBase + HiBase
  BY BasesAssumption DEF Uint80Set
<1>2. lo = IF s < LoBase THEN s ELSE s - LoBase
  <2> HIDE DEF s
  <2> QED BY <1>1, WrapOnce, BasesAssumption
<1>3. (u.hi + 1) % HiBase = IF u.hi + 1 < HiBase THEN u.hi + 1 ELSE u.hi + 1 - HiBase
  BY <1>1, WrapOnce, BasesAssumption
<1>4. add(u, n) = [hi |-> hi, lo |-> lo]
  BY DEF add
<1> HIDE DEF lo, hi
<1>5. lo \in 0 .. LoBase - 1 /\ (lo < u.lo <=> s >= LoBase)
  BY <1>1, <1>2, BasesAssumption
<1>6. /\ hi \in 0 .. HiBase - 1
      /\ s < LoBase => hi = u.hi
      /\ s >= LoBase /\ u.hi + 1 < HiBase => hi = u.hi + 1
      /\ s >= LoBase /\ u.hi + 1 >= HiBase => hi = 0
  BY <1>1, <1>3, <1>5, BasesAssumption DEF hi
<1>7. add(u, n) \in Uint80Set /\ add(u, n).hi = hi /\ add(u, n).lo = lo
  BY <1>4, <1>5, <1>6 DEF Uint80Set
<1>8. add_overflows(u, n) <=> hi < u.hi
  BY <1>7 DEF add_overflows
<1>9. CASE s < LoBase
  BY <1>1, <1>2, <1>6, <1>7, <1>8, <1>9
<1>10. CASE s >= LoBase /\ u.hi + 1 < HiBase
  BY <1>1, <1>2, <1>6, <1>7, <1>8, <1>10, BasesAssumption
<1>11. CASE s >= LoBase /\ u.hi + 1 >= HiBase
  BY <1>1, <1>2, <1>6, <1>7, <1>8, <1>11, BasesAssumption
<1> QED BY <1>1, <1>9, <1>10, <1>11, BasesAssumption

\* Fewer full high words weigh less, also with any low word on top.
LEMMA HiWeighs ==
  ASSUME NEW g \in Nat, NEW h \in Nat, g < h, NEW B \in Nat, NEW l \in Nat, l < B
  PROVE  g * B + l < h * B
<1>1. PICK d \in Nat : h = g + 1 + d
  <2> WITNESS h - g - 1 \in Nat
  <2> QED OBVIOUS
<1>2. h * B = g * B + B + d * B
  BY <1>1
<1>3. d * B \in Nat /\ g * B \in Nat
  OBVIOUS
<1> QED BY <1>2, <1>3

\* Uint80::add is addition modulo 2^80, and it reports overflow exactly when the
\* sum does not fit (with n below 2^64), whichever words the carry crosses.
THEOREM AddIsExact ==
  ASSUME NEW u \in Uint80Set, NEW n \in 1 .. LoBase - 1
  PROVE  /\ add_overflows(u, n) <=> Val(u) + n >= Limit
         /\ Val(add(u, n)) =
              IF add_overflows(u, n) THEN Val(u) + n - Limit ELSE Val(u) + n
         /\ add_overflows(u, n) => Val(add(u, n)) < Val(u)
<1> USE BasesAssumption
<1>1. /\ u.hi \in 0 .. HiBase - 1 /\ u.lo \in 0 .. LoBase - 1
  BY DEF Uint80Set
<1>2. u.hi * LoBase \in Nat /\ HiBase * LoBase \in Nat
  BY <1>1
<1>3. CASE /\ ~add_overflows(u, n)
           /\ add(u, n).hi = u.hi
           /\ add(u, n).lo = u.lo + n
           /\ u.lo + n < LoBase
  <2>1. u.hi * LoBase + (u.lo + n) < HiBase * LoBase
    BY <1>1, <1>3, HiWeighs
  <2> QED BY <1>1, <1>2, <1>3, <2>1 DEF Val, Limit
<1>4. CASE /\ ~add_overflows(u, n)
           /\ add(u, n).hi = u.hi + 1
           /\ u.hi + 1 < HiBase
           /\ add(u, n).lo = u.lo + n - LoBase
           /\ u.lo + n >= LoBase
  <2>1. (u.hi + 1) * LoBase + (u.lo + n - LoBase) < HiBase * LoBase
    BY <1>1, <1>4, HiWeighs
  <2>2. (u.hi + 1) * LoBase = u.hi * LoBase + LoBase
    BY <1>1
  <2> QED BY <1>1, <1>2, <1>4, <2>1, <2>2 DEF Val, Limit
<1>5. CASE /\ add_overflows(u, n)
           /\ u.hi = HiBase - 1
           /\ add(u, n).hi = 0
           /\ add(u, n).lo = u.lo + n - LoBase
           /\ u.lo + n >= LoBase
  <2>1. u.hi * LoBase = HiBase * LoBase - LoBase
    BY <1>1, <1>5
  <2>2. 0 * LoBase = 0
    OBVIOUS
  <2> QED BY <1>1, <1>2, <1>5, <2>1, <2>2 DEF Val, Limit
<1> QED BY <1>3, <1>4, <1>5, AddCases

\* Comparing ten big-endian bytes is comparing the numbers they stand for.
THEOREM LexLessIsLess ==
  ASSUME NEW a \in Fields, NEW b \in Fields
  PROVE  LexLess(a, b) <=> FieldsVal(a) < FieldsVal(b)
<1> USE BasesAssumption
<1>1. /\ a[1] \in 0 .. HiBase - 1 /\ a[2] \in 0 .. LoBase - 1
      /\ b[1] \in 0 .. HiBase - 1 /\ b[2] \in 0 .. LoBase - 1
  BY DEF Fields
<1>2. a[1] * LoBase \in Nat /\ b[1] * LoBase \in Nat
  BY <1>1
<1>3. CASE a[1] < b[1]
  <2>1. a[1] * LoBase + a[2] < b[1] * LoBase
    BY <1>1, <1>3, HiWeighs
  <2> QED BY <1>1, <1>2, <1>3, <2>1 DEF LexLess, FieldsVal
<1>4. CASE b[1] < a[1]
  <2>1. b[1] * LoBase + b[2] < a[1] * LoBase
    BY <1>1, <1>4, HiWeighs
  <2> QED BY <1>1, <1>2, <1>4, <2>1 DEF LexLess, FieldsVal
<1>5. CASE a[1] = b[1]
  BY <1>1, <1>2, <1>5 DEF LexLess, FieldsVal
<1> QED BY <1>1, <1>3, <1>4, <1>5

\* append_to writes the accumulator's number, and set_bytes reads it back.
LEMMA BytesKeepNumber ==
  /\ \A u \in Uint80Set :
       append_to(u) \in Fields /\ FieldsVal(append_to(u)) = Val(u)
  /\ \A bs \in Fields :
       set_bytes(bs) \in Uint80Set /\ append_to(set_bytes(bs)) = bs
<1>1. ASSUME NEW u \in Uint80Set
      PROVE  append_to(u) \in Fields /\ FieldsVal(append_to(u)) = Val(u)
  BY DEF Uint80Set, append_to, Fields, FieldsVal, Val
<1>2. ASSUME NEW bs \in Fields
      PROVE  set_bytes(bs) \in Uint80Set /\ append_to(set_bytes(bs)) = bs
  BY DEF Uint80Set, append_to, Fields, set_bytes
<1> QED BY <1>1, <1>2

\* Every number stays below 2^80, and it is zero exactly for the zero accumulator.
LEMMA ValRange ==
  \A u \in Uint80Set : Val(u) \in 0 .. Limit - 1 /\ (is_zero(u) <=> Val(u) = 0)
<1> USE BasesAssumption
<1> TAKE u \in Uint80Set
<1>1. u.hi \in 0 .. HiBase - 1 /\ u.lo \in 0 .. LoBase - 1
  BY DEF Uint80Set
<1>2. u.hi * LoBase + u.lo < HiBase * LoBase
  BY <1>1, HiWeighs
<1>3. u.hi * LoBase \in Nat /\ HiBase * LoBase \in Nat
  BY <1>1
<1>4. u.hi # 0 => u.hi * LoBase >= LoBase
  <2>1. SUFFICES ASSUME u.hi # 0 PROVE u.hi * LoBase >= LoBase
    OBVIOUS
  <2>2. u.hi = 1 \/ 1 < u.hi
    BY <1>1, <2>1
  <2>3. 1 < u.hi => 1 * LoBase + 0 < u.hi * LoBase
    BY <1>1, HiWeighs
  <2> QED BY <1>1, <1>3, <2>2, <2>3
<1>5. u.hi = 0 => u.hi * LoBase = 0
  OBVIOUS
<1> QED BY <1>1, <1>2, <1>3, <1>4, <1>5 DEF Val, Limit, is_zero

-----------------------------------------------------------------------------
(* The source.                                                             *)

\* random() returns at least 1 and at most Step, hence less than a low word.
LEMMA IncrementsInRange ==
  ASSUME inc \in Bounds
  PROVE  /\ Step \in 1 .. LoBase - 1
         /\ \A n \in Increments(inc) : n \in 1 .. Step /\ n \in 1 .. LoBase - 1
<1>1. inc \in Nat /\ inc < LoBase /\ LoBase \in Nat /\ LoBase >= 2
  BY IncAssumption, BasesAssumption DEF Bounds
<1>2. Step \in 1 .. LoBase - 1
  BY <1>1 DEF Step
<1>3. ASSUME NEW n \in Increments(inc)
      PROVE  n \in 1 .. Step
  <2>1. CASE inc <= 1
    BY <1>1, <1>3, <2>1 DEF Increments, Step
  <2>2. CASE ~(inc <= 1)
    BY <1>1, <1>3, <2>2 DEF Increments, AcceptedCandidates, Step
  <2> QED BY <2>1, <2>2
<1> QED BY <1>1, <1>2, <1>3

\* The largest increment is a u64 and positive.
LEMMA StepIsBound == inc \in Bounds => Step \in Bounds \ {0}
BY IncrementsInRange DEF Bounds

\* Byte-wise comparison is transitive.
LEMMA LexLessTransitive ==
  ASSUME NEW a \in Fields, NEW b \in Fields, NEW c \in Fields,
         LexLess(a, b), LexLess(b, c)
  PROVE  LexLess(a, c)
BY DEF LexLess, Fields

\* The all-zero bytes are those of the zero accumulator.
LEMMA ZeroBytes ==
  \A u \in Uint80Set : append_to(u) = ZeroFields <=> is_zero(u)
BY DEF Uint80Set, append_to, ZeroFields, is_zero

-----------------------------------------------------------------------------
\* A read that is larger than the last one whenever it continues its run keeps
\* the whole log increasing within runs.
LEMMA AppendKeepsIncreasing ==
  ASSUME log \in Seq(Entry), SameMsIncreases,
         NEW e \in Entry, log' = Append(log, e),
         /\ log # <<>> /\ log[Len(log)].ok /\ log[Len(log)].ms = e.ms
         /\ log[Len(log)].dst # ZeroFields /\ e.ok
         => LexLess(log[Len(log)].dst, e.dst)
  PROVE  SameMsIncreases'
<1> DEFINE n == Len(log)
<1>1. /\ n \in Nat /\ Len(log') = n + 1 /\ log'[n + 1] = e
      /\ \A k \in 1 .. n : log'[k] = log[k] /\ log[k] \in Entry
  OBVIOUS
<1>2. SUFFICES ASSUME NEW i \in 1 .. n + 1, NEW j \in 1 .. n + 1, i < j,
                      SameRun(i, j)'
               PROVE  LexLess(log'[i].dst, log'[j].dst)
  BY <1>1 DEF SameMsIncreases
<1>3. /\ \A k \in i .. j : log'[k].ok /\ log'[k].ms = log'[i].ms
      /\ \A k \in i .. j - 1 : log'[k].dst # ZeroFields
  BY <1>2 DEF SameRun
<1>4. CASE j <= n
  <2>1. SameRun(i, j)
    BY <1>1, <1>2, <1>3, <1>4 DEF SameRun
  <2> QED BY <1>1, <1>2, <1>4, <2>1 DEF SameMsIncreases
<1>5. CASE j = n + 1
  <2>1. i \in 1 .. n /\ n \in 1 .. n /\ log # <<>>
    BY <1>1, <1>2, <1>5
  <2>2. log[n].ok /\ log[n].ms = e.ms /\ log[n].dst # ZeroFields /\ e.ok
    <3>1. n \in i .. j /\ n + 1 \in i .. j /\ n \in i .. j - 1
      BY <1>1, <1>5, <2>1
    <3> QED BY <1>1, <1>3, <2>1, <3>1
  <2>3. LexLess(log[n].dst, e.dst)
    BY <2>1, <2>2
  <2>4. CASE i = n
    BY <1>1, <1>5, <2>1, <2>3, <2>4
  <2>5. CASE i < n
    <3>1. SameRun(i, n)
      BY <1>1, <1>3, <1>5, <2>1, <2>5 DEF SameRun
    <3>2. LexLess(log[i].dst, log[n].dst)
      BY <2>1, <2>5, <3>1 DEF SameMsIncreases
    <3>3. log[i].dst \in Fields /\ log[n].dst \in Fields /\ e.dst \in Fields
      BY <1>1, <2>1 DEF Entry
    <3>4. LexLess(log[i].dst, e.dst)
      BY <2>3, <3>2, <3>3, LexLessTransitive
    <3> QED BY <1>1, <1>5, <2>1, <3>4
  <2> QED BY <1>1, <2>1, <2>4, <2>5
<1> QED BY <1>1, <1>4, <1>5

\* A reported overflow that continues the last read from near the limit keeps
\* every logged overflow justified.
LEMMA AppendKeepsOverflowReal ==
  ASSUME log \in Seq(Entry), OverflowIsReal,
         NEW e \in Entry, log' = Append(log, e),
         ~e.ok => /\ log # <<>> /\ log[Len(log)].ms = e.ms
                  /\ FieldsVal(log[Len(log)].dst) + e.step >= Limit
                  /\ LexLess(e.dst, log[Len(log)].dst)
  PROVE  OverflowIsReal'
<1> DEFINE n == Len(log)
<1>1. /\ n \in Nat /\ Len(log') = n + 1 /\ log'[n + 1] = e
      /\ \A k \in 1 .. n : log'[k] = log[k] /\ log[k] \in Entry
  OBVIOUS
<1>2. SUFFICES ASSUME NEW j \in 1 .. n + 1, ~log'[j].ok
               PROVE  /\ j > 1 /\ log'[j-1].ms = log'[j].ms
                      /\ FieldsVal(log'[j-1].dst) + log'[j].step >= Limit
                      /\ LexLess(log'[j].dst, log'[j-1].dst)
  BY <1>1 DEF OverflowIsReal
<1>3. CASE j <= n
  <2>1. /\ j > 1 /\ log[j-1].ms = log[j].ms
        /\ FieldsVal(log[j-1].dst) + log[j].step >= Limit
        /\ LexLess(log[j].dst, log[j-1].dst)
    BY <1>1, <1>2, <1>3 DEF OverflowIsReal
  <2>2. log'[j] = log[j] /\ log'[j-1] = log[j-1]
    BY <1>1, <1>3, <2>1
  <2> QED BY <2>1, <2>2
<1>4. CASE j = n + 1
  <2>1. n \in 1 .. n /\ j - 1 = n
    BY <1>1, <1>2, <1>4
  <2>2. log'[j] = e /\ log'[j-1] = log[n]
    BY <1>1, <1>4, <2>1
  <2> QED BY <1>1, <1>2, <1>4, <2>1, <2>2
<1> QED BY <1>1, <1>3, <1>4

-----------------------------------------------------------------------------
\* The constructor establishes the invariant.
LEMMA InitIInv == Init => IInv
<1> SUFFICES ASSUME Init PROVE IInv
  OBVIOUS
<1>1. TypeOK
  BY BasesAssumption, IncAssumption DEF Init, TypeOK, ZERO, Uint80Set, Results
<1>2. LogTracksState
  BY DEF Init, LogTracksState, ZERO, is_zero
<1>3. SameMsIncreases /\ OverflowIsReal
  BY DEF Init, SameMsIncreases, OverflowIsReal
<1> QED BY <1>1, <1>2, <1>3 DEF IInv

\* A fresh read keeps the invariant: it is taken only where no run continues.
LEMMA FillKeepsIInv ==
  ASSUME IInv, NEW t \in Ms, NEW bs \in Draws, ~Continues(t), Fill(t, bs)
  PROVE  IInv'
<1> DEFINE e == [ms |-> t, dst |-> bs, ok |-> TRUE, step |-> Step]
<1>1. log \in Seq(Entry) /\ entropy \in Uint80Set /\ ms \in Nat /\ inc \in Bounds
  BY DEF IInv, TypeOK
<1>2. bs \in Fields /\ t \in Nat /\ e \in Entry
  BY <1>1, CallAssumption, StepIsBound DEF Entry
<1>3. /\ ms' = t /\ entropy' = set_bytes(bs) /\ log' = Append(log, e) /\ result' = "ok"
      /\ inc' = inc
  BY DEF Fill, Logged
<1>4. entropy' \in Uint80Set /\ append_to(entropy') = bs
  BY <1>2, <1>3, BytesKeepNumber
<1>5. TypeOK'
  BY <1>1, <1>2, <1>3, <1>4 DEF TypeOK, Results
<1>6. LogTracksState'
  <2>1. Len(log') = Len(log) + 1 /\ log'[Len(log) + 1] = e /\ log' # <<>>
    BY <1>1, <1>2, <1>3
  <2> QED BY <1>3, <1>4, <2>1 DEF LogTracksState
<1>7. SameMsIncreases'
  <2>1. ~(/\ log # <<>> /\ log[Len(log)].ms = e.ms
          /\ log[Len(log)].dst # ZeroFields)
    BY <1>1, ZeroBytes DEF IInv, LogTracksState, Continues
  <2> QED BY <1>1, <1>2, <1>3, <2>1, AppendKeepsIncreasing DEF IInv
<1>8. OverflowIsReal'
  BY <1>1, <1>2, <1>3, AppendKeepsOverflowReal DEF IInv
<1> QED BY <1>5, <1>6, <1>7, <1>8 DEF IInv

\* A successful increment writes larger bytes than the accumulator held, and a
\* reported overflow writes smaller ones.
LEMMA IncrementOrders ==
  ASSUME inc \in Bounds, NEW u \in Uint80Set, NEW n \in Increments(inc)
  PROVE  /\ ~add_overflows(u, n) => LexLess(append_to(u), append_to(add(u, n)))
         /\ add_overflows(u, n) => /\ LexLess(append_to(add(u, n)), append_to(u))
                                  /\ FieldsVal(append_to(u)) + Step >= Limit
<1>1. n \in 1 .. LoBase - 1 /\ n \in 1 .. Step /\ Step \in Nat
  BY IncrementsInRange
<1>2. add(u, n) \in Uint80Set
  BY <1>1, AddCases
<1>3. /\ append_to(u) \in Fields /\ FieldsVal(append_to(u)) = Val(u)
      /\ append_to(add(u, n)) \in Fields /\ FieldsVal(append_to(add(u, n))) = Val(add(u, n))
  BY <1>2, BytesKeepNumber
<1>4. Val(u) \in 0 .. Limit - 1 /\ Val(add(u, n)) \in 0 .. Limit - 1 /\ Limit \in Nat
  BY <1>2, ValRange, BasesAssumption DEF Limit
<1>5. /\ add_overflows(u, n) <=> Val(u) + n >= Limit
      /\ Val(add(u, n)) = IF add_overflows(u, n) THEN Val(u) + n - Limit ELSE Val(u) + n
      /\ add_overflows(u, n) => Val(add(u, n)) < Val(u)
  BY <1>1, AddIsExact
<1>6. ~add_overflows(u, n) => Val(u) < Val(add(u, n))
  BY <1>1, <1>4, <1>5
<1>7. add_overflows(u, n) => Val(u) + Step >= Limit
  BY <1>1, <1>4, <1>5
<1> QED BY <1>3, <1>5, <1>6, <1>7, LexLessIsLess

\* An increment keeps the invariant: the accumulator it starts from is the last
\* entry of the log.
LEMMA IncrementKeepsIInv ==
  ASSUME IInv, NEW t \in Ms, NEW n \in Increments(inc), Continues(t), Increment(t, n)
  PROVE  IInv'
<1> DEFINE u == add(entropy, n)
           e == [ms |-> t, dst |-> append_to(u), ok |-> ~add_overflows(entropy, n), step |-> Step]
<1>1. log \in Seq(Entry) /\ entropy \in Uint80Set /\ ms \in Nat /\ inc \in Bounds
  BY DEF IInv, TypeOK
<1>2. n \in 1 .. LoBase - 1
  BY <1>1, IncrementsInRange
<1>3. u \in Uint80Set /\ append_to(u) \in Fields
  BY <1>1, <1>2, AddCases, BytesKeepNumber
<1>4. /\ entropy' = u /\ log' = Append(log, e) /\ ms' = ms /\ t = ms /\ inc' = inc
      /\ result' \in {"ok", "MonotonicOverflow"}
  BY DEF Increment, Logged, Continues
<1>5. e.ok <=> ~add_overflows(entropy, n)
  BY Zenon
<1>6. e \in Entry /\ e.ms = t /\ e.dst = append_to(u) /\ e.step = Step
  <2>1. (~add_overflows(entropy, n)) \in BOOLEAN
    BY Zenon
  <2> QED BY <1>1, <1>3, <2>1, StepIsBound, Zenon DEF Entry
<1> HIDE DEF e
<1>7. /\ log # <<>> /\ log[Len(log)].ms = t
      /\ log[Len(log)].dst = append_to(entropy)
  BY <1>4 DEF IInv, LogTracksState, Continues
<1>8. TypeOK'
  <2>1. log' \in Seq(Entry)
    BY <1>1, <1>4, <1>6
  <2> QED BY <1>1, <1>3, <1>4, <2>1 DEF TypeOK, Results
<1>9. LogTracksState'
  <2>1. Len(log') = Len(log) + 1 /\ log'[Len(log) + 1] = e /\ log' # <<>>
    BY <1>1, <1>4, <1>6
  <2> QED BY <1>4, <1>6, <2>1 DEF LogTracksState
<1>10. SameMsIncreases'
  <2>1. e.ok => LexLess(log[Len(log)].dst, e.dst)
    BY <1>1, <1>5, <1>6, <1>7, IncrementOrders
  <2> QED BY <1>1, <1>4, <1>6, <2>1, AppendKeepsIncreasing DEF IInv
<1>11. OverflowIsReal'
  <2>1. ~e.ok => /\ FieldsVal(log[Len(log)].dst) + Step >= Limit
                 /\ LexLess(e.dst, log[Len(log)].dst)
    BY <1>1, <1>5, <1>6, <1>7, IncrementOrders
  <2> QED BY <1>1, <1>4, <1>6, <1>7, <2>1, AppendKeepsOverflowReal DEF IInv
<1> QED BY <1>8, <1>9, <1>10, <1>11 DEF IInv

\* Calls that write nothing, an assignment to inc, and stuttering keep the invariant.
LEMMA NoWriteKeepsIInv ==
  ASSUME IInv, ms' = ms, entropy' = entropy, log' = log, inc' \in Bounds, result' \in Results
  PROVE  IInv'
<1>1. TypeOK'
  BY DEF IInv, TypeOK
<1>2. LogTracksState'
  BY Zenon DEF IInv, LogTracksState
<1>3. SameMsIncreases'
  BY DEF IInv, SameMsIncreases, SameRun
<1>4. OverflowIsReal'
  BY Zenon DEF IInv, OverflowIsReal
<1> QED BY <1>1, <1>2, <1>3, <1>4, Zenon DEF IInv

\* Every call, and stuttering, keeps the invariant.
LEMMA NextIInv == IInv /\ [Next]_vars => IInv'
<1> SUFFICES ASSUME IInv, [Next]_vars PROVE IInv'
  OBVIOUS
<1>1. ASSUME NEW t \in Ms, Refill(t) PROVE IInv'
  BY <1>1, FillKeepsIInv DEF Refill
<1>2. ASSUME NEW t \in Ms, Bump(t) PROVE IInv'
  BY <1>2, IncrementKeepsIInv DEF Bump
<1>3. ASSUME NEW t \in Ms, SourceError(t) PROVE IInv'
  BY <1>3, NoWriteKeepsIInv DEF SourceError, Results, IInv, TypeOK
<1>4. CASE ShortBuffer
  BY <1>4, NoWriteKeepsIInv DEF ShortBuffer, Results, IInv, TypeOK
<1>5. CASE PlainRead
  BY <1>5, NoWriteKeepsIInv DEF PlainRead, Results, IInv, TypeOK
<1>6. CASE SetInc
  BY <1>6, NoWriteKeepsIInv, IncAssumption DEF SetInc, IInv, TypeOK
<1>7. CASE UNCHANGED vars
  BY <1>7, NoWriteKeepsIInv DEF vars, IInv, TypeOK
<1> QED BY <1>1, <1>2, <1>3, <1>4, <1>5, <1>6, <1>7 DEF Next, Write, NoWrite

-----------------------------------------------------------------------------
\* The inductive invariant holds however often the source is called.
THEOREM Invariance == Spec => []IInv
BY InitIInv, NextIInv, PTL DEF Spec

\* The accumulator and the log keep their types.
THEOREM TypeCorrect == Spec => []TypeOK
<1>1. IInv => TypeOK
  BY DEF IInv
<1> QED BY <1>1, Invariance, PTL

\* The promise of the Monotonic trait: within a run of one millisecond every
\* read of a MonotonicEntropy is byte-wise greater than all earlier ones.
THEOREM ReadsIncrease == Spec => []SameMsIncreases
<1>1. IInv => SameMsIncreases
  BY DEF IInv
<1> QED BY <1>1, Invariance, PTL

\* MonotonicOverflow is never reported while there is room for an increment.
THEOREM OverflowsAreReal == Spec => []OverflowIsReal
<1>1. IInv => OverflowIsReal
  BY DEF IInv
<1> QED BY <1>1, Invariance, PTL

-----------------------------------------------------------------------------
(* The refinement of MonotonicReader.                                      *)

\* The numbers read, as a sequence.
LEMMA ReadsIsSeq ==
  ASSUME log \in Seq(Entry)
  PROVE  /\ Reads \in Seq([ms : Ms, val : 0 .. Limit - 1, ok : BOOLEAN])
         /\ Len(Reads) = Len(log)
         /\ \A i \in 1 .. Len(log) :
              Reads[i] = [ms |-> log[i].ms, val |-> FieldsVal(log[i].dst), ok |-> log[i].ok]
<1> DEFINE n == Len(log)
           Number == [ms : Ms, val : 0 .. Limit - 1, ok : BOOLEAN]
<1>1. n \in Nat /\ \A i \in 1 .. n : log[i] \in Entry
  OBVIOUS
<1>2. ASSUME NEW i \in 1 .. n
      PROVE  [ms |-> log[i].ms, val |-> FieldsVal(log[i].dst), ok |-> log[i].ok] \in Number
  <2>1. log[i].dst \in Fields /\ log[i].ms \in Ms /\ log[i].ok \in BOOLEAN
    BY <1>1 DEF Entry
  <2>2. /\ set_bytes(log[i].dst) \in Uint80Set
        /\ FieldsVal(log[i].dst) = Val(set_bytes(log[i].dst))
    BY <2>1, BytesKeepNumber
  <2>3. FieldsVal(log[i].dst) \in 0 .. Limit - 1
    BY <2>2, ValRange
  <2> QED BY <2>1, <2>3
<1>3. Reads \in [1 .. n -> Number]
  BY <1>2 DEF Reads
<1>4. Reads \in Seq(Number)
  <2> HIDE DEF Number, n
  <2> QED BY <1>1, <1>3
<1>5. Len(Reads) = n
  BY <1>1, <1>3, <1>4
<1> QED BY <1>4, <1>5 DEF Reads

\* Logging a read appends its number.
LEMMA ReadsGrow ==
  ASSUME log \in Seq(Entry), NEW e \in Entry, log' = Append(log, e)
  PROVE  Reads' = Append(Reads, [ms |-> e.ms, val |-> FieldsVal(e.dst), ok |-> e.ok])
<1> DEFINE n == Len(log)
           r == [ms |-> e.ms, val |-> FieldsVal(e.dst), ok |-> e.ok]
           Number == [ms : Ms, val : 0 .. Limit - 1, ok : BOOLEAN]
<1>1. /\ n \in Nat /\ Len(log') = n + 1 /\ log'[n + 1] = e /\ log' \in Seq(Entry)
      /\ \A k \in 1 .. n : log'[k] = log[k]
  OBVIOUS
<1>2. /\ Reads \in Seq(Number) /\ Len(Reads) = n
      /\ \A i \in 1 .. n :
           Reads[i] = [ms |-> log[i].ms, val |-> FieldsVal(log[i].dst), ok |-> log[i].ok]
  BY ReadsIsSeq
<1>3. /\ Reads' \in Seq(Number) /\ Len(Reads') = n + 1
      /\ \A i \in 1 .. n + 1 :
           Reads'[i] = [ms |-> log'[i].ms, val |-> FieldsVal(log'[i].dst), ok |-> log'[i].ok]
  <2>1. (log \in Seq(Entry) =>
           /\ Reads \in Seq(Number) /\ Len(Reads) = Len(log)
           /\ \A i \in 1 .. Len(log) :
                Reads[i] = [ms |-> log[i].ms, val |-> FieldsVal(log[i].dst), ok |-> log[i].ok])'
    BY ReadsIsSeq, PTL
  <2> QED BY <1>1, <2>1
<1>4. Reads'[n + 1] = r
  BY <1>1, <1>3
<1>5. \A i \in 1 .. n : Reads'[i] = Reads[i]
  <2> TAKE i \in 1 .. n
  <2>1. i \in 1 .. n + 1 /\ log'[i] = log[i]
    BY <1>1
  <2>2. Reads'[i] = [ms |-> log'[i].ms, val |-> FieldsVal(log'[i].dst), ok |-> log'[i].ok]
    BY <1>3, <2>1
  <2>3. Reads[i] = [ms |-> log[i].ms, val |-> FieldsVal(log[i].dst), ok |-> log[i].ok]
    BY <1>2
  <2> QED BY <2>1, <2>2, <2>3, Zenon
<1>6. r \in Number
  BY <1>1, <1>3, <1>4
<1> HIDE DEF r
<1>7. /\ Append(Reads, r) \in Seq(Number) /\ Len(Append(Reads, r)) = n + 1
      /\ Append(Reads, r)[n + 1] = r
      /\ \A i \in 1 .. n : Append(Reads, r)[i] = Reads[i]
  BY <1>1, <1>2, <1>6
<1>8. \A i \in 1 .. n + 1 : Reads'[i] = Append(Reads, r)[i]
  BY <1>1, <1>4, <1>5, <1>7
<1>9. Reads' = Append(Reads, r)
  BY <1>1, <1>3, <1>7, <1>8, SeqEqual
<1> QED BY <1>9 DEF r

\* Where the promise sees a run that goes on, the code continues it too, from
\* the number the promise saw last.
LEMMA LastRead ==
  ASSUME IInv
  PROVE  /\ Reader!InRun(ms) => ~is_zero(entropy)
         /\ \A t \in Ms : Reader!InRun(t) => ms = t
         /\ ~is_zero(entropy) => /\ Reads # <<>>
                                /\ Reader!Last.ms = ms
                                /\ Reader!Last.val = Val(entropy)
<1>1. log \in Seq(Entry) /\ entropy \in Uint80Set
  BY DEF IInv, TypeOK
<1>2. Len(Reads) = Len(log) /\ Len(log) \in Nat
  BY <1>1, ReadsIsSeq
<1>3. log # <<>> <=> Len(log) >= 1
  BY <1>1
<1>4. Reads # <<>> <=> Len(Reads) >= 1
  BY <1>1, ReadsIsSeq
<1>5. ASSUME log # <<>>
      PROVE  Reader!Last.ms = ms /\ Reader!Last.val = Val(entropy)
  <2>1. Len(log) \in 1 .. Len(log)
    BY <1>2, <1>3, <1>5
  <2>2. Reader!Last = [ms |-> log[Len(log)].ms, val |-> FieldsVal(log[Len(log)].dst),
                       ok |-> log[Len(log)].ok]
    BY <1>1, <1>2, <2>1, ReadsIsSeq DEF Reader!Last
  <2>3. log[Len(log)].ms = ms /\ log[Len(log)].dst = append_to(entropy)
    BY <1>5 DEF IInv, LogTracksState
  <2> QED BY <1>1, <2>2, <2>3, BytesKeepNumber
<1>6. ~is_zero(entropy) => log # <<>>
  BY DEF IInv, LogTracksState
<1>7. is_zero(entropy) <=> Val(entropy) = 0
  BY <1>1, ValRange
<1> QED BY <1>2, <1>3, <1>4, <1>5, <1>6, <1>7 DEF Reader!InRun

\* A fresh read is a start.
LEMMA FillStarts ==
  ASSUME IInv, NEW t \in Ms, NEW bs \in Draws, ~Continues(t), Fill(t, bs)
  PROVE  Reader!Start(t)
<1> DEFINE e == [ms |-> t, dst |-> bs, ok |-> TRUE, step |-> Step]
<1>1. /\ log \in Seq(Entry) /\ bs \in Fields /\ e \in Entry /\ log' = Append(log, e)
      /\ Step' = Step
  BY CallAssumption, StepIsBound DEF IInv, TypeOK, Entry, Fill, Logged, Step
<1>2. Reads' = Append(Reads, [ms |-> t, val |-> FieldsVal(bs), ok |-> TRUE])
  BY <1>1, ReadsGrow
<1>3. FieldsVal(bs) \in 0 .. Limit - 1
  BY <1>1, BytesKeepNumber, ValRange
<1>4. ~Reader!InRun(t)
  BY LastRead DEF Continues
<1> QED BY <1>1, <1>2, <1>3, <1>4 DEF Reader!Start, Reader!Answer

\* An increment is an advance, a start after an overflow, or an overflow.
LEMMA IncrementAnswers ==
  ASSUME IInv, NEW t \in Ms, NEW n \in Increments(inc), Continues(t), Increment(t, n)
  PROVE  Reader!Start(t) \/ Reader!Advance(t) \/ Reader!Exhaust(t)
<1> DEFINE u == add(entropy, n)
           v == Val(u)
<1>1. /\ log \in Seq(Entry) /\ entropy \in Uint80Set /\ ms = t /\ ~is_zero(entropy)
      /\ inc \in Bounds /\ Step' = Step
  BY DEF IInv, TypeOK, Continues, Increment, Step
<1>2. n \in 1 .. LoBase - 1 /\ n \in 1 .. Step /\ Step \in Nat /\ Step \in Bounds \ {0}
  BY <1>1, IncrementsInRange, StepIsBound
<1>3. u \in Uint80Set /\ append_to(u) \in Fields /\ FieldsVal(append_to(u)) = v
  BY <1>1, <1>2, AddCases, BytesKeepNumber
<1>4. v \in 0 .. Limit - 1 /\ Val(entropy) \in 1 .. Limit - 1 /\ Limit \in Nat
  BY <1>1, <1>3, ValRange, BasesAssumption DEF Limit
<1>5. Reads # <<>> /\ Reader!Last.ms = t /\ Reader!Last.val = Val(entropy)
  BY <1>1, LastRead
<1>6. /\ add_overflows(entropy, n) <=> Val(entropy) + n >= Limit
      /\ v = IF add_overflows(entropy, n) THEN Val(entropy) + n - Limit ELSE Val(entropy) + n
  BY <1>1, <1>2, AddIsExact
<1>7. CASE add_overflows(entropy, n)
  <2> DEFINE e == [ms |-> t, dst |-> append_to(u), ok |-> FALSE, step |-> Step]
  <2>1. log' = Append(log, e)
    BY <1>7, Zenon DEF Increment, Logged
  <2>2. e \in Entry
    BY <1>2, <1>3 DEF Entry
  <2>3. Reads' = Append(Reads, [ms |-> t, val |-> v, ok |-> FALSE])
    BY <1>1, <1>3, <2>1, <2>2, ReadsGrow
  <2>4. Reader!Last.val # 0 /\ Reader!Last.val + Step >= Limit
    BY <1>2, <1>4, <1>5, <1>6, <1>7
  <2> HIDE DEF v, e
  <2> QED BY <1>1, <1>4, <1>5, <2>3, <2>4 DEF Reader!Exhaust, Reader!Answer
<1>8. CASE ~add_overflows(entropy, n)
  <2> DEFINE e == [ms |-> t, dst |-> append_to(u), ok |-> TRUE, step |-> Step]
  <2>1. log' = Append(log, e)
    BY <1>8, Zenon DEF Increment, Logged
  <2>2. e \in Entry
    BY <1>2, <1>3 DEF Entry
  <2>3. Reads' = Append(Reads, [ms |-> t, val |-> v, ok |-> TRUE])
    BY <1>1, <1>3, <2>1, <2>2, ReadsGrow
  <2>4. v \in Reader!Last.val + 1 .. Reader!Last.val + Step /\ v < Limit
    BY <1>2, <1>4, <1>5, <1>6, <1>8
  <2> HIDE DEF v, e
  <2>5. CASE Reader!InRun(t)
    BY <1>1, <2>3, <2>4, <2>5 DEF Reader!Advance, Reader!Answer
  <2>6. CASE ~Reader!InRun(t)
    BY <1>1, <1>4, <2>3, <2>6 DEF Reader!Start, Reader!Answer
  <2> QED BY <2>5, <2>6
<1> QED BY <1>7, <1>8

\* MonotonicEntropy keeps the promise of MonotonicReader for words of any size:
\* seen as numbers, reads of one millisecond count up in steps of at most the bound in force.
THEOREM Refinement == Spec => ImplementsReader
<1>1. Init => Reader!Init
  <2> SUFFICES ASSUME Init PROVE Reads = <<>> /\ Step \in Bounds \ {0}
    BY DEF Reader!Init
  <2>1. Reads = <<>>
    BY DEF Init, Reads
  <2>2. inc \in Bounds
    BY InitIInv DEF IInv, TypeOK
  <2> QED BY <2>1, <2>2, StepIsBound
<1>2. IInv /\ [Next]_vars => [Reader!Next]_<<Reads, Step>>
  <2> SUFFICES ASSUME IInv, [Next]_vars PROVE [Reader!Next]_<<Reads, Step>>
    OBVIOUS
  <2>1. ASSUME NEW t \in Ms, Refill(t) PROVE Reader!Next
    BY <2>1, FillStarts DEF Refill, Reader!Next
  <2>2. ASSUME NEW t \in Ms, Bump(t) PROVE Reader!Next
    BY <2>2, IncrementAnswers DEF Bump, Reader!Next
  <2>3. ASSUME log' = log PROVE Reads' = Reads
    BY <2>3 DEF Reads
  <2>4. ASSUME NoWrite, ~SetInc PROVE log' = log /\ Step' = Step
    BY <2>4 DEF NoWrite, SourceError, ShortBuffer, PlainRead, Step
  <2>5. CASE SetInc
    <3>1. log' = log /\ inc' \in Bounds
      BY <2>5, IncAssumption DEF SetInc
    <3>2. (inc \in Bounds => Step \in Bounds \ {0})'
      BY StepIsBound, PTL
    <3>3. Reader!Retune
      BY <2>3, <3>1, <3>2 DEF Reader!Retune
    <3> QED BY <3>3 DEF Reader!Next
  <2>6. CASE UNCHANGED vars
    BY <2>3, <2>6 DEF vars, Step
  <2> QED BY <2>1, <2>2, <2>3, <2>4, <2>5, <2>6 DEF Next, Write
<1> QED BY <1>1, <1>2, Invariance, PTL DEF Spec, ImplementsReader, Reader!Spec
=============================================================================
