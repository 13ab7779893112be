--------------------------- MODULE MathRngProofs ---------------------------
(***************************************************************************)
(* xorshift64 never reaches zero and never merges two states, so that the  *)
(* bytes of a read are never all zero, for any seeds, clock and number of  *)
(* reads, and two streams agree exactly when their origins do.             *)
(*                                                                         *)
(* Each of the three exclusive ors with a shifted copy is undone from one  *)
(* end of the word: at the lowest (for <<) or highest (for >>) bit in      *)
(* which two words differ, the shifted copies still agree.                 *)
(***************************************************************************)
EXTENDS MathRng, TLAPS, SequenceTheorems, WellFoundedInduction

\* A non-empty set of natural numbers has a least element.
LEMMA Least ==
  ASSUME NEW S, S \subseteq Nat, S # {}
  PROVE  \E m \in S : \A i \in S : m <= i
<1>1. PICK m \in S : \A i \in S : ~ (<<i, m>> \in OpToRel(<, Nat))
  BY NatLessThanWellFounded, WFMin
<1>2. OpToRel(<, Nat) = {ss \in Nat \X Nat : ss[1] < ss[2]}
  BY DEF OpToRel
<1>3. ASSUME NEW i \in S PROVE m <= i
  <2>1. ~ (<<i, m>> \in {ss \in Nat \X Nat : ss[1] < ss[2]})
    BY <1>1, <1>2, Zenon
  <2>2. i \in Nat /\ m \in Nat
    OBVIOUS
  <2> QED BY <2>1, <2>2
<1> QED BY <1>3

\* A non-empty set of bits has a highest one.
LEMMA Highest ==
  ASSUME NEW S, S \subseteq Bit, S # {}
  PROVE  \E m \in S : \A i \in S : i <= m
<1> DEFINE T == {63 - i : i \in S}
<1>1. T \subseteq Nat /\ T # {}
  <2>1. \A i \in S : 63 - i \in Nat
    BY DEF Bit
  <2>2. T # {}
    BY Zenon
  <2> QED BY <2>1, <2>2
<1> HIDE DEF T
<1>2. PICK t \in T : \A i \in T : t <= i
  BY <1>1, Least
<1>3. PICK m \in S : t = 63 - m
  BY DEF T
<1>4. ASSUME NEW i \in S PROVE i <= m
  <2>1. 63 - i \in T
    BY DEF T
  <2> QED BY <1>2, <1>3, <2>1 DEF Bit
<1> QED BY <1>4

\* x ^= x << n loses nothing.
LEMMA ShlInjective ==
  ASSUME NEW x \in Word, NEW y \in Word, NEW n \in Nat \ {0},
         Xor(x, Shl(x, n)) = Xor(y, Shl(y, n))
  PROVE  x = y
<1> DEFINE D == {i \in Bit : (i \in x) # (i \in y)}
<1>1. SUFFICES ASSUME D # {} PROVE FALSE
  BY DEF Word
<1>2. PICK m \in D : \A i \in D : m <= i
  <2>1. D \subseteq Nat
    BY DEF Bit
  <2> HIDE DEF D
  <2> QED BY <1>1, <2>1, Least
<1>3. m \in Bit /\ m - n \notin D
  BY <1>2 DEF Bit
<1>4. (m - n \in x) = (m - n \in y)
  BY <1>3 DEF Word
<1>5. (m \in Shl(x, n)) = (m \in Shl(y, n))
  BY <1>3, <1>4 DEF Shl
<1> QED BY <1>2, <1>5 DEF Xor

\* x ^= x >> n loses nothing.
LEMMA ShrInjective ==
  ASSUME NEW x \in Word, NEW y \in Word, NEW n \in Nat \ {0},
         Xor(x, Shr(x, n)) = Xor(y, Shr(y, n))
  PROVE  x = y
<1> DEFINE D == {i \in Bit : (i \in x) # (i \in y)}
<1>1. SUFFICES ASSUME D # {} PROVE FALSE
  BY DEF Word
<1>2. PICK m \in D : \A i \in D : i <= m
  <2>1. D \subseteq Bit
    OBVIOUS
  <2> HIDE DEF D
  <2> QED BY <1>1, <2>1, Highest
<1>3. m \in Bit /\ m + n \notin D
  BY <1>2 DEF Bit
<1>4. (m + n \in x) = (m + n \in y)
  BY <1>3 DEF Word
<1>5. (m \in Shr(x, n)) = (m \in Shr(y, n))
  BY <1>3, <1>4 DEF Shr
<1> QED BY <1>2, <1>5 DEF Xor

\* The operations stay within 64 bits.
LEMMA NextType ==
  ASSUME NEW x \in Word
  PROVE  next(x) \in Word
BY DEF next, Xor, Shl, Shr, Word

\* One step of xorshift64 maps different states to different states.
THEOREM NextInjective ==
  ASSUME NEW x \in Word, NEW y \in Word, next(x) = next(y)
  PROVE  x = y
<1> DEFINE A(z) == Xor(z, Shl(z, 13))
           B(z) == Xor(A(z), Shr(A(z), 7))
<1>1. \A z \in Word : A(z) \in Word /\ B(z) \in Word
  BY DEF Xor, Shl, Shr, Word
<1>2. next(x) = Xor(B(x), Shl(B(x), 17)) /\ next(y) = Xor(B(y), Shl(B(y), 17))
  BY DEF next
<1>3. B(x) = B(y)
  <2>1. Xor(B(x), Shl(B(x), 17)) = Xor(B(y), Shl(B(y), 17))
    BY <1>2
  <2>2. B(x) \in Word /\ B(y) \in Word
    BY <1>1
  <2> HIDE DEF A, B
  <2> QED BY <2>1, <2>2, ShlInjective
<1>4. A(x) = A(y)
  <2> HIDE DEF A
  <2> QED BY <1>1, <1>3, ShrInjective
<1> QED BY <1>4, ShlInjective

\* One step of xorshift64 never gives zero, except from zero.
THEOREM NextNonZero ==
  ASSUME NEW x \in Word, x # {}
  PROVE  next(x) # {}
<1>1. {} \in Word /\ next({}) = {}
  BY DEF next, Xor, Shl, Shr, Word
<1> QED BY <1>1, NextInjective

-----------------------------------------------------------------------------
\* What a generator starts from.
Start(o) == IF o.kind = "time" THEN time_seed(o.ms) ELSE from_seed(o.seed)

\* The generators that exist.
Made(g) == origin[g] \in Origin

\* The state of a generator is never zero.
NonZero == \A g \in Gens : Made(g) => state[g] # {}

\* A read that is not finished has delivered nothing or whole words.
WholeWords ==
  \A g \in Gens : left[g] > 0 => Made(g) /\ (dst[g] = <<>> \/ Len(dst[g]) >= 8)

\* The state is the last word drawn, or where the generator started.
StateIsLast ==
  \A g \in Gens :
    /\ stream[g] # <<>> => Made(g) /\ state[g] = stream[g][Len(stream[g])]
    /\ stream[g] = <<>> /\ Made(g) => state[g] = Start(origin[g])

\* Each word is the step of the one before it.
Chained ==
  \A g \in Gens : \A i \in 1 .. Len(stream[g]) :
    stream[g][i] = IF i = 1 THEN next(Start(origin[g])) ELSE next(stream[g][i - 1])

\* Two generators agree at a position exactly when they started alike.
StartDecidesStream ==
  \A g, h \in Gens : \A i \in Nat \ {0} :
    i <= Len(stream[g]) /\ i <= Len(stream[h]) =>
      (stream[g][i] = stream[h][i] <=> Start(origin[g]) = Start(origin[h]))

RInv ==
  TypeOK /\ NonZero /\ WholeWords /\ BytesNotAllZero /\ StateIsLast /\ Chained
    /\ StartDecidesStream

\* Wrapping addition stays within 64 bits.
LEMMA AddType ==
  ASSUME NEW x, NEW y
  PROVE  Add(x, y) \in Word
BY DEF Add, Word

\* A fresh generator has a 64-bit state that is not zero.
LEMMA StartType ==
  ASSUME NEW o \in Origin
  PROVE  Start(o) \in Word /\ Start(o) # {}
<1>1. 0 \in GOLDEN /\ 0 \in DEADBEEF
  BY DEF GOLDEN, DEADBEEF, Hex, Bit
<1>2. GOLDEN \in Word /\ DEADBEEF \in Word
  BY DEF GOLDEN, DEADBEEF, Hex, Word
<1>3. CASE o \in [kind : {"time"}, ms : 0 .. MsSize - 1]
  <2>1. PICK seed \in Word : time_seed(o.ms) = IF seed = {} THEN DEADBEEF ELSE seed
    BY AddType, SMT DEF time_seed
  <2>2. o.kind = "time"
    BY <1>3
  <2> QED BY <1>1, <1>2, <2>1, <2>2, SMT DEF Start
<1>4. CASE o \in [kind : {"seed"}, seed : Seeds]
  <2>1. o.kind = "seed" /\ o.seed \in Word
    BY <1>4, MathRngAssumption
  <2> QED BY <1>1, <1>2, <2>1 DEF Start, from_seed
<1> QED BY <1>3, <1>4 DEF Origin

\* The milliseconds of any clock are in range.
LEMMA TimestampType ==
  ASSUME NEW t \in Clocks
  PROVE  timestamp(t) \in 0 .. MsSize - 1
<1>1. t.secs \in Int /\ t.nanos \in Int /\ MsSize \in Nat /\ MsSize > 0
  <2>1. Clocks \subseteq SystemTime /\ MsSize \in Nat \ {0}
    BY MathRngAssumption
  <2>2. t \in SystemTime
    BY <2>1
  <2> QED BY <2>1, <2>2, SMT DEF SystemTime
<1>2. \A k \in Int : k % MsSize \in 0 .. MsSize - 1
  BY <1>1, SMT
<1> DEFINE k == t.secs * 1000 + t.nanos \div 1000000
<1>3. k \in Int
  BY <1>1, SMT
<1>4. timestamp(t) = IF t.secs < 0 THEN 0 ELSE k % MsSize
  BY SMT DEF timestamp
<1> HIDE DEF k
<1> QED BY <1>1, <1>2, <1>3, <1>4

\* The first n bytes of eight.
LEMMA FirstBytes ==
  ASSUME NEW S, NEW f \in [1 .. 8 -> S], NEW n \in 1 .. 8
  PROVE  /\ SubSeq(f, 1, n) \in Seq(S) /\ Len(SubSeq(f, 1, n)) = n
         /\ \A k \in 1 .. n : SubSeq(f, 1, n)[k] = f[k]
<1>1. f \in Seq(S)
  BY SeqDef
<1>2. Len(f) \in Nat /\ 1 .. Len(f) = 1 .. 8
  BY <1>1, LenProperties
<1>3. Len(f) = 8
  BY <1>2
<1> QED BY <1>1, <1>3

\* A word that is not zero has a byte that is not zero.
LEMMA BytesNonZero ==
  ASSUME NEW x \in Word, x # {}
  PROVE  /\ to_le_bytes(x) \in [1 .. 8 -> SUBSET (0 .. 7)]
         /\ \E k \in 1 .. 8 : to_le_bytes(x)[k] # {}
<1>1. to_le_bytes(x) \in [1 .. 8 -> SUBSET (0 .. 7)]
  BY DEF to_le_bytes
<1>2. PICK i \in Bit : i \in x
  BY DEF Word
<1>3. (i \div 8) + 1 \in 1 .. 8 /\ i % 8 \in 0 .. 7 /\ 8 * (((i \div 8) + 1) - 1) + (i % 8) = i
  BY DEF Bit
<1>4. i % 8 \in to_le_bytes(x)[(i \div 8) + 1]
  BY <1>2, <1>3 DEF to_le_bytes
<1> QED BY <1>1, <1>3, <1>4

\* A generator is made: the action of either constructor.
LEMMA CreateKeepsInv ==
  ASSUME RInv, NEW g \in Gens, NEW from \in Origin, Create(g, from, Start(from))
  PROVE  RInv'
<1>1. /\ origin[g] = None /\ origin' = [origin EXCEPT ![g] = from]
      /\ state' = [state EXCEPT ![g] = Start(from)]
      /\ clock' = clock /\ left' = left /\ dst' = dst /\ stream' = stream
  BY DEF Create
<1>2. ~Made(g) /\ Made(g)'
  BY <1>1 DEF Made, None, Origin, RInv, TypeOK
<1>3. stream[g] = <<>> /\ left[g] = 0
  BY <1>2 DEF RInv, TypeOK, StateIsLast, WholeWords
<1>4. \A h \in Gens \ {g} : origin'[h] = origin[h] /\ state'[h] = state[h]
  BY <1>1 DEF RInv, TypeOK
<1>5. origin'[g] = from /\ state'[g] = Start(from) /\ Start(from) \in Word
      /\ Start(from) # {}
  BY <1>1, StartType DEF RInv, TypeOK
<1>6. TypeOK'
  BY <1>1, <1>5 DEF RInv, TypeOK
<1>7. NonZero' /\ WholeWords' /\ BytesNotAllZero'
  BY <1>1, <1>2, <1>3, <1>4, <1>5 DEF RInv, NonZero, WholeWords, BytesNotAllZero, Made
<1>8. StateIsLast'
  BY <1>1, <1>3, <1>4, <1>5 DEF RInv, StateIsLast, Made
<1>9. Chained'
  BY <1>1, <1>3, <1>4 DEF RInv, Chained
<1>10. StartDecidesStream'
  BY <1>1, <1>3, <1>4 DEF RInv, StartDecidesStream
<1> QED BY <1>6, <1>7, <1>8, <1>9, <1>10 DEF RInv

\* A word is drawn.
LEMMA DrawKeepsInv ==
  ASSUME RInv, NEW g \in Gens, Draw(g)
  PROVE  RInv'
<1> DEFINE x == next(state[g])
           n == Min({8, left[g]})
<1>1. /\ left[g] > 0 /\ state' = [state EXCEPT ![g] = x]
      /\ dst' = [dst EXCEPT ![g] = @ \o SubSeq(to_le_bytes(x), 1, n)]
      /\ left' = [left EXCEPT ![g] = @ - n]
      /\ stream' = [stream EXCEPT ![g] = Append(@, x)]
      /\ clock' = clock /\ origin' = origin
  BY DEF Draw
<1>2. Made(g) /\ left[g] \in Nat /\ (dst[g] = <<>> \/ Len(dst[g]) >= 8)
  BY <1>1 DEF RInv, WholeWords, TypeOK
<1>3. x \in Word /\ x # {}
  <2>1. state[g] \in Word /\ state[g] # {}
    BY <1>2 DEF RInv, TypeOK, NonZero
  <2> QED BY <2>1, NextType, NextNonZero
<1>4. n \in 1 .. 8 /\ n <= left[g] /\ (n < 8 => n = left[g])
  <2>1. n = IF left[g] < 8 THEN left[g] ELSE 8
    BY <1>2 DEF Min
  <2> QED BY <1>1, <1>2, <2>1
<1> HIDE DEF x, n
<1> DEFINE b == SubSeq(to_le_bytes(x), 1, n)
<1>5. /\ b \in Seq(SUBSET (0 .. 7)) /\ Len(b) = n
      /\ \A k \in 1 .. n : b[k] = to_le_bytes(x)[k]
  <2>1. to_le_bytes(x) \in [1 .. 8 -> SUBSET (0 .. 7)]
    BY <1>3, BytesNonZero
  <2> QED BY <1>4, <2>1, FirstBytes
<1>6. n = 8 => \E k \in 1 .. 8 : b[k] # {}
  BY <1>3, <1>5, BytesNonZero
<1> HIDE DEF b
<1>7. \A h \in Gens \ {g} : /\ state'[h] = state[h] /\ dst'[h] = dst[h]
                             /\ left'[h] = left[h] /\ stream'[h] = stream[h]
  BY <1>1 DEF RInv, TypeOK
<1>8. /\ state'[g] = x /\ dst'[g] = dst[g] \o b /\ left'[g] = left[g] - n
      /\ stream'[g] = Append(stream[g], x)
  BY <1>1 DEF RInv, TypeOK, b
<1>9. dst[g] \in Seq(SUBSET (0 .. 7)) /\ stream[g] \in Seq(Word)
  BY DEF RInv, TypeOK
<1>10. TypeOK'
  <2>1. dst'[g] \in Seq(SUBSET (0 .. 7)) /\ stream'[g] \in Seq(Word)
    <3>1. Append(stream[g], x) \in Seq(Word)
      BY <1>3, <1>9
    <3>2. dst[g] \o b \in Seq(SUBSET (0 .. 7))
      BY <1>5, <1>9
    <3> QED BY <1>8, <3>1, <3>2
  <2>2. left'[g] \in Nat
    BY <1>2, <1>4, <1>8
  <2> QED BY <1>1, <1>3, <2>1, <2>2, <1>8 DEF RInv, TypeOK, b
<1>11. NonZero'
  BY <1>1, <1>3, <1>7, <1>8 DEF RInv, NonZero, Made
<1>12. Len(dst'[g]) = Len(dst[g]) + n
  <2>1. Len(dst[g] \o b) = Len(dst[g]) + Len(b)
    <3>1. ASSUME NEW S, NEW p \in Seq(S), NEW q \in Seq(S) PROVE Len(p \o q) = Len(p) + Len(q)
      OBVIOUS
    <3> QED BY <1>5, <1>9, <3>1, Zenon
  <2> QED BY <1>5, <1>8, <2>1, Zenon
<1>13. WholeWords'
  <2>1. left'[g] > 0 => Len(dst'[g]) >= 8
    BY <1>2, <1>4, <1>8, <1>9, <1>12
  <2> QED BY <1>1, <1>2, <1>7, <2>1 DEF RInv, WholeWords, Made
<1>14. BytesNotAllZero'
  <2>1. ASSUME Len(dst'[g]) >= 8 PROVE \E k \in 1 .. 8 : dst'[g][k] # {}
    <3>1. CASE dst[g] = <<>>
      <4>1. n = 8 /\ dst'[g] = b
        BY <1>4, <1>5, <1>8, <1>12, <2>1, <3>1
      <4> QED BY <1>6, <4>1
    <3>2. CASE Len(dst[g]) >= 8
      <4>1. \A k \in 1 .. 8 : dst'[g][k] = dst[g][k]
        BY <1>5, <1>8, <1>9, <3>2
      <4> QED BY <3>2, <4>1 DEF RInv, BytesNotAllZero
    <3> QED BY <1>2, <3>1, <3>2
  <2> QED BY <1>7, <2>1 DEF RInv, BytesNotAllZero
<1> DEFINE l == Len(stream[g])
<1>15. /\ l \in Nat /\ Len(stream'[g]) = l + 1 /\ stream'[g][l + 1] = x
       /\ \A i \in 1 .. l : stream'[g][i] = stream[g][i] /\ stream[g][i] \in Word
       /\ stream'[g] # <<>>
  BY <1>3, <1>8, <1>9
<1>16. StateIsLast'
  BY <1>1, <1>2, <1>7, <1>8, <1>15 DEF RInv, StateIsLast, Made
<1>17. x = IF l = 0 THEN next(Start(origin[g])) ELSE next(stream[g][l])
  BY <1>2, <1>9 DEF RInv, StateIsLast, x
<1>18. Chained'
  <2>1. ASSUME NEW i \in 1 .. Len(stream'[g])
        PROVE  stream'[g][i] = IF i = 1 THEN next(Start(origin[g]))
                                        ELSE next(stream'[g][i - 1])
    <3>1. CASE i = l + 1
      BY <1>15, <1>17, <3>1
    <3>2. CASE i <= l
      BY <1>15, <2>1, <3>2 DEF RInv, Chained
    <3> QED BY <1>15, <2>1, <3>1, <3>2
  <2> QED BY <1>1, <1>7, <2>1 DEF RInv, Chained
<1>19. \A h \in Gens \ {g} : l + 1 <= Len(stream[h]) =>
         (x = stream[h][l + 1] <=> Start(origin[g]) = Start(origin[h]))
  <2> SUFFICES ASSUME NEW h \in Gens \ {g}, l + 1 <= Len(stream[h])
               PROVE  x = stream[h][l + 1] <=> Start(origin[g]) = Start(origin[h])
    OBVIOUS
  <2>1. /\ stream[h] \in Seq(Word) /\ Len(stream[h]) \in Nat /\ l + 1 \in 1 .. Len(stream[h])
        /\ Made(h)
    BY <1>15 DEF RInv, TypeOK, StateIsLast
  <2>2. stream[h][l + 1] = IF l + 1 = 1 THEN next(Start(origin[h])) ELSE next(stream[h][l])
    BY <1>15, <2>1 DEF RInv, Chained
  <2>3. Start(origin[g]) \in Word /\ Start(origin[h]) \in Word
    BY <1>2, <2>1, StartType DEF Made
  <2>4. CASE l = 0
    BY <1>17, <2>2, <2>3, <2>4, NextInjective
  <2>5. CASE l > 0
    <3>1. stream[g][l] \in Word /\ stream[h][l] \in Word
      BY <1>15, <2>1, <2>5
    <3>2. stream[g][l] = stream[h][l] <=> Start(origin[g]) = Start(origin[h])
      <4>1. l \in Nat \ {0} /\ l <= Len(stream[g]) /\ l <= Len(stream[h])
        BY <1>15, <2>1, <2>5
      <4> QED BY <4>1, Zenon DEF RInv, StartDecidesStream
    <3>3. x = next(stream[g][l]) /\ stream[h][l + 1] = next(stream[h][l])
      BY <1>15, <1>17, <2>2, <2>5
    <3> QED BY <3>1, <3>2, <3>3, NextInjective
  <2> QED BY <1>15, <2>4, <2>5
<1>20. StartDecidesStream'
  <2> SUFFICES ASSUME NEW f \in Gens, NEW h \in Gens, NEW i \in Nat \ {0},
                      i <= Len(stream'[f]), i <= Len(stream'[h])
               PROVE  stream'[f][i] = stream'[h][i] <=> Start(origin[f]) = Start(origin[h])
    BY <1>1 DEF StartDecidesStream
  <2>1. CASE f = h
    BY <2>1
  <2>2. CASE f # g /\ h # g
    BY <1>7, <2>2 DEF RInv, StartDecidesStream
  <2>3. CASE f = g /\ h # g
    <3>1. stream'[h] = stream[h]
      BY <1>7, <2>3
    <3>2. CASE i = l + 1
      BY <1>15, <1>19, <2>3, <3>1, <3>2
    <3>3. CASE i <= l
      BY <1>15, <2>3, <3>1, <3>3 DEF RInv, StartDecidesStream
    <3> QED BY <1>15, <2>3, <3>2, <3>3
  <2>4. CASE f # g /\ h = g
    <3>1. stream'[f] = stream[f]
      BY <1>7, <2>4
    <3>2. CASE i = l + 1
      BY <1>15, <1>19, <2>4, <3>1, <3>2
    <3>3. CASE i <= l
      BY <1>15, <2>4, <3>1, <3>3 DEF RInv, StartDecidesStream
    <3> QED BY <1>15, <2>4, <3>2, <3>3
  <2> QED BY <2>1, <2>2, <2>3, <2>4
<1> QED BY <1>10, <1>11, <1>13, <1>14, <1>16, <1>18, <1>20 DEF RInv

\* The invariant holds after any number of reads of any sizes.
THEOREM MathRngInvariance == Spec => []RInv
<1>1. Init => RInv
  BY DEF Init, RInv, TypeOK, NonZero, WholeWords, BytesNotAllZero, StateIsLast,
         Chained, StartDecidesStream, Made, Origin, None, Word
<1>2. RInv /\ [Next]_rngVars => RInv'
  <2> SUFFICES ASSUME RInv, [Next]_rngVars PROVE RInv'
    OBVIOUS
  <2>1. CASE Tick \/ UNCHANGED rngVars
    <3>1. /\ clock' \in Clocks /\ state' = state /\ left' = left /\ dst' = dst
          /\ origin' = origin /\ stream' = stream
      BY <2>1 DEF Tick, rngVars, RInv, TypeOK
    <3>2. TypeOK'
      BY <3>1 DEF RInv, TypeOK
    <3>3. NonZero' /\ WholeWords' /\ BytesNotAllZero'
      BY <3>1 DEF RInv, NonZero, WholeWords, BytesNotAllZero, Made
    <3>4. StateIsLast' /\ Chained' /\ StartDecidesStream'
      BY <3>1 DEF RInv, StateIsLast, Chained, StartDecidesStream, Made
    <3> QED BY <3>2, <3>3, <3>4 DEF RInv
  <2>2. ASSUME NEW g \in Gens, NewFromTime(g) PROVE RInv'
    <3>1. timestamp(clock) \in 0 .. MsSize - 1
      BY TimestampType DEF RInv, TypeOK
    <3>2. FromTime(timestamp(clock)) \in Origin
          /\ Start(FromTime(timestamp(clock))) = time_seed(timestamp(clock))
      BY <3>1 DEF FromTime, Origin, Start
    <3> QED BY <2>2, <3>2, CreateKeepsInv DEF NewFromTime
  <2>3. ASSUME NEW g \in Gens, NewFromSeed(g) PROVE RInv'
    <3>1. PICK seed \in Seeds : Create(g, FromSeed(seed), from_seed(seed))
      BY <2>3 DEF NewFromSeed
    <3>2. FromSeed(seed) \in Origin /\ Start(FromSeed(seed)) = from_seed(seed)
      BY DEF FromSeed, Origin, Start
    <3> QED BY <3>1, <3>2, CreateKeepsInv
  <2>4. ASSUME NEW g \in Gens, StartRead(g) PROVE RInv'
    <3>1. PICK n \in Sizes : left' = [left EXCEPT ![g] = n]
      BY <2>4 DEF StartRead
    <3>2. n \in Nat /\ origin[g] # None /\ dst' = [dst EXCEPT ![g] = <<>>]
          /\ clock' = clock /\ state' = state /\ origin' = origin /\ stream' = stream
      BY <2>4, MathRngAssumption DEF StartRead
    <3>3. origin[g] \in Origin
      BY <3>2 DEF None, RInv, TypeOK
    <3>4. \A h \in Gens \ {g} : left'[h] = left[h] /\ dst'[h] = dst[h]
      BY <3>1, <3>2 DEF RInv, TypeOK
    <3>5. left'[g] = n /\ dst'[g] = <<>>
      BY <3>1, <3>2 DEF RInv, TypeOK
    <3>6. TypeOK'
      BY <3>1, <3>2 DEF RInv, TypeOK
    <3>7. WholeWords' /\ BytesNotAllZero'
      BY <3>2, <3>3, <3>4, <3>5 DEF RInv, WholeWords, BytesNotAllZero, Made
    <3> QED BY <3>2, <3>6, <3>7 DEF RInv, NonZero, StateIsLast, Chained,
                                    StartDecidesStream, Made
  <2>5. ASSUME NEW g \in Gens, Draw(g) PROVE RInv'
    BY <2>5, DrawKeepsInv
  <2> QED BY <2>1, <2>2, <2>3, <2>4, <2>5 DEF Next
<1> QED BY <1>1, <1>2, PTL DEF Spec

\* No shift or sum leaves 64 bits.
THEOREM MathRngTypeCorrect == Spec => []TypeOK
BY MathRngInvariance, PTL DEF RInv

\* The first eight bytes of a read are never all zero.
THEOREM NeverAllZero == Spec => []BytesNotAllZero
BY MathRngInvariance, PTL DEF RInv

\* Two generators agree at a position exactly when they started alike.
THEOREM StreamsByStart == Spec => []StartDecidesStream
BY MathRngInvariance, PTL DEF RInv

-----------------------------------------------------------------------------
(* Different times give different starts.                                  *)

\* The bits of n, from those of its half, g[n \div 2].
BitsFrom(g, n) ==
  IF n = 0 THEN {} ELSE {i + 1 : i \in g[n \div 2]} \cup (IF n % 2 = 1 THEN {0} ELSE {})

\* f gives the bits of the numbers up to n.
BitsUpTo(f, n) == f = [k \in 0 .. n |-> BitsFrom(f, k)]

LEMMA SameHalf ==
  ASSUME NEW f, NEW g, NEW n \in Nat, n = 0 \/ f[n \div 2] = g[n \div 2]
  PROVE  BitsFrom(f, n) = BitsFrom(g, n)
BY Zenon DEF BitsFrom

LEMMA HalfIsLess ==
  ASSUME NEW n \in Nat, n # 0
  PROVE  n \div 2 \in Nat /\ n \div 2 < n
OBVIOUS

LEMMA UpToExists == \A n \in Nat : \E f : BitsUpTo(f, n)
<1> DEFINE S == {n \in Nat : ~\E f : BitsUpTo(f, n)}
<1> SUFFICES ASSUME S # {} PROVE FALSE
  BY Zenon
<1>1. PICK m \in S : \A i \in S : m <= i
  BY Least, Zenon
<1>2. m \in Nat /\ ~\E f : BitsUpTo(f, m)
  BY Zenon
<1>3. CASE m = 0
  <2> DEFINE f == [k \in 0 .. 0 |-> {}]
  <2>1. \A k \in 0 .. 0 : BitsFrom(f, k) = {}
    BY DEF BitsFrom
  <2>2. BitsUpTo(f, 0)
    BY <2>1, Zenon DEF BitsUpTo
  <2> QED BY <1>2, <1>3, <2>2, Zenon
<1>4. CASE m # 0
  <2>1. m - 1 \in Nat /\ m - 1 \notin S
    BY <1>1, <1>2, <1>4
  <2>2. PICK f : BitsUpTo(f, m - 1)
    BY <2>1, Zenon
  <2> DEFINE h == [k \in 0 .. m |-> BitsFrom(f, k)]
  <2>3. ASSUME NEW k \in 0 .. m PROVE BitsFrom(h, k) = BitsFrom(f, k)
    <3>1. k \in Nat /\ k <= m
      BY <1>2
    <3>2. ASSUME k # 0 PROVE h[k \div 2] = f[k \div 2]
      <4>1. k \div 2 \in 0 .. m /\ k \div 2 \in 0 .. m - 1
        BY <1>2, <3>1, <3>2, HalfIsLess
      <4>2. f[k \div 2] = BitsFrom(f, k \div 2)
        BY <2>2, <4>1, Zenon DEF BitsUpTo
      <4> QED BY <4>1, <4>2, Zenon
    <3> HIDE DEF h
    <3> QED BY <3>1, <3>2, SameHalf, Zenon
  <2>4. BitsUpTo(h, m)
    BY <2>3, Zenon DEF BitsUpTo
  <2> QED BY <1>2, <2>4, Zenon
<1> QED BY <1>3, <1>4

LEMMA UpToAgree ==
  ASSUME NEW f, NEW g, NEW m \in Nat, NEW n \in Nat, BitsUpTo(f, m), BitsUpTo(g, n)
  PROVE  \A k \in Nat : k <= m /\ k <= n => f[k] = g[k]
<1> DEFINE S == {k \in Nat : k <= m /\ k <= n /\ f[k] # g[k]}
<1> SUFFICES ASSUME S # {} PROVE FALSE
  BY Zenon
<1>1. PICK l \in S : \A i \in S : l <= i
  BY Least, Zenon
<1>2. l \in Nat /\ l <= m /\ l <= n /\ f[l] # g[l]
  BY Zenon
<1>3. l = 0 \/ f[l \div 2] = g[l \div 2]
  <2> SUFFICES ASSUME l # 0 PROVE f[l \div 2] = g[l \div 2]
    OBVIOUS
  <2>1. l \div 2 \in Nat /\ l \div 2 < l
    BY <1>2, HalfIsLess
  <2>2. l \div 2 \notin S /\ l \div 2 <= m /\ l \div 2 <= n
    BY <1>1, <1>2, <2>1
  <2> QED BY <2>1, <2>2, Zenon
<1>4. BitsFrom(f, l) = BitsFrom(g, l)
  BY <1>2, <1>3, SameHalf, Zenon
<1>5. l \in 0 .. m /\ l \in 0 .. n
  BY <1>2
<1>6. f[l] = BitsFrom(f, l) /\ g[l] = BitsFrom(g, l)
  BY <1>5, Zenon DEF BitsUpTo
<1> QED BY <1>2, <1>4, <1>6

\* The recursive definition of Bits has a solution, so that it is one.
LEMMA BitsIs == \A n \in Nat : Bits[n] = BitsFrom(Bits, n)
<1> DEFINE A(n) == CHOOSE f : BitsUpTo(f, n)
           F == [n \in Nat |-> A(n)[n]]
<1>1. \A n \in Nat : BitsUpTo(A(n), n)
  BY UpToExists, Zenon
<1>2. ASSUME NEW n \in Nat PROVE F[n] = BitsFrom(F, n)
  <2>1. A(n)[n] = BitsFrom(A(n), n)
    <3>1. n \in 0 .. n
      OBVIOUS
    <3> QED BY <1>1, <3>1, Zenon DEF BitsUpTo
  <2>2. ASSUME n # 0 PROVE A(n)[n \div 2] = F[n \div 2]
    <3>1. n \div 2 \in Nat /\ n \div 2 <= n /\ n \div 2 <= n \div 2
      BY <2>2, HalfIsLess
    <3>2. BitsUpTo(A(n), n) /\ BitsUpTo(A(n \div 2), n \div 2)
      BY <1>1, <3>1, Zenon
    <3> HIDE DEF A
    <3>3. A(n)[n \div 2] = A(n \div 2)[n \div 2]
      BY <3>1, <3>2, UpToAgree, Zenon
    <3> QED BY <3>1, <3>3, Zenon
  <2> HIDE DEF A, F
  <2>3. BitsFrom(A(n), n) = BitsFrom(F, n)
    BY <2>2, SameHalf, Zenon
  <2>4. F[n] = A(n)[n]
    BY Zenon DEF F
  <2> QED BY <2>1, <2>3, <2>4, Zenon
<1>3. F = [n \in Nat |-> BitsFrom(F, n)]
  <2> HIDE DEF A
  <2>1. F = [n \in Nat |-> A(n)[n]] /\ \A n \in Nat : A(n)[n] = F[n]
    BY Zenon
  <2> HIDE DEF F
  <2>2. \A n \in Nat : A(n)[n] = BitsFrom(F, n)
    BY <1>2, <2>1, Zenon
  <2> QED BY <2>1, <2>2, Zenon
<1>4. Bits = CHOOSE g : g = [n \in Nat |-> BitsFrom(g, n)]
  BY Zenon DEF Bits, BitsFrom
<1> HIDE DEF F
<1>5. Bits = [n \in Nat |-> BitsFrom(Bits, n)]
  BY <1>3, <1>4, Zenon
<1> QED BY <1>5, Zenon

\* Bit 0 of n is its parity, and the bits above it are those of its half.
LEMMA BitsParts ==
  ASSUME NEW n \in Nat
  PROVE  /\ Bits[n] \subseteq Nat
         /\ 0 \in Bits[n] <=> n % 2 = 1
         /\ \A i \in Nat : i + 1 \in Bits[n] <=> i \in Bits[n \div 2]
<1> DEFINE S == {k \in Nat : ~(Bits[k] \subseteq Nat)}
<1>1. S = {}
  <2> SUFFICES ASSUME S # {} PROVE FALSE
    BY Zenon
  <2>1. PICK m \in S : \A i \in S : m <= i
    BY Least, Zenon
  <2>2. m \in Nat /\ ~(Bits[m] \subseteq Nat) /\ Bits[m] = BitsFrom(Bits, m)
    BY BitsIs, Zenon
  <2>3. m # 0
    BY <2>2, Zenon DEF BitsFrom
  <2>4. Bits[m \div 2] \subseteq Nat
    BY <2>1, <2>2, <2>3, HalfIsLess
  <2>5. {i + 1 : i \in Bits[m \div 2]} \subseteq Nat /\ {0} \subseteq Nat
    BY <2>4
  <2> QED BY <2>2, <2>3, <2>5 DEF BitsFrom
<1>2. Bits[n] \subseteq Nat
  BY <1>1, Zenon
<1>3. Bits[n] = BitsFrom(Bits, n)
  BY BitsIs
<1>4. CASE n = 0
  <2>1. n % 2 = 0 /\ n \div 2 = 0
    BY <1>4
  <2>2. Bits[n] = {} /\ Bits[n \div 2] = {}
    BY <1>3, <1>4, <2>1, Zenon DEF BitsFrom
  <2> QED BY <1>2, <2>1, <2>2
<1>5. CASE n # 0
  <2> DEFINE H == Bits[n \div 2]
             P == IF n % 2 = 1 THEN {0} ELSE {}
  <2>1. n \div 2 \in Nat
    OBVIOUS
  <2>2. H \subseteq Nat
    BY <1>1, <2>1, Zenon
  <2>3. Bits[n] = {i + 1 : i \in H} \cup P
    BY <1>3, <1>5, Zenon DEF BitsFrom
  <2>4. 0 \in P <=> n % 2 = 1
    BY Zenon
  <2>5. \A i \in Nat : i + 1 \notin P
    OBVIOUS
  <2> HIDE DEF H, P
  <2>6. 0 \notin {i + 1 : i \in H}
    BY <2>2
  <2>7. \A i \in Nat : i + 1 \in {k + 1 : k \in H} <=> i \in H
    BY <2>2
  <2>8. 0 \in Bits[n] <=> n % 2 = 1
    BY <2>3, <2>4, <2>6, Zenon
  <2>9. \A i \in Nat : i + 1 \in Bits[n] <=> i \in H
    BY <2>3, <2>5, <2>7, Zenon
  <2> QED BY <1>2, <2>8, <2>9 DEF H
<1> QED BY <1>4, <1>5

\* A number is known by its bits.
LEMMA BitsInjective ==
  ASSUME NEW a \in Nat, NEW b \in Nat, Bits[a] = Bits[b]
  PROVE  a = b
<1> DEFINE S == {n \in Nat : \E m \in Nat : m < n /\ Bits[m] = Bits[n]}
<1>1. S = {}
  <2> SUFFICES ASSUME S # {} PROVE FALSE
    BY Zenon
  <2>1. PICK n \in S : \A i \in S : n <= i
    BY Least, Zenon
  <2>2. PICK m \in Nat : m < n /\ Bits[m] = Bits[n]
    BY Zenon
  <2>3. n \in Nat /\ m < n
    BY <2>2, Zenon
  <2>4. /\ m \div 2 \in Nat /\ n \div 2 \in Nat /\ n \div 2 < n /\ m \div 2 <= n \div 2
        /\ (m \div 2 = n \div 2 => m % 2 # n % 2) /\ m % 2 \in 0 .. 1 /\ n % 2 \in 0 .. 1
    BY <2>3
  <2>5. m % 2 = n % 2
    <3>1. m % 2 = 1 <=> n % 2 = 1
      BY <2>2, <2>3, BitsParts, Zenon
    <3> QED BY <2>4, <3>1
  <2>6. Bits[m \div 2] = Bits[n \div 2]
    <3>1. Bits[m \div 2] \subseteq Nat /\ Bits[n \div 2] \subseteq Nat
      BY <2>4, BitsParts, Zenon
    <3>2. \A i \in Nat : i \in Bits[m \div 2] <=> i \in Bits[n \div 2]
      BY <2>2, <2>3, BitsParts, Zenon
    <3> QED BY <3>1, <3>2, Zenon
  <2>7. m \div 2 < n \div 2
    BY <2>4, <2>5
  <2>8. n \div 2 \in S
    BY <2>4, <2>6, <2>7, Zenon
  <2>9. ~(n <= n \div 2)
    BY <2>3, <2>4
  <2> QED BY <2>1, <2>8, <2>9, Zenon
<1>2. ~(a < b) /\ ~(b < a)
  BY <1>1, Zenon
<1> QED BY <1>2

-----------------------------------------------------------------------------
\* Two words agree below bit p.
Same(x, u, p) == \A i \in Nat : i < p => (i \in x <=> i \in u)

\* A carry comes into bit i of x + y.
CarryIn(x, y, i) ==
  \E j \in 0 .. i - 1 : j \in x \cap y /\ j + 1 .. i - 1 \subseteq x \cup y

LEMMA SameCarry ==
  ASSUME NEW x, NEW y, NEW u, NEW v, NEW p \in Nat, Same(x, u, p), Same(y, v, p),
         NEW i \in Nat, i <= p, CarryIn(x, y, i)
  PROVE  CarryIn(u, v, i)
<1>1. PICK j \in 0 .. i - 1 : j \in x \cap y /\ j + 1 .. i - 1 \subseteq x \cup y
  BY DEF CarryIn
<1>2. j \in u \cap v
  BY <1>1 DEF Same
<1>3. ASSUME NEW k \in j + 1 .. i - 1 PROVE k \in u \cup v
  <2>1. k \in Nat /\ k < p /\ k \in x \cup y
    BY <1>1, <1>3
  <2> QED BY <2>1, Zenon DEF Same
<1> QED BY <1>1, <1>2, <1>3 DEF CarryIn

\* A bit of a sum.
LEMMA SumBit ==
  ASSUME NEW x, NEW y, NEW i \in Bit
  PROVE  i \in Add(x, y) <=> ((i \in x <=> i \in y) <=> CarryIn(x, y, i))
<1>1. i \in Add(x, y) <=> (((i \in x) # (i \in y)) # CarryIn(x, y, i))
  BY Zenon DEF Add, CarryIn
<1>2. CarryIn(x, y, i) \in BOOLEAN
  BY Zenon DEF CarryIn
<1> QED BY <1>1, <1>2

\* The sums agree below p, and at p they differ if only the first terms do.
SumsAgree(x, y, u, v, p) ==
  /\ Same(Add(x, y), Add(u, v), p)
  /\ (p \in Bit /\ (p \in y <=> p \in v) /\ ~(p \in x <=> p \in u)) =>
       ~(p \in Add(x, y) <=> p \in Add(u, v))

LEMMA SameSum ==
  ASSUME NEW x, NEW y, NEW u, NEW v, NEW p \in Nat, Same(x, u, p), Same(y, v, p)
  PROVE  SumsAgree(x, y, u, v, p)
<1>1. Same(u, x, p) /\ Same(v, y, p)
  BY Zenon DEF Same
<1>2. \A i \in Nat : i <= p => (CarryIn(x, y, i) <=> CarryIn(u, v, i))
  BY <1>1, SameCarry, Zenon
<1>3. ASSUME NEW i \in Nat, i < p PROVE i \in Add(x, y) <=> i \in Add(u, v)
  <2>1. i <= p
    BY <1>3
  <2>2. CASE i \in Bit
    <3>1. (i \in x <=> i \in u) /\ (i \in y <=> i \in v)
      BY <1>3, Zenon DEF Same
    <3>2. CarryIn(x, y, i) <=> CarryIn(u, v, i)
      BY <1>2, <2>1, Zenon
    <3> QED BY <2>2, <3>1, <3>2, SumBit, Zenon
  <2>3. CASE i \notin Bit
    BY <2>3, Zenon DEF Add
  <2> QED BY <2>2, <2>3
<1>4. Same(Add(x, y), Add(u, v), p)
  BY <1>3, Zenon DEF Same
<1>5. ASSUME p \in Bit, p \in y <=> p \in v, ~(p \in x <=> p \in u)
      PROVE  ~(p \in Add(x, y) <=> p \in Add(u, v))
  <2>1. p <= p
    OBVIOUS
  <2>2. CarryIn(x, y, p) <=> CarryIn(u, v, p)
    BY <1>2, <2>1, Zenon
  <2> QED BY <1>5, <2>2, SumBit, Zenon
<1> QED BY <1>4, <1>5, Zenon DEF SumsAgree

\* Words that agree below bit m agree below bit m + k when shifted by k.
LEMMA SameShl ==
  ASSUME NEW x \in Word, NEW u \in Word, NEW m \in Nat, Same(x, u, m), NEW k \in Nat, NEW p \in Nat,
         p <= m + k
  PROVE  Same(Shl(x, k), Shl(u, k), p)
<1> SUFFICES ASSUME NEW i \in Nat, i < p PROVE i \in Shl(x, k) <=> i \in Shl(u, k)
  BY DEF Same
<1>1. i - k \in x <=> i - k \in u
  <2>1. CASE i - k \in Nat
    BY <2>1 DEF Same
  <2>2. CASE i - k \notin Nat
    BY <2>2 DEF Word, Bit
  <2> QED BY <2>1, <2>2
<1> QED BY <1>1, Zenon DEF Shl

LEMMA SameAdd ==
  ASSUME NEW x, NEW y, NEW u, NEW v, NEW p \in Nat, Same(x, u, p), Same(y, v, p)
  PROVE  Same(Add(x, y), Add(u, v), p)
<1>1. SumsAgree(x, y, u, v, p)
  BY SameSum, Zenon
<1> QED BY <1>1, Zenon DEF SumsAgree

\* The sum of six terms.
Six(a, b, c, d, e, f) == Add(a, Add(b, Add(c, Add(d, Add(e, f)))))

LEMMA SameSix ==
  ASSUME NEW p \in Nat,
         NEW a, NEW b, NEW c, NEW d, NEW e, NEW f, NEW r, NEW s, NEW t, NEW u, NEW v, NEW w,
         Same(a, r, p), Same(b, s, p), Same(c, t, p), Same(d, u, p), Same(e, v, p), Same(f, w, p)
  PROVE  Same(Six(a, b, c, d, e, f), Six(r, s, t, u, v, w), p)
<1>1. Same(Add(e, f), Add(v, w), p)
  BY SameAdd, Zenon
<1>2. Same(Add(d, Add(e, f)), Add(u, Add(v, w)), p)
  BY <1>1, SameAdd, Zenon
<1>3. Same(Add(c, Add(d, Add(e, f))), Add(t, Add(u, Add(v, w))), p)
  BY <1>2, SameAdd, Zenon
<1>4. Same(Add(b, Add(c, Add(d, Add(e, f)))), Add(s, Add(t, Add(u, Add(v, w)))), p)
  BY <1>3, SameAdd, Zenon
<1> QED BY <1>4, SameAdd, Zenon DEF Six

\* The product by a million, plus g, tells words below bit 58 apart: at the lowest
\* bit in which they differ, moved up by six.
LEMMA MillionInjective ==
  ASSUME NEW x \in Word, NEW u \in Word, x \subseteq 0 .. 57, u \subseteq 0 .. 57, NEW g,
         Add(MulMillion(x), g) = Add(MulMillion(u), g)
  PROVE  x = u
<1> DEFINE D == {i \in 0 .. 57 : ~(i \in x <=> i \in u)}
<1> SUFFICES ASSUME D # {} PROVE FALSE
  BY Zenon
<1>1. PICK m \in D : \A i \in D : m <= i
  <2>1. D \subseteq Nat
    OBVIOUS
  <2> HIDE DEF D
  <2> QED BY <2>1, Least, Zenon
<1>2. m \in Nat /\ m + 6 \in Nat /\ m + 6 \in Bit /\ m + 6 < m + 7 /\ m <= m /\ m + 6 <= m + 6
      /\ m + 6 - 6 = m /\ m \in 0 .. 57
  BY DEF Bit
<1>3. Same(x, u, m)
  <2> SUFFICES ASSUME NEW i \in Nat, i < m PROVE i \in x <=> i \in u
    BY DEF Same
  <2>1. i \in 0 .. 57 /\ ~(m <= i)
    BY <1>2
  <2> QED BY <1>1, <2>1, Zenon
<1> DEFINE T(z) == Six(Shl(z, 9), Shl(z, 14), Shl(z, 16), Shl(z, 17), Shl(z, 18), Shl(z, 19))
<1>4. MulMillion(x) = Add(Shl(x, 6), T(x)) /\ MulMillion(u) = Add(Shl(u, 6), T(u))
  BY DEF MulMillion, Six
<1>5. Same(T(x), T(u), m + 7)
  <2>1. m + 7 \in Nat /\ \A k \in {9, 14, 16, 17, 18, 19} : k \in Nat /\ m + 7 <= m + k
    BY <1>2
  <2>2. \A k \in {9, 14, 16, 17, 18, 19} : Same(Shl(x, k), Shl(u, k), m + 7)
    BY <1>2, <1>3, <2>1, SameShl, Zenon
  <2>3. /\ Same(Shl(x, 9), Shl(u, 9), m + 7) /\ Same(Shl(x, 14), Shl(u, 14), m + 7)
        /\ Same(Shl(x, 16), Shl(u, 16), m + 7) /\ Same(Shl(x, 17), Shl(u, 17), m + 7)
        /\ Same(Shl(x, 18), Shl(u, 18), m + 7) /\ Same(Shl(x, 19), Shl(u, 19), m + 7)
    BY <2>2
  <2> QED BY <2>1, <2>3, SameSix
<1> HIDE DEF T
<1>6. Same(T(x), T(u), m + 6) /\ (m + 6 \in T(x) <=> m + 6 \in T(u))
  <2>1. \A i \in Nat : i < m + 6 => i < m + 7
    BY <1>2
  <2> QED BY <1>2, <1>5, <2>1, Zenon DEF Same
<1>7. Same(Shl(x, 6), Shl(u, 6), m + 6)
  <2>1. 6 \in Nat
    OBVIOUS
  <2> QED BY <1>2, <1>3, <2>1, SameShl
<1>8. ~(m + 6 \in Shl(x, 6) <=> m + 6 \in Shl(u, 6))
  <2>1. ~(m \in x <=> m \in u)
    BY Zenon
  <2> QED BY <1>2, <2>1 DEF Shl
<1>9. /\ Same(MulMillion(x), MulMillion(u), m + 6)
      /\ ~(m + 6 \in MulMillion(x) <=> m + 6 \in MulMillion(u))
  <2>1. SumsAgree(Shl(x, 6), T(x), Shl(u, 6), T(u), m + 6)
    BY <1>2, <1>6, <1>7, SameSum, Zenon
  <2> QED BY <1>2, <1>4, <1>6, <1>8, <2>1, Zenon DEF SumsAgree
<1>10. Same(g, g, m + 6) /\ (m + 6 \in g <=> m + 6 \in g)
  BY Zenon DEF Same
<1>11. ~(m + 6 \in Add(MulMillion(x), g) <=> m + 6 \in Add(MulMillion(u), g))
  <2>1. SumsAgree(MulMillion(x), g, MulMillion(u), g, m + 6)
    BY <1>2, <1>9, <1>10, SameSum, Zenon
  <2> QED BY <1>2, <1>9, <1>10, <2>1, Zenon DEF SumsAgree
<1> QED BY <1>11, Zenon

\* The seed made from the time is odd, so the replacement for zero is never used.
LEMMA SeedIsOdd ==
  ASSUME NEW x \in Word
  PROVE  0 \in Add(MulMillion(x), GOLDEN)
<1>1. \A a, b : 0 \in Add(a, b) <=> ~(0 \in a <=> 0 \in b)
  <2> SUFFICES ASSUME NEW a, NEW b PROVE 0 \in Add(a, b) <=> ~(0 \in a <=> 0 \in b)
    OBVIOUS
  <2>1. ~CarryIn(a, b, 0)
    BY DEF CarryIn
  <2>2. 0 \in Bit
    BY DEF Bit
  <2> QED BY <2>1, <2>2, SumBit, Zenon
<1>2. \A k \in {6, 9, 14, 16, 17, 18, 19} : 0 \notin Shl(x, k)
  BY DEF Shl, Word, Bit
<1>3. 0 \notin Shl(x, 6) /\ 0 \notin Shl(x, 9) /\ 0 \notin Shl(x, 14) /\ 0 \notin Shl(x, 16)
      /\ 0 \notin Shl(x, 17) /\ 0 \notin Shl(x, 18) /\ 0 \notin Shl(x, 19)
  BY <1>2
<1>4. 0 \notin MulMillion(x)
  <2>1. 0 \notin Six(Shl(x, 9), Shl(x, 14), Shl(x, 16), Shl(x, 17), Shl(x, 18), Shl(x, 19))
    BY <1>1, <1>3 DEF Six
  <2>2. MulMillion(x) = Add(Shl(x, 6),
          Six(Shl(x, 9), Shl(x, 14), Shl(x, 16), Shl(x, 17), Shl(x, 18), Shl(x, 19)))
    BY DEF MulMillion, Six
  <2> QED BY <1>1, <1>3, <2>1, <2>2
<1>5. 0 \in GOLDEN
  BY DEF GOLDEN, Hex, Bit
<1> QED BY <1>1, <1>4, <1>5, Zenon

\* What new_from_time starts from, for a time below 2^58 milliseconds.
LEMMA TimeSeedIs ==
  ASSUME NEW ms \in Nat, Bits[ms] \subseteq 0 .. 57
  PROVE  Bits[ms] \in Word /\ time_seed(ms) = Add(MulMillion(Bits[ms]), GOLDEN)
<1>1. Bits[ms] \in Word
  BY DEF Word, Bit
<1>2. Add(MulMillion(Bits[ms]), GOLDEN) # {}
  BY <1>1, SeedIsOdd, Zenon
<1> QED BY <1>1, <1>2, Zenon DEF time_seed

\* Two generators of one kind start alike exactly when they have one origin.
LEMMA StartIsOrigin ==
  ASSUME NEW a \in Origin, NEW b \in Origin, a.kind = b.kind, Below58(a), Below58(b)
  PROVE  Start(a) = Start(b) <=> SameOrigin(a, b)
<1>1. CASE a.kind = "time"
  <2>1. /\ a = [kind |-> "time", ms |-> a.ms] /\ b = [kind |-> "time", ms |-> b.ms]
        /\ a.ms \in Nat /\ b.ms \in Nat
    <3>1. a \in [kind : {"time"}, ms : 0 .. MsSize - 1] /\ b \in [kind : {"time"}, ms : 0 .. MsSize - 1]
      BY <1>1 DEF Origin
    <3> QED BY <3>1, MathRngAssumption
  <2>2. Bits[a.ms] \subseteq 0 .. 57 /\ Bits[b.ms] \subseteq 0 .. 57
    BY <1>1, Zenon DEF Below58
  <2>3. Start(a) = time_seed(a.ms) /\ Start(b) = time_seed(b.ms)
    BY <1>1, Zenon DEF Start
  <2>4. Start(a) = Start(b) => a.ms = b.ms
    <3>1. Start(a) = Start(b) => Bits[a.ms] = Bits[b.ms]
      BY <2>1, <2>2, <2>3, TimeSeedIs, MillionInjective, Zenon
    <3> QED BY <2>1, <3>1, BitsInjective, Zenon
  <2>5. SameOrigin(a, b) <=> a = b
    BY <1>1 DEF SameOrigin
  <2>6. a.ms = b.ms => a = b
    BY <2>1, Zenon
  <2> QED BY <2>4, <2>5, <2>6, Zenon
<1>2. CASE a.kind = "seed"
  <2>1. /\ a = [kind |-> "seed", seed |-> a.seed] /\ b = [kind |-> "seed", seed |-> b.seed]
    <3>1. a \in [kind : {"seed"}, seed : Seeds] /\ b \in [kind : {"seed"}, seed : Seeds]
      BY <1>2 DEF Origin
    <3> QED BY <3>1
  <2>2. Start(a) = from_seed(a.seed) /\ Start(b) = from_seed(b.seed)
    BY <1>2 DEF Start
  <2>3. 0 \in GOLDEN
    BY DEF GOLDEN, Hex, Bit
  <2>4. Start(a) = Start(b) <=> a.seed = b.seed \/ {a.seed, b.seed} = {{}, GOLDEN}
    BY <2>2, <2>3 DEF from_seed
  <2>5. a.seed = b.seed <=> a = b
    BY <2>1, Zenon
  <2>6. SameOrigin(a, b) <=> a = b \/ {a.seed, b.seed} = {{}, GOLDEN}
    BY <1>2, Zenon DEF SameOrigin
  <2> QED BY <2>4, <2>5, <2>6, Zenon
<1>3. a.kind = "time" \/ a.kind = "seed"
  BY DEF Origin
<1> QED BY <1>1, <1>2, <1>3

\* Generators made in one millisecond, or from one seed, repeat each other, and all
\* others of their kind never agree at any position, for any number of generators,
\* any seeds and any clock below 2^58 milliseconds (new_from_time, from_seed, read).
THEOREM StreamsByOrigin == Spec => []OriginDecidesStream
<1>1. ASSUME RInv PROVE OriginDecidesStream
  <2> SUFFICES ASSUME NEW g \in Gens, NEW h \in Gens, origin[g].kind = origin[h].kind,
                      Below58(origin[g]), Below58(origin[h]),
                      NEW i \in 1 .. Min({Len(stream[g]), Len(stream[h])})
               PROVE  stream[g][i] = stream[h][i] <=> SameOrigin(origin[g], origin[h])
    BY Zenon DEF OriginDecidesStream
  <2>1. Len(stream[g]) \in Nat /\ Len(stream[h]) \in Nat
    BY <1>1, LenProperties DEF RInv, TypeOK
  <2>2. i \in Nat \ {0} /\ i <= Len(stream[g]) /\ i <= Len(stream[h])
    <3>1. PICK l \in Nat, k \in Nat : l = Len(stream[g]) /\ k = Len(stream[h])
      BY <2>1
    <3>2. Min({l, k}) = IF l < k THEN l ELSE k
      BY DEF Min
    <3>3. i \in 1 .. Min({l, k})
      BY <3>1
    <3>4. i \in Nat \ {0} /\ i <= l /\ i <= k
      BY <3>2, <3>3
    <3> QED BY <3>1, <3>4
  <2>3. stream[g][i] = stream[h][i] <=> Start(origin[g]) = Start(origin[h])
    BY <1>1, <2>2, Zenon DEF RInv, StartDecidesStream
  <2>4. origin[g] \in Origin /\ origin[h] \in Origin
    <3>1. stream[g] # <<>> /\ stream[h] # <<>>
      <4>1. Len(stream[g]) # 0 /\ Len(stream[h]) # 0
        BY <2>1, <2>2
      <4> QED BY <4>1, EmptySeq
    <3> QED BY <1>1, <3>1, Zenon DEF RInv, StateIsLast, Made
  <2> QED BY <2>3, <2>4, StartIsOrigin, Zenon
<1> QED BY <1>1, MathRngInvariance, PTL

\* A number below the modulus is its own remainder.
LEMMA SmallRemainder ==
  ASSUME NEW x \in Nat, NEW m \in Nat, x < m
  PROVE  x % m = x
OBVIOUS

\* Milliseconds and back: the clock without its fraction of a millisecond, for
\* every clock whose milliseconds fit.
THEOREM ClockIsCutToMs == Spec => []ClockRoundTrips
<1>1. ASSUME RInv PROVE ClockRoundTrips
  <2> SUFFICES ASSUME clock.secs * 1000 + clock.nanos \div 1000000 < MsSize
               PROVE  time_from_ms(timestamp(clock)) =
                        IF clock.secs < 0 THEN [secs |-> 0, nanos |-> 0]
                        ELSE [secs |-> clock.secs, nanos |-> clock.nanos - (clock.nanos % 1000000)]
    BY SMT DEF ClockRoundTrips, SMT
  <2>1. clock \in SystemTime
    BY <1>1, MathRngAssumption, SMT DEF RInv, TypeOK
  <2>2. PICK s \in Int, n \in Nat : n < 1000000000 /\ clock = [secs |-> s, nanos |-> n]
    BY <2>1, SMT DEF SystemTime
  <2>3. clock.secs = s /\ clock.nanos = n
    BY <2>2, SMT
  <2>4. CASE s < 0
    <3>1. timestamp(clock) = 0
      BY <2>3, <2>4, SMT DEF timestamp
    <3>2. 0 \div 1000 = 0 /\ (0 % 1000) * 1000000 = 0
      BY SMT
    <3> QED BY <2>3, <2>4, <3>1, <3>2, SMT DEF time_from_ms
  <2>5. CASE s >= 0
    <3>1. PICK k \in 0 .. 999 : k = n \div 1000000
      BY <2>2, SMT
    <3>2. timestamp(clock) = (s * 1000 + k) % MsSize
      BY <2>3, <2>5, <3>1, SMT DEF timestamp
    <3>3. s * 1000 + k \in Nat /\ s * 1000 + k < MsSize /\ MsSize \in Nat
      <4>1. s * 1000 + k < MsSize
        BY <2>3, <3>1, SMT
      <4> QED BY <2>5, <4>1, MathRngAssumption, SMT
    <3>4. timestamp(clock) = s * 1000 + k
      BY <3>2, <3>3, SmallRemainder, SMT
    <3>5. (s * 1000 + k) \div 1000 = s /\ (s * 1000 + k) % 1000 = k
      BY <2>5, SMT
    <3>6. time_from_ms(timestamp(clock)) = [secs |-> s, nanos |-> k * 1000000]
      BY <3>4, <3>5, SMT DEF time_from_ms
    <3>7. n - (n % 1000000) = k * 1000000
      BY <3>1, SMT
    <3>8. [secs |-> clock.secs, nanos |-> clock.nanos - (clock.nanos % 1000000)]
            = [secs |-> s, nanos |-> k * 1000000]
      BY <2>3, <3>7, SMT
    <3>9. ~(clock.secs < 0)
      BY <2>3, <2>5, SMT
    <3> QED BY <3>6, <3>8, <3>9, SMT
  <2> QED BY <2>4, <2>5, SMT
<1> QED BY <1>1, MathRngInvariance, PTL
=============================================================================
