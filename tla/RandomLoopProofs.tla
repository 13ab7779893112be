-------------------------- MODULE RandomLoopProofs --------------------------
(***************************************************************************)
(* What MonotonicEntropy::random returns is in range and comes from the    *)
(* bytes read last, for any bound, any contents of the scratch buffer and  *)
(* any number of rejected candidates.                                      *)
(***************************************************************************)
EXTENDS RandomLoop, TLAPS, SequenceTheorems, WellFoundedInduction

-----------------------------------------------------------------------------
(* Powers of two and numbers in bytes.                                     *)

\* A non-empty set of natural numbers has a least element.
LEMMA Least ==
  ASSUME NEW S, S \subseteq Nat, S # {}
  PROVE  \E m \in S : \A i \in S : m <= i
<1>1. PICK m \in S : \A i \in S : ~ (<<i, m>> \in OpToRel(<, Nat))
  BY NatLessThanWellFounded, WFMin
<1>2. OpToRel(<, Nat) = {ss \in Nat \X Nat : ss[1] < ss[2]}
  BY DEF OpToRel
<1>3. ASSUME NEW i \in S PROVE m <= i
  <2>1. ~ (<<i, m>> \in {ss \in Nat \X Nat : ss[1] < ss[2]})
    BY <1>1, <1>2, Zenon
  <2>2. i \in Nat /\ m \in Nat
    OBVIOUS
  <2> QED BY <2>1, <2>2
<1> QED BY <1>3

\* Induction: a set that has 0 and the successors of its members has every number.
LEMMA Induct ==
  ASSUME NEW T, 0 \in T, \A n \in Nat : n \in T => n + 1 \in T
  PROVE  \A n \in Nat : n \in T
<1> DEFINE S == {n \in Nat : n \notin T}
<1> SUFFICES ASSUME S # {} PROVE FALSE
  BY Zenon
<1>1. PICK m \in S : \A i \in S : m <= i
  BY Least, Zenon
<1>2. m \in Nat /\ m \notin T /\ m # 0
  BY Zenon
<1>3. m - 1 \in Nat /\ ~(m <= m - 1) /\ m - 1 + 1 = m
  BY <1>2
<1>4. m - 1 \in T
  BY <1>1, <1>3, Zenon
<1> QED BY <1>2, <1>3, <1>4

\* f is 1, 2, 4, ... up to n.
Powers(f, n) == f \in [0 .. n -> Nat] /\ f[0] = 1 /\ \A k \in 1 .. n : f[k] = 2 * f[k-1]

LEMMA PowersExist == \A n \in Nat : \E f : Powers(f, n)
<1> DEFINE T == {n \in Nat : \E f : Powers(f, n)}
<1>1. 0 \in T
  <2> DEFINE f == [k \in 0 .. 0 |-> 1]
  <2>1. Powers(f, 0)
    BY DEF Powers
  <2> QED BY <2>1
<1>2. ASSUME NEW n \in Nat, n \in T PROVE n + 1 \in T
  <2>1. PICK f : Powers(f, n)
    BY <1>2, Zenon
  <2> DEFINE g == [k \in 0 .. n + 1 |-> IF k = n + 1 THEN 2 * f[n] ELSE f[k]]
  <2>2. f \in [0 .. n -> Nat] /\ f[0] = 1 /\ \A k \in 1 .. n : f[k] = 2 * f[k-1]
    BY <2>1, Zenon DEF Powers
  <2>3. f[n] \in Nat
    BY <2>2
  <2>4. /\ \A k \in 0 .. n + 1 : g[k] = IF k = n + 1 THEN 2 * f[n] ELSE f[k]
        /\ g = [k \in 0 .. n + 1 |-> g[k]]
    BY Zenon
  <2> HIDE DEF g
  <2>5. \A k \in 0 .. n + 1 : g[k] \in Nat
    BY <2>2, <2>3, <2>4
  <2>6. g \in [0 .. n + 1 -> Nat]
    BY <2>4, <2>5, Zenon
  <2>7. g[0] = 1
    BY <2>2, <2>4
  <2>8. ASSUME NEW k \in 1 .. n + 1 PROVE g[k] = 2 * g[k-1]
    <3>1. k \in 0 .. n + 1 /\ k - 1 \in 0 .. n + 1 /\ k - 1 # n + 1
      OBVIOUS
    <3>2. g[k-1] = f[k-1]
      BY <2>4, <3>1
    <3>3. CASE k = n + 1
      BY <2>4, <3>1, <3>2, <3>3
    <3>4. CASE k # n + 1
      BY <2>2, <2>4, <3>1, <3>2, <3>4
    <3> QED BY <3>3, <3>4
  <2>9. Powers(g, n + 1)
    BY <2>6, <2>7, <2>8 DEF Powers
  <2> QED BY <2>9
<1> HIDE DEF T
<1>3. \A n \in Nat : n \in T
  BY <1>1, <1>2, Induct
<1> QED BY <1>3, Zenon DEF T

LEMMA PowersAgree ==
  ASSUME NEW m \in Nat, NEW n \in Nat, NEW f, NEW g, Powers(f, m), Powers(g, n)
  PROVE  \A k \in Nat : k <= m /\ k <= n => f[k] = g[k]
<1> DEFINE T == {k \in Nat : k <= m /\ k <= n => f[k] = g[k]}
<1>1. 0 \in T
  BY DEF Powers
<1>2. ASSUME NEW k \in Nat, k \in T PROVE k + 1 \in T
  <2> SUFFICES ASSUME k + 1 <= m, k + 1 <= n PROVE f[k+1] = g[k+1]
    OBVIOUS
  <2>1. f[k] = g[k]
    BY <1>2
  <2>2. k + 1 \in 1 .. m /\ k + 1 \in 1 .. n /\ k + 1 - 1 = k
    OBVIOUS
  <2>3. f[k+1] = 2 * f[k] /\ g[k+1] = 2 * g[k]
    BY <2>2 DEF Powers
  <2> QED BY <2>1, <2>3
<1> HIDE DEF T
<1>3. \A k \in Nat : k \in T
  BY <1>1, <1>2, Induct
<1> QED BY <1>3, Zenon DEF T

\* The recursive definition of Pow2 has a solution, so that it is one.
LEMMA Pow2Is ==
  /\ \A n \in Nat : Pow2[n] \in Nat \ {0}
  /\ Pow2[0] = 1 /\ \A n \in Nat : Pow2[n+1] = 2 * Pow2[n]
<1> DEFINE A(n) == CHOOSE f : Powers(f, n)
           F == [n \in Nat |-> A(n)[n]]
<1>1. \A n \in Nat : Powers(A(n), n)
  BY PowersExist, Zenon
<1> HIDE DEF A
<1>2. F = [n \in Nat |-> A(n)[n]] /\ \A n \in Nat : F[n] = A(n)[n]
  BY Zenon
<1> HIDE DEF F
<1>3. A(0)[0] = 1
  BY <1>1 DEF Powers
<1>4. ASSUME NEW n \in Nat, n # 0 PROVE A(n)[n] = 2 * F[n-1]
  <2>1. n - 1 \in Nat /\ n - 1 <= n /\ n - 1 <= n - 1 /\ n \in 1 .. n
    BY <1>4
  <2>2. Powers(A(n), n) /\ Powers(A(n - 1), n - 1)
    BY <1>1, <2>1, Zenon
  <2>3. A(n)[n-1] = A(n - 1)[n-1]
    BY <2>1, <2>2, PowersAgree
  <2>4. A(n)[n] = 2 * A(n)[n-1]
    BY <2>1, <2>2, Zenon DEF Powers
  <2> QED BY <1>2, <2>1, <2>3, <2>4, Zenon
<1>5. F = [n \in Nat |-> IF n = 0 THEN 1 ELSE 2 * F[n-1]]
  <2>1. \A n \in Nat : A(n)[n] = IF n = 0 THEN 1 ELSE 2 * F[n-1]
    BY <1>3, <1>4, Zenon
  <2> QED BY <1>2, <2>1, Zenon
<1>6. Pow2 = [n \in Nat |-> IF n = 0 THEN 1 ELSE 2 * Pow2[n-1]]
  <2>1. Pow2 = CHOOSE g : g = [n \in Nat |-> IF n = 0 THEN 1 ELSE 2 * g[n-1]]
    BY Zenon DEF Pow2
  <2> QED BY <1>5, <2>1, Zenon
<1>7. Pow2[0] = 1 /\ \A n \in Nat : n # 0 => Pow2[n] = 2 * Pow2[n-1]
  BY <1>6, Zenon
<1>8. ASSUME NEW n \in Nat PROVE Pow2[n+1] = 2 * Pow2[n]
  <2>1. n + 1 \in Nat /\ n + 1 # 0 /\ n + 1 - 1 = n
    OBVIOUS
  <2>2. Pow2[n+1] = 2 * Pow2[n + 1 - 1]
    BY <1>7, <2>1
  <2> QED BY <2>1, <2>2
<1> DEFINE T == {n \in Nat : Pow2[n] \in Nat \ {0}}
<1>9. 0 \in T
  BY <1>7
<1>10. ASSUME NEW n \in Nat, n \in T PROVE n + 1 \in T
  BY <1>8, <1>10
<1> HIDE DEF T
<1>11. \A n \in Nat : n \in T
  BY <1>9, <1>10, Induct
<1> QED BY <1>7, <1>8, <1>11 DEF T

LEMMA Pow2Sum ==
  ASSUME NEW a \in Nat, NEW b \in Nat
  PROVE  Pow2[a + b] = Pow2[a] * Pow2[b]
<1> DEFINE T == {n \in Nat : Pow2[a + n] = Pow2[a] * Pow2[n]}
<1>1. 0 \in T
  BY Pow2Is
<1>2. ASSUME NEW n \in Nat, n \in T PROVE n + 1 \in T
  <2>1. Pow2[a + n] = Pow2[a] * Pow2[n]
    BY <1>2
  <2>2. a + n \in Nat /\ a + (n + 1) = a + n + 1
    OBVIOUS
  <2>3. PICK x \in Nat, y \in Nat : x = Pow2[a] /\ y = Pow2[n]
    BY Pow2Is
  <2>4. Pow2[a + (n + 1)] = 2 * (x * y) /\ Pow2[n + 1] = 2 * y
    BY <2>1, <2>2, <2>3, Pow2Is
  <2>5. x * (2 * y) = 2 * (x * y)
    OBVIOUS
  <2> QED BY <2>3, <2>4, <2>5
<1> HIDE DEF T
<1>3. \A n \in Nat : n \in T
  BY <1>1, <1>2, Induct
<1> QED BY <1>3, Zenon DEF T

LEMMA Pow2Grows ==
  ASSUME NEW a \in Nat, NEW b \in Nat, a <= b
  PROVE  Pow2[a] <= Pow2[b]
<1>1. PICK d \in Nat : b = a + d
  <2>1. b - a \in Nat /\ b = a + (b - a)
    OBVIOUS
  <2> QED BY <2>1
<1>2. PICK x \in Nat, y \in Nat \ {0} : x = Pow2[a] /\ y = Pow2[d]
  BY Pow2Is
<1>3. Pow2[b] = x * y
  BY <1>1, <1>2, Pow2Sum
<1>4. x <= x * y
  <2>1. PICK z \in Nat : y = z + 1
    <3>1. y - 1 \in Nat /\ y = y - 1 + 1
      OBVIOUS
    <3> QED BY <3>1
  <2>2. x * y = x * z + x /\ x * z \in Nat
    BY <2>1
  <2> QED BY <2>2
<1> QED BY <1>2, <1>3, <1>4

\* BitLen finds the number of bits.
LEMMA BitLenIs ==
  ASSUME NEW x \in Nat, x # 0
  PROVE  BitLen(x) \in 1 .. x /\ Pow2[BitLen(x) - 1] <= x /\ x < Pow2[BitLen(x)]
<1> DEFINE T == {n \in Nat : n < Pow2[n]}
           S == {k \in Nat : x < Pow2[k]}
<1>1. \A n \in Nat : n < Pow2[n]
  <2>1. 0 \in T
    BY Pow2Is
  <2>2. ASSUME NEW n \in Nat, n \in T PROVE n + 1 \in T
    BY <2>2, Pow2Is
  <2> HIDE DEF T
  <2>3. \A n \in Nat : n \in T
    BY <2>1, <2>2, Induct
  <2> QED BY <2>3, Zenon DEF T
<1>2. x \in S
  BY <1>1
<1>3. PICK k \in S : \A i \in S : k <= i
  BY <1>2, Least, Zenon
<1>4. k \in Nat /\ x < Pow2[k] /\ k <= x
  BY <1>2, <1>3, Zenon
<1>5. k # 0
  BY <1>4, Pow2Is
<1>6. k - 1 \in Nat /\ k - 1 \notin S /\ k \in 1 .. x
  BY <1>3, <1>4, <1>5
<1>7. Pow2[k-1] <= x
  <2>1. Pow2[k-1] \in Nat
    BY <1>6, Pow2Is
  <2> QED BY <1>6, <2>1
<1>8. \E j \in 1 .. x : Pow2[j-1] <= x /\ x < Pow2[j]
  BY <1>4, <1>6, <1>7, Zenon
<1>9. BitLen(x) = CHOOSE j \in 1 .. x : Pow2[j-1] <= x /\ x < Pow2[j]
  BY DEF BitLen
<1> QED BY <1>8, <1>9, Zenon

\* What byte i weighs, counted from 0.
Weight(i) == Pow2[ByteBits * i]

LEMMA WeightIs ==
  /\ Pow2[ByteBits] \in Nat \ {0} /\ Weight(0) = 1
  /\ \A i \in Nat : /\ Weight(i) \in Nat \ {0} /\ Weight(i + 1) = Weight(i) * Pow2[ByteBits]
                    /\ \A j \in Nat : i <= j => Weight(i) <= Weight(j)
<1>1. ByteBits \in Nat
  BY ByteBitsAssumption
<1>2. Pow2[ByteBits] \in Nat \ {0} /\ Weight(0) = 1
  BY <1>1, Pow2Is DEF Weight
<1>3. ASSUME NEW i \in Nat
      PROVE  Weight(i) \in Nat \ {0} /\ Weight(i + 1) = Weight(i) * Pow2[ByteBits]
  <2>1. PICK q \in Nat : q = ByteBits * i /\ ByteBits * (i + 1) = q + ByteBits
    <3>1. ByteBits * i \in Nat /\ ByteBits * (i + 1) = ByteBits * i + ByteBits
      BY <1>1
    <3> QED BY <3>1
  <2>2. Pow2[q] \in Nat \ {0} /\ Pow2[q + ByteBits] = Pow2[q] * Pow2[ByteBits]
    BY <1>1, Pow2Is, Pow2Sum, Zenon
  <2> QED BY <2>1, <2>2, Zenon DEF Weight
<1>4. ASSUME NEW i \in Nat, NEW j \in Nat, i <= j PROVE Weight(i) <= Weight(j)
  <2>1. ByteBits * i \in Nat /\ ByteBits * j \in Nat
    BY <1>1
  <2>2. ByteBits * i <= ByteBits * j
    <3>1. PICK d \in Nat : j = i + d
      <4>1. j - i \in Nat /\ j = i + (j - i)
        BY <1>4
      <4> QED BY <4>1
    <3>2. ByteBits * j = ByteBits * i + ByteBits * d /\ ByteBits * d \in Nat
      BY <1>1, <3>1
    <3> QED BY <2>1, <3>2
  <2> QED BY <2>1, <2>2, Pow2Grows DEF Weight
<1> QED BY <1>2, <1>3, <1>4

\* s[i] is the number in the first i bytes of bs, for i up to n.
Sums(s, bs, n) == s = [i \in 0 .. n |-> IF i = 0 THEN 0 ELSE s[i-1] + bs[i] * Weight(i - 1)]

LEMMA SumsExist ==
  ASSUME NEW m \in Nat, NEW bs
  PROVE  \E s : Sums(s, bs, m)
<1> DEFINE T == {n \in Nat : n <= m => \E s : Sums(s, bs, n)}
<1>1. 0 \in T
  <2> DEFINE s == [i \in 0 .. 0 |-> 0]
  <2>1. \A i \in 0 .. 0 : 0 = IF i = 0 THEN 0 ELSE s[i-1] + bs[i] * Weight(i - 1)
    OBVIOUS
  <2>2. s = [i \in 0 .. 0 |-> IF i = 0 THEN 0 ELSE s[i-1] + bs[i] * Weight(i - 1)]
    BY <2>1, Zenon
  <2>3. Sums(s, bs, 0)
    BY <2>2, Zenon DEF Sums
  <2> HIDE DEF s
  <2> QED BY <2>3
<1>2. ASSUME NEW n \in Nat, n \in T PROVE n + 1 \in T
  <2> SUFFICES ASSUME n + 1 <= m PROVE \E s : Sums(s, bs, n + 1)
    OBVIOUS
  <2>1. n <= m
    OBVIOUS
  <2>2. PICK s : Sums(s, bs, n)
    BY <1>2, <2>1, Zenon
  <2>3. s = [i \in 0 .. n |-> IF i = 0 THEN 0 ELSE s[i-1] + bs[i] * Weight(i - 1)]
    BY <2>2, Zenon DEF Sums
  <2> DEFINE e(i) == IF i = 0 THEN 0 ELSE s[i-1] + bs[i] * Weight(i - 1)
             g == [i \in 0 .. n + 1 |-> e(i)]
  <2>4. \A i \in 0 .. n : s[i] = e(i)
    BY <2>3, Zenon
  <2>5. \A i \in 0 .. n + 1 : g[i] = e(i)
    BY Zenon
  <2>6. \A i \in 0 .. n : i \in 0 .. n + 1
    OBVIOUS
  <2>7. \A i \in 0 .. n : g[i] = s[i]
    BY <2>4, <2>5, <2>6, Zenon
  <2>8. \A i \in 0 .. n + 1 : i # 0 => i - 1 \in 0 .. n
    OBVIOUS
  <2>9. \A i \in 0 .. n + 1 : e(i) = IF i = 0 THEN 0 ELSE g[i-1] + bs[i] * Weight(i - 1)
    <3> HIDE DEF g
    <3> QED BY <2>7, <2>8, Zenon
  <2>10. g = [i \in 0 .. n + 1 |-> IF i = 0 THEN 0 ELSE g[i-1] + bs[i] * Weight(i - 1)]
    BY <2>9, Zenon
  <2> HIDE DEF g
  <2>11. Sums(g, bs, n + 1)
    BY <2>10, Zenon DEF Sums
  <2> QED BY <2>11
<1> HIDE DEF T
<1>3. \A n \in Nat : n \in T
  BY <1>1, <1>2, Induct
<1>4. m <= m
  OBVIOUS
<1> QED BY <1>3, <1>4, Zenon DEF T

\* Appending a byte to a number.
LEMMA NextByte ==
  ASSUME NEW w \in Nat \ {0}, NEW c \in Nat \ {0}, NEW t \in 0 .. w - 1, NEW b \in 0 .. c - 1
  PROVE  t + b * w \in 0 .. w * c - 1
<1>1. PICK d \in Nat : c = b + 1 + d
  <2>1. c - b - 1 \in Nat /\ c = b + 1 + (c - b - 1)
    OBVIOUS
  <2> QED BY <2>1
<1>2. w * c = w * b + w + w * d /\ b * w = w * b /\ w * b \in Nat /\ w * d \in Nat
  BY <1>1
<1> QED BY <1>2

\* The number in n bytes is below the weight of the next byte.
LEMMA SumsInRange ==
  ASSUME NEW m \in Nat, NEW bs \in [1 .. m -> Byte], NEW s, Sums(s, bs, m)
  PROVE  s[m] \in 0 .. Weight(m) - 1
<1> DEFINE T == {n \in Nat : n <= m => s[n] \in 0 .. Weight(n) - 1}
<1>0. \A i \in 0 .. m : s[i] = IF i = 0 THEN 0 ELSE s[i-1] + bs[i] * Weight(i - 1)
  BY Zenon DEF Sums
<1>1. 0 \in T
  <2>1. 0 \in 0 .. m
    OBVIOUS
  <2>2. s[0] = 0
    BY <1>0, <2>1, Zenon
  <2>3. 0 \in 0 .. Weight(0) - 1
    BY WeightIs
  <2> QED BY <2>2, <2>3
<1>2. ASSUME NEW n \in Nat, n \in T PROVE n + 1 \in T
  <2> SUFFICES ASSUME n + 1 <= m PROVE s[n+1] \in 0 .. Weight(n + 1) - 1
    OBVIOUS
  <2>1. s[n] \in 0 .. Weight(n) - 1
    BY <1>2
  <2>2. n + 1 \in 0 .. m /\ n + 1 # 0 /\ n + 1 - 1 = n /\ n + 1 \in 1 .. m
    OBVIOUS
  <2>3. s[n+1] = s[n] + bs[n+1] * Weight(n)
    BY <1>0, <2>2
  <2>4. bs[n+1] \in 0 .. Pow2[ByteBits] - 1
    BY <2>2 DEF Byte
  <2>5. /\ Weight(n) \in Nat \ {0} /\ Pow2[ByteBits] \in Nat \ {0}
        /\ Weight(n + 1) = Weight(n) * Pow2[ByteBits]
    BY WeightIs
  <2>6. s[n] + bs[n+1] * Weight(n) \in 0 .. Weight(n) * Pow2[ByteBits] - 1
    BY <2>1, <2>4, <2>5, NextByte
  <2> QED BY <2>3, <2>5, <2>6
<1> HIDE DEF T
<1>3. \A n \in Nat : n \in T
  BY <1>1, <1>2, Induct
<1>4. m <= m
  OBVIOUS
<1> QED BY <1>3, <1>4, Zenon DEF T

\* from_le_bytes of n bytes.
LEMMA LittleEndianIs ==
  ASSUME NEW n \in Nat, NEW bs \in [1 .. n -> Byte]
  PROVE  \E s : Sums(s, bs, n) /\ LittleEndian(bs) = s[n]
<1>1. Len(bs) = n
  <2>1. bs \in Seq(Byte)
    BY SeqDef
  <2>2. Len(bs) \in Nat /\ DOMAIN bs = 1 .. Len(bs) /\ DOMAIN bs = 1 .. n
    BY <2>1, LenProperties
  <2> QED BY <2>2
<1> DEFINE s == CHOOSE f : f = [i \in 0 .. Len(bs) |->
                  IF i = 0 THEN 0 ELSE f[i-1] + bs[i] * Pow2[ByteBits * (i-1)]]
<1>2. LittleEndian(bs) = s[Len(bs)]
  BY Zenon DEF LittleEndian
<1>3. s = CHOOSE f : Sums(f, bs, n)
  BY <1>1, Zenon DEF Sums, Weight
<1>4. Sums(s, bs, n)
  BY <1>3, SumsExist, Zenon
<1> HIDE DEF s
<1> QED BY <1>1, <1>2, <1>4, Zenon

LEMMA LittleEndianInRange ==
  ASSUME NEW n \in Nat, NEW bs \in [1 .. n -> Byte]
  PROVE  LittleEndian(bs) \in 0 .. Weight(n) - 1
BY LittleEndianIs, SumsInRange, Zenon

\* The bytes 1, 0, 0, ... are the number 1.
LEMMA OneInBytes ==
  ASSUME NEW n \in Nat, n >= 1, NEW bs \in [1 .. n -> Byte],
         bs[1] = 1, \A i \in 2 .. n : bs[i] = 0
  PROVE  LittleEndian(bs) = 1
<1>1. PICK s : Sums(s, bs, n) /\ LittleEndian(bs) = s[n]
  BY LittleEndianIs, Zenon
<1>2. \A i \in 0 .. n : s[i] = IF i = 0 THEN 0 ELSE s[i-1] + bs[i] * Weight(i - 1)
  BY <1>1, Zenon DEF Sums
<1> DEFINE T == {k \in Nat : k + 1 <= n => s[k+1] = 1}
<1>3. 0 \in T
  <2>1. 0 \in 0 .. n /\ 1 \in 0 .. n /\ 1 # 0 /\ 1 - 1 = 0
    OBVIOUS
  <2>2. s[0] = 0 /\ s[1] = s[0] + bs[1] * Weight(0)
    BY <1>2, <2>1
  <2>3. s[1] = 1
    BY <2>2, WeightIs
  <2>4. 0 + 1 = 1
    OBVIOUS
  <2> QED BY <2>3, <2>4
<1>4. ASSUME NEW k \in Nat, k \in T PROVE k + 1 \in T
  <2> SUFFICES ASSUME k + 1 + 1 <= n PROVE s[k+1+1] = 1
    OBVIOUS
  <2>1. k + 1 <= n /\ k + 1 + 1 \in 0 .. n /\ k + 1 + 1 # 0 /\ k + 1 + 1 - 1 = k + 1
        /\ k + 1 + 1 \in 2 .. n /\ k + 1 \in Nat
    OBVIOUS
  <2>2. s[k+1] = 1 /\ bs[k+1+1] = 0
    BY <1>4, <2>1
  <2>3. s[k+1+1] = s[k+1] + bs[k+1+1] * Weight(k + 1)
    BY <1>2, <2>1
  <2>4. Weight(k + 1) \in Nat
    BY <2>1, WeightIs
  <2> QED BY <2>2, <2>3, <2>4
<1> HIDE DEF T
<1>5. \A k \in Nat : k \in T
  BY <1>3, <1>4, Induct
<1>6. n - 1 \in Nat /\ n - 1 + 1 = n /\ n <= n
  OBVIOUS
<1>7. n - 1 \in T
  BY <1>5, <1>6
<1>8. s[n] = 1
  BY <1>6, <1>7 DEF T
<1> QED BY <1>1, <1>8

\* The bytes of a bound: at least one, and no more than rand_buf holds.
LEMMA ByteLenFits ==
  ASSUME NEW b \in Bounds, b > 1
  PROVE  byte_len(b) \in 1 .. BufLen /\ msbit_len(b) \in Nat /\ msbit_len(b) >= 1
<1>1. b \in Nat /\ BufLen \in Nat /\ ByteBits \in Nat \ {0} /\ b < Weight(BufLen)
  BY LoopAssumption, ByteBitsAssumption DEF Weight
<1>2. PICK k \in Nat : k = bit_len(b) /\ k >= 1 /\ Pow2[k-1] <= b - 1
  <2>1. b - 1 \in Nat /\ b - 1 # 0
    BY <1>1
  <2>2. BitLen(b - 1) \in 1 .. b - 1 /\ Pow2[BitLen(b - 1) - 1] <= b - 1
    BY <2>1, BitLenIs, Zenon
  <2> QED BY <2>1, <2>2 DEF bit_len
<1>3. PICK w \in Nat : w = ByteBits * BufLen
  BY <1>1
<1>4. k <= w
  <2> SUFFICES ASSUME w <= k - 1 PROVE FALSE
    BY <1>2, <1>3
  <2>1. k - 1 \in Nat
    BY <1>2
  <2>2. Pow2[w] <= Pow2[k-1] /\ Pow2[w] \in Nat /\ Pow2[k-1] \in Nat
    BY <2>1, Pow2Grows, Pow2Is
  <2>3. b < Pow2[w]
    BY <1>1, <1>3 DEF Weight
  <2> QED BY <1>1, <1>2, <2>2, <2>3
<1>5. PICK q \in Int : q = (k + ByteBits - 1) \div ByteBits /\ ByteBits * q <= k + ByteBits - 1
                       /\ k + ByteBits - 1 < ByteBits * (q + 1)
  <2>1. k + ByteBits - 1 \in Nat
    BY <1>1
  <2> QED BY <1>1, <2>1
<1>6. q >= 1
  <2> SUFFICES ASSUME q + 1 <= 1 PROVE FALSE
    OBVIOUS
  <2>1. ByteBits * (q + 1) <= ByteBits
    BY <1>1
  <2> QED BY <1>1, <1>2, <1>5, <2>1
<1>7. q <= BufLen
  <2> SUFFICES ASSUME q >= BufLen + 1 PROVE FALSE
    BY <1>1
  <2>1. ByteBits * q >= ByteBits * (BufLen + 1) /\ ByteBits * (BufLen + 1) = w + ByteBits
    BY <1>1, <1>3
  <2>2. ByteBits * q \in Int
    BY <1>1
  <2> QED BY <1>1, <1>3, <1>4, <1>5, <2>1, <2>2
<1>8. byte_len(b) \in 1 .. BufLen
  BY <1>1, <1>2, <1>5, <1>6, <1>7 DEF byte_len
<1>9. msbit_len(b) \in Nat /\ msbit_len(b) >= 1
  <2>1. k % ByteBits \in Nat
    BY <1>1, <1>2
  <2> QED BY <1>1, <1>2, <2>1 DEF msbit_len
<1> QED BY <1>8, <1>9

-----------------------------------------------------------------------------
\* The loop decodes the chunk it has just read: reading it into the front of
\* the buffer, masking its first byte and taking the front again loses nothing
\* and lets no older byte in.
LEMMA DecodesChunk ==
  ASSUME bound \in Bounds, bound > 1, NEW chunk \in Chunks(bound)
  PROVE  Decode(Filled(chunk)) = Candidate(chunk, bound)
<1> DEFINE n == byte_len(bound)
           masked == MaskFirst(chunk, bound)
           S == {Filled(chunk)[i] : i \in 1 .. BufLen}
<1>1. n \in 1 .. BufLen /\ BufLen \in Nat
  BY LoopAssumption, ByteLenFits
<1>2. masked = [i \in 1 .. n |-> masked[i]]
  BY DEF Chunks, MaskFirst
<1> HIDE DEF n, masked, S
<1>3. \A i \in 1 .. n : Filled(chunk)[i] = masked[i]
  <2>1. ASSUME NEW i \in 1 .. n PROVE Filled(chunk)[i] = masked[i]
    <3>1. i \in 1 .. BufLen /\ i <= byte_len(bound)
      BY <1>1 DEF n
    <3> QED BY <3>1 DEF Filled, masked
  <2> QED BY <2>1
<1>4. \A i \in 1 .. n : Filled(chunk)[i] \in S /\ i \in 1 .. BufLen
  BY <1>1 DEF S
<1>5. /\ SubSeq(Filled(chunk), 1, n) \in Seq(S) /\ Len(SubSeq(Filled(chunk), 1, n)) = n
      /\ \A i \in 1 .. n : SubSeq(Filled(chunk), 1, n)[i] = Filled(chunk)[i]
  BY <1>1, <1>4, SubSeqProperties
<1>6. SubSeq(Filled(chunk), 1, n) = [i \in 1 .. n |-> SubSeq(Filled(chunk), 1, n)[i]]
  BY <1>5, LenProperties
<1>7. SubSeq(Filled(chunk), 1, n) = masked
  BY <1>2, <1>3, <1>5, <1>6, Zenon
<1> QED BY <1>7, Zenon DEF Decode, Candidate, n, masked

\* The inductive invariant: the candidate is the initial 0 or decoded from the
\* last chunk, and what was returned is 1 or the successor of an accepted one.
RInv ==
  /\ bound \in Bounds
  /\ candidate = 0 \/ candidate = Candidate(drawn, bound)
  /\ pc = "done" =>
       \/ bound <= 1 /\ ret = 1
       \/ bound > 1 /\ Accepted(candidate, bound) /\ ret = 1 + candidate

LEMMA RandomInit == Init => RInv
BY DEF Init, RInv

LEMMA RandomNext == RInv /\ [Next]_vars => RInv'
<1> SUFFICES ASSUME RInv, [Next]_vars PROVE RInv'
  OBVIOUS
<1>1. CASE EarlyOut
  BY <1>1, Zenon DEF EarlyOut, RInv
<1>2. CASE Pass
  <2>1. PICK chunk \in Chunks(bound) : Draw(chunk)
    BY <1>2, Zenon DEF Pass
  <2>2. pc = "loop" /\ bound > 1 /\ bound \in Bounds
    BY <1>2 DEF Pass, Looping, RInv
  <2>3. candidate' = Candidate(chunk, bound) /\ drawn' = chunk /\ bound' = bound /\ pc' = pc
    BY <2>1, <2>2, DecodesChunk DEF Draw
  <2> QED BY <2>2, <2>3 DEF RInv
<1>3. CASE SourceError
  BY <1>3 DEF SourceError, RInv
<1>4. CASE Return
  BY <1>4, Zenon DEF Return, RInv
<1>5. CASE UNCHANGED vars
  BY <1>5, Zenon DEF vars, RInv
<1> QED BY <1>1, <1>2, <1>3, <1>4, <1>5, Zenon DEF Next

\* The invariant holds in every state.
THEOREM RandomInvariance == Spec => []RInv
BY RandomInit, RandomNext, PTL DEF Spec

\* The increment that random returns is 1 for a bound up to 1 and otherwise
\* between 1 and the bound, as the field inc says.
THEOREM IncrementInRange == Spec => []ReturnInRange
<1>1. RInv => ReturnInRange
  <2> SUFFICES ASSUME RInv, pc = "done"
               PROVE  ret \in 1 .. (IF bound <= 1 THEN 1 ELSE bound)
    BY DEF ReturnInRange
  <2>1. bound \in Nat
    BY LoopAssumption DEF RInv
  <2>2. CASE bound <= 1 /\ ret = 1
    BY <2>2
  <2>3. CASE bound > 1 /\ Accepted(candidate, bound) /\ ret = 1 + candidate
    BY <2>1, <2>3 DEF Accepted
  <2> QED BY <2>2, <2>3 DEF RInv
<1> QED BY <1>1, RandomInvariance, PTL

\* Nothing that an earlier call left in rand_buf reaches what random returns.
THEOREM IncrementIsFresh == Spec => []NoStaleBytes
<1>1. RInv => NoStaleBytes
  <2> SUFFICES ASSUME RInv, pc = "done", bound > 1
               PROVE  ret = 1 + Candidate(drawn, bound)
    BY DEF NoStaleBytes
  <2>1. bound \in Nat
    BY LoopAssumption DEF RInv
  <2>2. candidate \in 1 .. bound - 1 /\ ret = 1 + candidate
    BY <2>1 DEF RInv, Accepted
  <2>3. candidate = Candidate(drawn, bound)
    BY <2>2 DEF RInv
  <2> QED BY <2>2, <2>3
<1> QED BY <1>1, RandomInvariance, PTL

-----------------------------------------------------------------------------
\* A chunk that was masked is bytes, and so is the buffer it is read into.
LEMMA MaskedBytes ==
  ASSUME bound \in Bounds, bound > 1, NEW chunk \in Chunks(bound), rand_buf \in [1 .. BufLen -> Byte]
  PROVE  /\ MaskFirst(chunk, bound) \in [1 .. byte_len(bound) -> Byte]
         /\ Filled(chunk) \in [1 .. BufLen -> Byte]
<1>1. PICK n \in Nat : n = byte_len(bound) /\ n \in 1 .. BufLen
  <2>1. byte_len(bound) \in 1 .. BufLen /\ BufLen \in Nat
    BY LoopAssumption, ByteLenFits
  <2> QED BY <2>1
<1>2. PICK c \in Nat \ {0} : c = Pow2[msbit_len(bound)]
  BY ByteLenFits, Pow2Is
<1>3. PICK e \in Nat : Byte = 0 .. e
  <2>1. Pow2[ByteBits] \in Nat \ {0}
    BY WeightIs
  <2>2. Pow2[ByteBits] - 1 \in Nat
    BY <2>1
  <2> QED BY <2>2 DEF Byte
<1>4. \A x \in Byte : x % c \in Byte
  <2> SUFFICES ASSUME NEW x \in 0 .. e PROVE x % c \in 0 .. e
    BY <1>3
  <2>1. x % c \in 0 .. c - 1
    BY <1>2
  <2>2. CASE x < c
    <3>1. x % c = x
      BY <2>2
    <3> QED BY <3>1
  <2>3. CASE ~(x < c)
    BY <1>2, <2>1, <2>3
  <2> QED BY <2>2, <2>3
<1>5. MaskFirst(chunk, bound) = [chunk EXCEPT ![1] = chunk[1] % c]
  BY <1>2 DEF MaskFirst
<1>6. chunk \in [1 .. n -> Byte] /\ 1 \in 1 .. n
  BY <1>1 DEF Chunks
<1>7. MaskFirst(chunk, bound) \in [1 .. n -> Byte]
  <2>1. chunk[1] % c \in Byte
    BY <1>4, <1>6
  <2> QED BY <1>5, <1>6, <2>1, Zenon
<1>8. Filled(chunk) \in [1 .. BufLen -> Byte]
  <2> DEFINE f == MaskFirst(chunk, bound)
  <2>1. Filled(chunk) = [i \in 1 .. BufLen |-> IF i <= n THEN f[i] ELSE rand_buf[i]]
    BY <1>1 DEF Filled
  <2> HIDE DEF f
  <2>2. \A i \in 1 .. BufLen : i <= n => i \in 1 .. n
    OBVIOUS
  <2>3. \A i \in 1 .. BufLen : (IF i <= n THEN f[i] ELSE rand_buf[i]) \in Byte
    BY <1>7, <2>2, Zenon DEF f
  <2> QED BY <2>1, <2>3
<1> QED BY <1>1, <1>7, <1>8, Zenon

\* What is decoded fits the word that rand_buf can hold.
LEMMA CandidateFits ==
  ASSUME bound \in Bounds, bound > 1, NEW chunk \in Chunks(bound), rand_buf \in [1 .. BufLen -> Byte]
  PROVE  Candidate(chunk, bound) \in 0 .. MaxWord
<1>1. byte_len(bound) \in 1 .. BufLen /\ BufLen \in Nat
  BY LoopAssumption, ByteLenFits
<1>2. byte_len(bound) \in Nat /\ byte_len(bound) <= BufLen
  BY <1>1
<1>3. Candidate(chunk, bound) \in 0 .. Weight(byte_len(bound)) - 1
  BY <1>2, MaskedBytes, LittleEndianInRange, Zenon DEF Candidate
<1>4. /\ Weight(byte_len(bound)) <= Weight(BufLen) /\ Weight(byte_len(bound)) \in Nat
      /\ Weight(BufLen) \in Nat
  BY <1>1, <1>2, WeightIs
<1> QED BY <1>3, <1>4 DEF MaxWord, Weight

LEMMA TypeNext == RInv /\ TypeOK /\ [Next]_vars => TypeOK'
<1> SUFFICES ASSUME RInv, TypeOK, [Next]_vars PROVE TypeOK'
  OBVIOUS
<1>0. /\ MaxWord \in Nat /\ bound \in Nat /\ bound <= MaxWord /\ bound \in Bounds
      /\ rand_buf \in [1 .. BufLen -> Byte] /\ candidate \in 0 .. MaxWord /\ ret \in 0 .. MaxWord
  <2>1. Weight(BufLen) \in Nat \ {0} /\ MaxWord = Weight(BufLen) - 1
    BY LoopAssumption, WeightIs DEF MaxWord, Weight
  <2>2. bound \in Nat /\ bound < Weight(BufLen) /\ bound \in Bounds
    BY LoopAssumption DEF TypeOK, Weight
  <2> QED BY <2>1, <2>2 DEF TypeOK
<1>1. CASE EarlyOut
  <2>1. bound' = bound /\ rand_buf' = rand_buf /\ candidate' = candidate /\ pc' = "done" /\ ret' = 1
    BY <1>1 DEF EarlyOut
  <2>2. 1 <= MaxWord
    <3>1. PICK q \in Nat : ByteBits * BufLen = q + 1
      <4>1. ByteBits \in Nat \ {0} /\ BufLen \in Nat \ {0}
        BY LoopAssumption, ByteBitsAssumption
      <4>2. ByteBits * BufLen \in Nat /\ ByteBits * BufLen # 0
        BY <4>1
      <4> QED BY <4>2
    <3>2. Pow2[q + 1] = 2 * Pow2[q] /\ Pow2[q] \in Nat \ {0}
      BY Pow2Is
    <3> QED BY <3>1, <3>2 DEF MaxWord
  <2>3. 1 \in 0 .. MaxWord
    BY <1>0, <2>2
  <2> QED BY <1>0, <2>1, <2>3 DEF TypeOK, MaxWord
<1>2. CASE Pass
  <2>1. PICK chunk \in Chunks(bound) : Draw(chunk)
    BY <1>2, Zenon DEF Pass
  <2>2. bound > 1 /\ pc = "loop"
    BY <1>2 DEF Pass, Looping
  <2>3. /\ rand_buf' = Filled(chunk) /\ candidate' = Candidate(chunk, bound)
        /\ bound' = bound /\ pc' = pc /\ ret' = ret
    BY <1>0, <2>1, <2>2, DecodesChunk DEF Draw
  <2>4. Filled(chunk) \in [1 .. BufLen -> Byte] /\ Candidate(chunk, bound) \in 0 .. MaxWord
    BY <1>0, <2>2, MaskedBytes, CandidateFits, Zenon
  <2> QED BY <1>0, <2>2, <2>3, <2>4 DEF TypeOK, MaxWord
<1>3. CASE SourceError
  BY <1>0, <1>3 DEF SourceError, TypeOK, MaxWord
<1>4. CASE Return
  <2>1. /\ bound' = bound /\ rand_buf' = rand_buf /\ candidate' = candidate /\ pc' = "done"
        /\ ret' = 1 + candidate /\ candidate \in 1 .. bound - 1
    BY <1>4 DEF Return, Accepted
  <2>2. 1 + candidate \in 0 .. MaxWord
    BY <1>0, <2>1
  <2> QED BY <1>0, <2>1, <2>2 DEF TypeOK, MaxWord
<1>5. CASE UNCHANGED vars
  BY <1>5, Zenon DEF vars, TypeOK, MaxWord
<1> QED BY <1>1, <1>2, <1>3, <1>4, <1>5, Zenon DEF Next

\* rand_buf holds bytes, and neither the decoded candidate nor 1 + inc leaves the
\* word that rand_buf can hold, for any width of a byte, any size of the buffer
\* and any bounds that fit it.
THEOREM RandomTypeCorrect == Spec => []TypeOK
<1>1. Init => TypeOK
  <2>1. 0 \in 0 .. MaxWord
    <3>1. Weight(BufLen) \in Nat \ {0} /\ MaxWord = Weight(BufLen) - 1
      BY LoopAssumption, WeightIs DEF MaxWord, Weight
    <3> QED BY <3>1
  <2> QED BY <2>1 DEF Init, TypeOK, MaxWord
<1> QED BY <1>1, TypeNext, RandomInvariance, PTL DEF Spec

\* For every bound above 1 some chunk ends the loop: little-endian 1 survives the mask
\* and is accepted.  What Terminates assumes of the source, that it delivers such a
\* chunk some time, is therefore never an assumption on an empty set.
THEOREM SomeChunkIsAccepted ==
  \A b \in Bounds : b > 1 => \E chunk \in Chunks(b) : Accepted(Candidate(chunk, b), b)
<1> SUFFICES ASSUME NEW b \in Bounds, b > 1
             PROVE  \E chunk \in Chunks(b) : Accepted(Candidate(chunk, b), b)
  OBVIOUS
<1>1. PICK n \in Nat : n = byte_len(b) /\ n >= 1
  <2>1. byte_len(b) \in 1 .. BufLen /\ BufLen \in Nat
    BY LoopAssumption, ByteLenFits
  <2> QED BY <2>1
<1> DEFINE chunk == [i \in 1 .. n |-> IF i = 1 THEN 1 ELSE 0]
<1>2. \A k \in Nat : k >= 1 => Pow2[k] \in Nat /\ Pow2[k] >= 2
  <2> SUFFICES ASSUME NEW k \in Nat, k >= 1 PROVE Pow2[k] \in Nat /\ Pow2[k] >= 2
    OBVIOUS
  <2>1. k - 1 \in Nat /\ k - 1 + 1 = k
    OBVIOUS
  <2>2. Pow2[k - 1 + 1] = 2 * Pow2[k-1] /\ Pow2[k-1] \in Nat \ {0}
    BY <2>1, Pow2Is
  <2> QED BY <2>1, <2>2
<1>3. 0 \in Byte /\ 1 \in Byte
  <2>1. Pow2[ByteBits] \in Nat /\ Pow2[ByteBits] >= 2
    BY <1>2, ByteBitsAssumption
  <2> QED BY <2>1 DEF Byte
<1>4. chunk \in [1 .. n -> Byte] /\ 1 \in 1 .. n
  BY <1>1, <1>3
<1>5. chunk[1] = 1 /\ \A i \in 2 .. n : chunk[i] = 0
  BY <1>4
<1>6. chunk[1] % Pow2[msbit_len(b)] = 1
  <2>1. PICK c \in Nat : c = Pow2[msbit_len(b)] /\ c >= 2
    BY <1>2, ByteLenFits
  <2>2. 1 % c = 1
    BY <2>1
  <2> QED BY <1>5, <2>1, <2>2
<1> HIDE DEF chunk
<1>7. MaskFirst(chunk, b) = chunk
  <2>1. MaskFirst(chunk, b) = [chunk EXCEPT ![1] = 1]
    BY <1>6 DEF MaskFirst
  <2>2. chunk = [i \in 1 .. n |-> chunk[i]]
    BY <1>4
  <2> QED BY <1>4, <1>5, <2>1, <2>2
<1>8. Candidate(chunk, b) = 1
  BY <1>1, <1>4, <1>5, <1>7, OneInBytes DEF Candidate
<1>9. Accepted(1, b)
  BY LoopAssumption DEF Accepted
<1>10. chunk \in Chunks(b)
  BY <1>1, <1>4 DEF Chunks
<1> QED BY <1>8, <1>9, <1>10
=============================================================================
