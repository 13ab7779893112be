-------------------------- MODULE UlidValueProofs --------------------------
(***************************************************************************)
(* The time and the entropy of a ULID read back as they were written, and  *)
(* ULIDs compare as their times and then their entropies, for any size of  *)
(* a byte, any arguments, any reader and any sequence of operations.       *)
(*                                                                         *)
(* The argument is positional notation: the six time bytes are the digits  *)
(* of the time to the base ByteSize, read by time as a polynomial in the   *)
(* weights, and here from the most significant byte on (Prefix1..Prefix6). *)
(***************************************************************************)
EXTENDS UlidValue, TLAPS, SequenceTheorems

-----------------------------------------------------------------------------
\* Quotient and remainder of a division by any positive number.
LEMMA Euclid ==
  ASSUME NEW x \in Nat, NEW d \in Nat, d > 0
  PROVE  x \div d \in Nat /\ x % d \in Nat /\ x % d < d /\ x = d * (x \div d) + (x % d)
BY SMT

\* Multiples of d of two different numbers are at least d apart.
LEMMA Multiples ==
  ASSUME NEW d \in Nat, NEW p \in Int, NEW q \in Int, p < q, d > 0
  PROVE  d * p + d <= d * q
<1>1. PICK k \in Nat : q = p + 1 + k
  <2>1. q - p - 1 \in Nat
    OBVIOUS
  <2> QED BY <2>1
<1>2. d * q = d * p + d + d * k
  BY <1>1
<1>3. d * k \in Nat
  BY SMT
<1>4. d * p \in Int /\ d * q \in Int
  OBVIOUS
<1> QED BY <1>2, <1>3, <1>4

\* Quotient and remainder are determined by their equation.
LEMMA EuclidUnique ==
  ASSUME NEW x \in Nat, NEW d \in Nat, d > 0, NEW p \in Nat, NEW t \in Nat, t < d, x = d * p + t
  PROVE  x \div d = p /\ x % d = t
<1>1. PICK q \in Nat, r \in Nat : q = x \div d /\ r = x % d /\ r < d /\ x = d * q + r
  BY Euclid
<1>2. PICK y \in Int, z \in Int : y = d * p /\ z = d * q
  OBVIOUS
<1>3. ~(p < q)
  <2>1. ASSUME p < q PROVE FALSE
    <3>1. d * p + d <= d * q
      BY <2>1, Multiples
    <3>2. y + d <= z /\ y + t = z + r
      BY <1>1, <1>2, <3>1
    <3> QED BY <1>1, <1>2, <3>2
  <2> QED BY <2>1
<1>4. ~(q < p)
  <2>1. ASSUME q < p PROVE FALSE
    <3>1. d * q + d <= d * p
      BY <2>1, Multiples
    <3>2. z + d <= y /\ y + t = z + r
      BY <1>1, <1>2, <3>1
    <3> QED BY <1>1, <1>2, <3>2
  <2> QED BY <2>1
<1>5. p = q
  BY <1>3, <1>4
<1>6. t = r
  BY <1>1, <1>2, <1>5
<1> QED BY <1>1, <1>5, <1>6

\* Dividing by a product is dividing by its factors one after the other: a
\* shift by 16 is two shifts by 8.
LEMMA DivDiv ==
  ASSUME NEW x \in Nat, NEW b \in Nat, b > 0, NEW c \in Nat, c > 0
  PROVE  x \div (b * c) = (x \div b) \div c
<1>1. PICK q \in Nat, r \in Nat : q = x \div b /\ r < b /\ x = b * q + r
  BY Euclid
<1>2. PICK p \in Nat, s \in Nat : p = q \div c /\ s < c /\ q = c * p + s
  BY Euclid
<1>3. x = (b * c) * p + (b * s + r)
  BY <1>1, <1>2
<1>4. b * c \in Nat /\ b * c > 0 /\ b * s + r \in Nat
  BY SMT
<1>5. b * s + r < b * c
  <2>1. b * s + b <= b * c
    BY <1>2, Multiples
  <2>2. PICK y \in Int, z \in Int : y = b * s /\ z = b * c
    OBVIOUS
  <2> QED BY <1>1, <2>1, <2>2
<1>6. x \div (b * c) = p
  BY <1>3, <1>4, <1>5, EuclidUnique
<1> QED BY <1>1, <1>2, <1>6

-----------------------------------------------------------------------------
\* The value of the first bytes of the time, from the most significant on.
Prefix1(u) == u[1]
Prefix2(u) == Prefix1(u) * ByteSize + u[2]
Prefix3(u) == Prefix2(u) * ByteSize + u[3]
Prefix4(u) == Prefix3(u) * ByteSize + u[4]
Prefix5(u) == Prefix4(u) * ByteSize + u[5]
Prefix6(u) == Prefix5(u) * ByteSize + u[6]

\* The weights are positive.
LEMMA Weights ==
  /\ ByteSize \in Nat /\ ByteSize > 1
  /\ Weight2 \in Nat /\ Weight2 > 0
  /\ Weight3 \in Nat /\ Weight3 > 0
  /\ Weight4 \in Nat /\ Weight4 > 0
  /\ Weight5 \in Nat /\ Weight5 > 0
  /\ Weight5 * ByteSize \in Nat /\ Weight5 * ByteSize > 0
<1>1. ByteSize \in Nat /\ ByteSize > 1
  BY ValueAssumption
<1>2. \A x, y \in Nat : x > 0 /\ y > 0 => x * y \in Nat /\ x * y > 0
  BY SMT
<1>3. Weight2 \in Nat /\ Weight2 > 0
  BY <1>1, <1>2 DEF Weight2
<1>4. Weight3 \in Nat /\ Weight3 > 0
  BY <1>1, <1>2, <1>3 DEF Weight3
<1>5. Weight4 \in Nat /\ Weight4 > 0
  BY <1>1, <1>2, <1>4 DEF Weight4
<1>6. Weight5 \in Nat /\ Weight5 > 0
  BY <1>1, <1>2, <1>5 DEF Weight5
<1>7. Weight5 * ByteSize \in Nat /\ Weight5 * ByteSize > 0
  BY <1>1, <1>2, <1>6
<1> QED BY <1>1, <1>3, <1>4, <1>5, <1>6, <1>7

\* A polynomial of degree five, and the same by nested multiplication.
Polynomial(b, c1, c2, c3, c4, c5, c6) ==
  c1 * ((((b * b) * b) * b) * b) + c2 * (((b * b) * b) * b) + c3 * ((b * b) * b)
    + c4 * (b * b) + c5 * b + c6

Nested(b, c1, c2, c3, c4, c5, c6) ==
  ((((c1 * b + c2) * b + c3) * b + c4) * b + c5) * b + c6

\* The bytes of a ULID are numbers below ByteSize.
LEMMA Bytes ==
  ASSUME NEW u \in Ulid, NEW i \in 1 .. RAW_SIZE
  PROVE  u[i] \in Nat /\ u[i] < ByteSize
BY Weights DEF Ulid, Byte

\* The parts of a ULID.
LEMMA Positions == RAW_SIZE = 16 /\ TimeSize = 6 /\ EntropySize = 10
BY DEF RAW_SIZE, TimeSize, EntropySize

\* The prefixes are numbers, and the last one is the time.
LEMMA PrefixValues ==
  ASSUME NEW u \in Ulid
  PROVE  /\ Prefix1(u) \in Nat /\ Prefix2(u) \in Nat /\ Prefix3(u) \in Nat
         /\ Prefix4(u) \in Nat /\ Prefix5(u) \in Nat /\ Prefix6(u) \in Nat
         /\ time(u) = Prefix6(u)
<1>1. /\ u[1] \in Nat /\ u[2] \in Nat /\ u[3] \in Nat
      /\ u[4] \in Nat /\ u[5] \in Nat /\ u[6] \in Nat
  BY Bytes, Positions
<1>2. \A x, y \in Nat : x * ByteSize + y \in Nat
  BY Weights
<1>3. Prefix1(u) \in Nat
  BY <1>1 DEF Prefix1
<1>4. Prefix2(u) \in Nat
  BY <1>1, <1>2, <1>3 DEF Prefix2
<1>5. Prefix3(u) \in Nat
  BY <1>1, <1>2, <1>4 DEF Prefix3
<1>6. Prefix4(u) \in Nat
  BY <1>1, <1>2, <1>5 DEF Prefix4
<1>7. Prefix5(u) \in Nat
  BY <1>1, <1>2, <1>6 DEF Prefix5
<1>8. Prefix6(u) \in Nat
  BY <1>1, <1>2, <1>7 DEF Prefix6
<1>9. time(u) = Prefix6(u)
  <2>1. /\ u[1] \in Int /\ u[2] \in Int /\ u[3] \in Int
        /\ u[4] \in Int /\ u[5] \in Int /\ u[6] \in Int /\ ByteSize \in Int
    BY <1>1, Weights
  <2>2. time(u) = Polynomial(ByteSize, u[1], u[2], u[3], u[4], u[5], u[6])
    BY Zenon DEF time, Weight2, Weight3, Weight4, Weight5, Polynomial
  <2>3. Prefix6(u) = Nested(ByteSize, u[1], u[2], u[3], u[4], u[5], u[6])
    BY Zenon DEF Prefix1, Prefix2, Prefix3, Prefix4, Prefix5, Prefix6, Nested
  <2>4. PICK b \in Int : b = ByteSize
    BY <2>1
  <2>5. PICK c1 \in Int : c1 = u[1]
    BY <2>1
  <2>6. PICK c2 \in Int : c2 = u[2]
    BY <2>1
  <2>7. PICK c3 \in Int : c3 = u[3]
    BY <2>1
  <2>8. PICK c4 \in Int : c4 = u[4]
    BY <2>1
  <2>9. PICK c5 \in Int : c5 = u[5]
    BY <2>1
  <2>10. PICK c6 \in Int : c6 = u[6]
    BY <2>1
  <2>11. Polynomial(b, c1, c2, c3, c4, c5, c6) = Nested(b, c1, c2, c3, c4, c5, c6)
    BY SMT DEF Polynomial, Nested
  <2> QED BY <2>2, <2>3, <2>4, <2>5, <2>6, <2>7, <2>8, <2>9, <2>10, <2>11, Zenon
<1> QED BY <1>3, <1>4, <1>5, <1>6, <1>7, <1>8, <1>9

\* Appending a digit keeps the order of two numbers, and compares the digits
\* where the numbers agree.
DigitOrder(p, a, x, q, c, y) ==
  /\ (p = q) <=> (a = c /\ x = y)
  /\ (p < q) <=> (a < c \/ (a = c /\ x < y))

LEMMA Digit ==
  ASSUME NEW a \in Nat, NEW c \in Nat, NEW x \in Nat, NEW y \in Nat,
         x < ByteSize, y < ByteSize
  PROVE  DigitOrder(a * ByteSize + x, a, x, c * ByteSize + y, c, y)
<1> USE DEF DigitOrder
<1> PICK b \in Nat : b = ByteSize /\ b > 0
  BY Weights
<1>1. PICK p \in Nat, q \in Nat : p = a * b /\ q = c * b
  BY SMT
<1>2. CASE a < c
  <2>1. b * a + b <= b * c
    BY <1>2, Multiples
  <2>2. p + b <= q
    BY <1>1, <2>1
  <2> QED BY <1>1, <1>2, <2>2
<1>3. CASE c < a
  <2>1. b * c + b <= b * a
    BY <1>3, Multiples
  <2>2. q + b <= p
    BY <1>1, <2>1
  <2> QED BY <1>1, <1>3, <2>2
<1>4. CASE a = c
  <2>1. p = q
    BY <1>1, <1>4
  <2> QED BY <1>1, <1>4, <2>1
<1> QED BY <1>2, <1>3, <1>4

-----------------------------------------------------------------------------
(* The time is its six bytes.                                              *)

\* The quotients of a time by the weights are successive divisions by ByteSize.
LEMMA Shifts ==
  ASSUME NEW ms \in Nat
  PROVE  /\ ms \div Weight2 = (ms \div ByteSize) \div ByteSize
         /\ ms \div Weight3 = (ms \div Weight2) \div ByteSize
         /\ ms \div Weight4 = (ms \div Weight3) \div ByteSize
         /\ ms \div Weight5 = (ms \div Weight4) \div ByteSize
         /\ ms \div (Weight5 * ByteSize) = (ms \div Weight5) \div ByteSize
<1>1. /\ ByteSize \in Nat /\ ByteSize > 0 /\ Weight2 \in Nat /\ Weight2 > 0
      /\ Weight3 \in Nat /\ Weight3 > 0 /\ Weight4 \in Nat /\ Weight4 > 0
      /\ Weight5 \in Nat /\ Weight5 > 0
  BY Weights
<1>2. ms \div (ByteSize * ByteSize) = (ms \div ByteSize) \div ByteSize
  BY <1>1, DivDiv
<1>3. ms \div (Weight2 * ByteSize) = (ms \div Weight2) \div ByteSize
  BY <1>1, DivDiv
<1>4. ms \div (Weight3 * ByteSize) = (ms \div Weight3) \div ByteSize
  BY <1>1, DivDiv
<1>5. ms \div (Weight4 * ByteSize) = (ms \div Weight4) \div ByteSize
  BY <1>1, DivDiv
<1>6. ms \div (Weight5 * ByteSize) = (ms \div Weight5) \div ByteSize
  BY <1>1, DivDiv
<1> QED BY <1>2, <1>3, <1>4, <1>5, <1>6, Zenon DEF Weight2, Weight3, Weight4, Weight5

\* The six bytes of a time are bytes.
LEMMA TimeBytesType ==
  ASSUME NEW ms \in Nat, NEW i \in 1 .. TimeSize
  PROVE  TimeBytes(ms)[i] \in Byte
<1>1. /\ ms \div ByteSize \in Nat /\ ms \div Weight2 \in Nat /\ ms \div Weight3 \in Nat
      /\ ms \div Weight4 \in Nat /\ ms \div Weight5 \in Nat
  BY Euclid, Weights
<1>2. \A x \in Nat : x % ByteSize \in Byte
  <2>1. ASSUME NEW x \in Nat PROVE x % ByteSize \in Byte
    <3>1. ByteSize \in Nat /\ ByteSize > 0
      BY Weights
    <3>2. x % ByteSize \in Nat /\ x % ByteSize < ByteSize
      BY <3>1, Euclid
    <3> QED BY <3>1, <3>2 DEF Byte
  <2> QED BY <2>1
<1>3. /\ (ms \div Weight5) % ByteSize \in Byte /\ (ms \div Weight4) % ByteSize \in Byte
      /\ (ms \div Weight3) % ByteSize \in Byte /\ (ms \div Weight2) % ByteSize \in Byte
      /\ (ms \div ByteSize) % ByteSize \in Byte /\ ms % ByteSize \in Byte
  BY <1>1, <1>2
<1>4. i \in {1, 2, 3, 4, 5, 6}
  BY Positions
<1> QED BY <1>3, <1>4 DEF TimeBytes

\* Storing a time gives a ULID with the bytes of that time.
LEMMA WithTimeType ==
  ASSUME NEW u \in Ulid, NEW ms \in Nat
  PROVE  /\ WithTime(u, ms) \in Ulid
         /\ \A i \in 1 .. TimeSize : WithTime(u, ms)[i] = TimeBytes(ms)[i]
         /\ \A i \in TimeSize + 1 .. RAW_SIZE : WithTime(u, ms)[i] = u[i]
<1>1. \A i \in 1 .. RAW_SIZE : u[i] \in Byte
  BY DEF Ulid
<1>2. \A i \in 1 .. TimeSize : TimeBytes(ms)[i] \in Byte
  BY TimeBytesType
<1> HIDE DEF TimeBytes, Byte
<1>3. ASSUME NEW i \in 1 .. RAW_SIZE
      PROVE  (IF i <= TimeSize THEN TimeBytes(ms)[i] ELSE u[i]) \in Byte
  BY <1>1, <1>2, Positions
<1>4. WithTime(u, ms) \in Ulid
  BY <1>3 DEF WithTime, Ulid
<1>5. \A i \in 1 .. TimeSize : WithTime(u, ms)[i] = TimeBytes(ms)[i]
  BY Positions DEF WithTime
<1>6. \A i \in TimeSize + 1 .. RAW_SIZE : WithTime(u, ms)[i] = u[i]
  BY Positions DEF WithTime
<1> QED BY <1>4, <1>5, <1>6

\* The prefixes are below the weight of the bytes that follow them.
LEMMA TimeInRange ==
  ASSUME NEW u \in Ulid
  PROVE  time(u) \in Nat /\ time(u) < Weight5 * ByteSize
<1>1. /\ u[1] \in Nat /\ u[2] \in Nat /\ u[3] \in Nat
      /\ u[4] \in Nat /\ u[5] \in Nat /\ u[6] \in Nat
      /\ u[1] < ByteSize /\ u[2] < ByteSize /\ u[3] < ByteSize
      /\ u[4] < ByteSize /\ u[5] < ByteSize /\ u[6] < ByteSize
  BY Bytes, Positions
<1>2. ASSUME NEW p \in Nat, NEW w \in Nat, p < w, NEW x \in Nat, x < ByteSize
      PROVE  p * ByteSize + x < w * ByteSize
  <2>1. p * ByteSize + x < w * ByteSize + 0
    BY <1>2, Digit, Weights DEF DigitOrder
  <2> QED BY <2>1, Weights
<1>3. Prefix1(u) < ByteSize
  BY <1>1 DEF Prefix1
<1>4. Prefix2(u) < Weight2
  BY <1>1, <1>2, <1>3, PrefixValues, Weights DEF Prefix2, Weight2
<1>5. Prefix3(u) < Weight3
  BY <1>1, <1>2, <1>4, PrefixValues, Weights DEF Prefix3, Weight3
<1>6. Prefix4(u) < Weight4
  BY <1>1, <1>2, <1>5, PrefixValues, Weights DEF Prefix4, Weight4
<1>7. Prefix5(u) < Weight5
  BY <1>1, <1>2, <1>6, PrefixValues, Weights DEF Prefix5, Weight5
<1>8. Prefix6(u) < Weight5 * ByteSize
  BY <1>1, <1>2, <1>7, PrefixValues, Weights DEF Prefix6
<1> QED BY <1>8, PrefixValues

\* set_time then time: the low bits of the time come back, and all of a time
\* that fits.
LEMMA TimeOfWithTime ==
  ASSUME NEW u \in Ulid, NEW ms \in Nat
  PROVE  time(WithTime(u, ms)) = ms % (MaxTime + 1)
<1> DEFINE v == WithTime(u, ms)
<1>1. v \in Ulid
  BY WithTimeType
<1>2. /\ v[1] = (ms \div Weight5) % ByteSize /\ v[2] = (ms \div Weight4) % ByteSize
      /\ v[3] = (ms \div Weight3) % ByteSize /\ v[4] = (ms \div Weight2) % ByteSize
      /\ v[5] = (ms \div ByteSize) % ByteSize /\ v[6] = ms % ByteSize
  <2>1. 1 \in 1 .. TimeSize /\ 2 \in 1 .. TimeSize /\ 3 \in 1 .. TimeSize
        /\ 4 \in 1 .. TimeSize /\ 5 \in 1 .. TimeSize /\ 6 \in 1 .. TimeSize
    BY Positions
  <2>2. /\ v[1] = TimeBytes(ms)[1] /\ v[2] = TimeBytes(ms)[2] /\ v[3] = TimeBytes(ms)[3]
        /\ v[4] = TimeBytes(ms)[4] /\ v[5] = TimeBytes(ms)[5] /\ v[6] = TimeBytes(ms)[6]
    <3>1. \A i \in 1 .. TimeSize : v[i] = TimeBytes(ms)[i]
      BY WithTimeType, Zenon
    <3> HIDE DEF v
    <3> QED BY <2>1, <3>1, Zenon
  <2> HIDE DEF v
  <2> QED BY <2>2 DEF TimeBytes
<1> HIDE DEF v
<1>3. PICK b \in Nat : b = ByteSize /\ b > 0
  BY Weights
<1>4. PICK q1 \in Nat : q1 = ms \div ByteSize
  BY Euclid, Weights
<1>5. PICK q2 \in Nat : q2 = ms \div Weight2
  BY Euclid, Weights
<1>6. PICK q3 \in Nat : q3 = ms \div Weight3
  BY Euclid, Weights
<1>7. PICK q4 \in Nat : q4 = ms \div Weight4
  BY Euclid, Weights
<1>8. PICK q5 \in Nat : q5 = ms \div Weight5
  BY Euclid, Weights
<1>9. PICK q6 \in Nat : q6 = q5 \div b
  BY <1>3, Euclid
<1>10. ms = (((((b * b) * b) * b) * b) * b) * q6 + Nested(b, v[1], v[2], v[3], v[4], v[5], v[6])
  <2>1. /\ q2 = q1 \div b /\ q3 = q2 \div b /\ q4 = q3 \div b /\ q5 = q4 \div b
    BY <1>3, <1>4, <1>5, <1>6, <1>7, <1>8, Shifts, Zenon
  <2>2. /\ v[6] = ms % b /\ v[5] = q1 % b /\ v[4] = q2 % b /\ v[3] = q3 % b
        /\ v[2] = q4 % b /\ v[1] = q5 % b
    BY <1>2, <1>3, <1>4, <1>5, <1>6, <1>7, <1>8, Zenon
  <2>3. ASSUME NEW x \in Nat PROVE x % b \in Int /\ x = b * (x \div b) + (x % b)
    BY <1>3, Euclid
  <2>4. PICK r1 \in Int : r1 = v[6] /\ ms = b * q1 + r1
    BY <1>3, <1>4, <2>2, <2>3, Zenon
  <2>5. PICK r2 \in Int : r2 = v[5] /\ q1 = b * q2 + r2
    BY <2>1, <2>2, <2>3, Zenon
  <2>6. PICK r3 \in Int : r3 = v[4] /\ q2 = b * q3 + r3
    BY <2>1, <2>2, <2>3, Zenon
  <2>7. PICK r4 \in Int : r4 = v[3] /\ q3 = b * q4 + r4
    BY <2>1, <2>2, <2>3, Zenon
  <2>8. PICK r5 \in Int : r5 = v[2] /\ q4 = b * q5 + r5
    BY <2>1, <2>2, <2>3, Zenon
  <2>9. PICK r6 \in Int : r6 = v[1] /\ q5 = b * q6 + r6
    BY <1>9, <2>2, <2>3, Zenon
  <2>10. ms = (((((b * b) * b) * b) * b) * b) * q6 + Nested(b, r6, r5, r4, r3, r2, r1)
    <3>1. /\ ms = b * q1 + r1 /\ q1 = b * q2 + r2 /\ q2 = b * q3 + r3
          /\ q3 = b * q4 + r4 /\ q4 = b * q5 + r5 /\ q5 = b * q6 + r6
      BY <2>4, <2>5, <2>6, <2>7, <2>8, <2>9, Zenon
    <3> QED BY <3>1, SMT DEF Nested
  <2> QED BY <2>4, <2>5, <2>6, <2>7, <2>8, <2>9, <2>10, Zenon
<1>11. ms = (Weight5 * ByteSize) * q6 + time(v)
  <2>1. Prefix6(v) = Nested(b, v[1], v[2], v[3], v[4], v[5], v[6])
    BY <1>3, Zenon DEF Prefix1, Prefix2, Prefix3, Prefix4, Prefix5, Prefix6, Nested
  <2>2. Weight5 * ByteSize = ((((b * b) * b) * b) * b) * b
    BY <1>3, Zenon DEF Weight2, Weight3, Weight4, Weight5
  <2>3. time(v) = Prefix6(v)
    BY <1>1, PrefixValues
  <2> QED BY <1>10, <2>1, <2>2, <2>3, Zenon
<1>12. ms % (Weight5 * ByteSize) = time(v)
  BY <1>1, <1>11, TimeInRange, Weights, EuclidUnique
<1>13. MaxTime + 1 = Weight5 * ByteSize
  BY Weights DEF MaxTime
<1> QED BY <1>12, <1>13 DEF v

-----------------------------------------------------------------------------
(* The entropy is the ten bytes that follow.                               *)

\* A stored entropy is ten bytes.
Entropy == [1 .. EntropySize -> Byte]

\* Entropies with the same bytes are equal.
LEMMA SameTenBytes ==
  \A f, g \in Entropy : (\A i \in 1 .. EntropySize : f[i] = g[i]) => f = g
<1> SUFFICES ASSUME NEW f \in Entropy, NEW g \in Entropy,
                    \A i \in 1 .. EntropySize : f[i] = g[i]
             PROVE  f = g
  BY Zenon
<1>1. f = [i \in 1 .. EntropySize |-> f[i]] /\ g = [i \in 1 .. EntropySize |-> g[i]]
  BY Zenon DEF Entropy
<1>2. [i \in 1 .. EntropySize |-> f[i]] = [i \in 1 .. EntropySize |-> g[i]]
  BY Zenon
<1> QED BY <1>1, <1>2, Zenon

\* The bytes of an entropy: the i-th is byte TimeSize + i of the ULID.
LEMMA EntropyBytes ==
  ASSUME NEW u \in Ulid
  PROVE  /\ entropy(u) \in Entropy
         /\ \A i \in 1 .. EntropySize : entropy(u)[i] = u[TimeSize + i]
<1>1. u \in Seq(Byte) /\ Len(u) = 16
  <2>1. u \in [1 .. 16 -> Byte]
    BY Positions DEF Ulid
  <2>2. u \in Seq(Byte)
    <3>1. [1 .. 16 -> Byte] \in {[1 .. n -> Byte] : n \in Nat}
      OBVIOUS
    <3>2. Seq(Byte) = UNION {[1 .. n -> Byte] : n \in Nat}
      BY SeqDef, Zenon
    <3> QED BY <2>1, <3>1, <3>2, Zenon
  <2> QED BY <2>1, <2>2, LenProperties
<1>2. /\ entropy(u) \in Seq(Byte) /\ Len(entropy(u)) = 10
      /\ \A i \in 1 .. 10 : entropy(u)[i] = u[7 + i - 1]
  <2>1. \A i \in 7 .. 16 : u[i] \in Byte
    BY Positions DEF Ulid
  <2>2. entropy(u) = SubSeq(u, 7, 16)
    BY Positions DEF entropy
  <2> QED BY <2>1, <2>2, SubSeqProperties
<1>3. entropy(u) \in [1 .. 10 -> Byte]
  BY <1>2, LenProperties
<1> QED BY <1>2, <1>3, Positions DEF Entropy

\* Two ULIDs have the same entropy when their last ten bytes agree.
LEMMA SameEntropy ==
  ASSUME NEW u \in Ulid, NEW v \in Ulid, \A i \in TimeSize + 1 .. RAW_SIZE : u[i] = v[i]
  PROVE  entropy(u) = entropy(v)
<1>1. \A i \in 1 .. EntropySize : entropy(u)[i] = entropy(v)[i]
  <2>1. ASSUME NEW i \in 1 .. EntropySize PROVE entropy(u)[i] = entropy(v)[i]
    <3>1. TimeSize + i \in TimeSize + 1 .. RAW_SIZE
      BY Positions
    <3> QED BY <3>1, EntropyBytes
  <2> QED BY <2>1
<1>2. /\ entropy(u) \in Entropy
      /\ entropy(v) \in Entropy
  BY EntropyBytes
<1> QED BY <1>1, <1>2, SameTenBytes, Zenon

\* Two ULIDs have the same time when their first six bytes agree.
LEMMA SameTime ==
  ASSUME NEW u \in Ulid, NEW v \in Ulid, \A i \in 1 .. TimeSize : u[i] = v[i]
  PROVE  time(u) = time(v)
BY Positions DEF time

\* A slice of length ten is a stored entropy.
LEMMA TenBytes ==
  ASSUME NEW e \in Seq(Byte), Len(e) = EntropySize
  PROVE  e \in Entropy
BY LenProperties DEF Entropy

\* set_entropy then entropy: the ten bytes come back and the time stays.
LEMMA ReadsOfWithEntropy ==
  ASSUME NEW u \in Ulid, NEW e \in Entropy
  PROVE  /\ WithEntropy(u, e) \in Ulid
         /\ entropy(WithEntropy(u, e)) = e
         /\ time(WithEntropy(u, e)) = time(u)
<1>1. \A i \in 1 .. RAW_SIZE : u[i] \in Byte
  BY DEF Ulid
<1>2. \A i \in 1 .. EntropySize : e[i] \in Byte
  BY DEF Entropy
<1>3. ASSUME NEW i \in 1 .. RAW_SIZE
      PROVE  (IF i > TimeSize THEN e[i - TimeSize] ELSE u[i]) \in Byte
  BY <1>1, <1>2, Positions
<1>4. WithEntropy(u, e) \in Ulid
  BY <1>3 DEF WithEntropy, Ulid
<1>5. \A i \in 1 .. TimeSize : WithEntropy(u, e)[i] = u[i]
  BY Positions DEF WithEntropy
<1>6. \A i \in 1 .. EntropySize : WithEntropy(u, e)[TimeSize + i] = e[i]
  BY Positions DEF WithEntropy
<1>7. time(WithEntropy(u, e)) = time(u)
  BY <1>4, <1>5, SameTime
<1>8. /\ entropy(WithEntropy(u, e)) \in Entropy
      /\ \A i \in 1 .. EntropySize :
           entropy(WithEntropy(u, e))[i] = WithEntropy(u, e)[TimeSize + i]
  BY <1>4, EntropyBytes
<1>9. entropy(WithEntropy(u, e)) = e
  <2>1. \A i \in 1 .. EntropySize : entropy(WithEntropy(u, e))[i] = e[i]
    BY <1>6, <1>8, Zenon
  <2> QED BY <1>8, <2>1, SameTenBytes, Zenon
<1> QED BY <1>4, <1>7, <1>9

\* set_time leaves the entropy.
LEMMA EntropyOfWithTime ==
  ASSUME NEW u \in Ulid, NEW ms \in Nat
  PROVE  entropy(WithTime(u, ms)) = entropy(u)
BY WithTimeType, SameEntropy

\* The ten bytes a SliceReader gives are bytes.
LEMMA NextBytesType ==
  ASSUME pos \in 0 .. Len(Buffer), Remaining >= EntropySize
  PROVE  NextBytes \in Entropy /\ pos + EntropySize \in 0 .. Len(Buffer)
<1>1. Buffer \in Seq(Byte) /\ Len(Buffer) \in Nat
  BY ValueAssumption, LenProperties
<1>2. pos + 1 \in 1 .. Len(Buffer) + 1 /\ pos + 10 \in 0 .. Len(Buffer) /\ pos \in Nat
  BY <1>1, Positions DEF Remaining
<1>3. /\ NextBytes \in Seq(Byte) /\ Len(NextBytes) = 10
  BY <1>1, <1>2, SubSeqProperties, Positions DEF NextBytes
<1> QED BY <1>2, <1>3, TenBytes, Positions

-----------------------------------------------------------------------------
\* The inductive invariant: what was asked for is a time and ten bytes, and
\* the ULID holds them.
Asked == [time : Nat, entropy : Entropy]

VInv == TypeOK /\ want \in Asked /\ ReadsBack

\* A time that fits is stored whole.
LEMMA Fits ==
  ASSUME NEW ms \in Nat, ms <= MaxTime
  PROVE  ms % (MaxTime + 1) = ms
<1>1. PICK d \in Nat : d = MaxTime + 1 /\ d > 0
  BY Weights DEF MaxTime
<1>2. ms < d
  BY <1>1, Weights DEF MaxTime
<1>3. ms = d * 0 + ms
  OBVIOUS
<1> QED BY <1>1, <1>2, <1>3, EuclidUnique

\* Ulid::ZERO has time zero.
LEMMA ZeroValue ==
  ZERO \in Ulid /\ time(ZERO) = 0 /\ entropy(ZERO) \in Entropy
<1>1. ZERO \in Ulid
  BY Weights, Positions DEF ZERO, Ulid, Byte
<1>2. time(ZERO) = 0
  <2>1. ZERO[1] = 0 /\ ZERO[2] = 0 /\ ZERO[3] = 0 /\ ZERO[4] = 0 /\ ZERO[5] = 0 /\ ZERO[6] = 0
    BY Positions DEF ZERO
  <2> QED BY <2>1, Weights DEF time
<1> QED BY <1>1, <1>2, EntropyBytes

\* A step that returns an error keeps the invariant.
LEMMA FailKeeps ==
  ASSUME VInv, debug' = debug, NEW error \in {"panic", "BigTime", "DataSize", "Read"}, Fail(error)
  PROVE  VInv'
BY Zenon DEF VInv, TypeOK, ReadsBack, TimeKept, Fail, Asked, Remaining

\* A ULID with time t and entropy e satisfies the invariant, when these are
\* what was asked for.
LEMMA StoredKeeps ==
  ASSUME NEW t \in Nat, NEW e \in Entropy, id' \in Ulid,
         TimeKept' => time(id') = t, entropy(id') = e,
         want' = [time |-> t, entropy |-> e], res' = "ok", pos' \in 0 .. Len(Buffer)
  PROVE  VInv'
<1>1. want' \in Asked
  BY DEF Asked
<1>2. want'.time = t /\ want'.entropy = e
  OBVIOUS
<1>3. ReadsBack'
  BY <1>2, Zenon DEF ReadsBack
<1>4. TypeOK'
  BY Zenon DEF TypeOK
<1> QED BY <1>1, <1>3, <1>4, Zenon DEF VInv

\* set_time and with_time_checked keep the invariant.
LEMMA StoreTimeKeeps ==
  ASSUME VInv, NEW ms \in Nat, debug' = debug, debug => ms <= MaxTime, StoreTime(ms)
  PROVE  VInv'
<1>1. id \in Ulid /\ want.entropy \in Entropy /\ entropy(id) = want.entropy
  BY DEF VInv, TypeOK, Asked, ReadsBack
<1>2. id' = WithTime(id, ms) /\ want' = [time |-> ms, entropy |-> want.entropy] /\ res' = "ok"
  BY DEF StoreTime
<1>3. id' \in Ulid
  BY <1>1, <1>2, WithTimeType
<1>4. TimeKept' => time(id') = ms
  <2> SUFFICES ASSUME TimeKept' PROVE time(id') = ms
    OBVIOUS
  <2>1. want'.time = ms
    BY <1>2
  <2>2. ms <= MaxTime
    BY <2>1, Zenon DEF TimeKept
  <2> QED BY <1>1, <1>2, <2>2, TimeOfWithTime, Fits
<1>5. entropy(id') = want.entropy
  BY <1>1, <1>2, EntropyOfWithTime
<1>6. pos' \in 0 .. Len(Buffer)
  BY Zenon DEF VInv, TypeOK, StoreTime
<1> QED BY <1>1, <1>2, <1>3, <1>4, <1>5, <1>6, StoredKeeps

\* A constructor establishes the invariant from nothing but its arguments.
LEMMA ConstructKeeps ==
  ASSUME NEW ms \in Nat, NEW e \in Entropy, Construct(ms, e), pos' \in 0 .. Len(Buffer)
  PROVE  VInv'
<1> DEFINE z == WithTime(ZERO, ms)
<1>1. z \in Ulid
  BY ZeroValue, WithTimeType
<1>2. time(z) = ms
  BY ZeroValue, TimeOfWithTime, Fits DEF Construct
<1> HIDE DEF z
<1>3. WithEntropy(z, e) \in Ulid /\ entropy(WithEntropy(z, e)) = e /\ time(WithEntropy(z, e)) = ms
  BY <1>1, <1>2, ReadsOfWithEntropy
<1>4. id' = WithEntropy(z, e) /\ want' = [time |-> ms, entropy |-> e] /\ res' = "ok"
  BY DEF Construct, z
<1> QED BY <1>3, <1>4, StoredKeeps

LEMMA InitHolds == Init => VInv
<1> SUFFICES ASSUME Init PROVE VInv
  OBVIOUS
<1>1. id = ZERO /\ want = [time |-> 0, entropy |-> entropy(ZERO)] /\ pos = 0 /\ res = "none"
  BY DEF Init
<1>2. Len(Buffer) \in Nat
  BY ValueAssumption, LenProperties
<1>3. pos \in 0 .. Len(Buffer)
  BY <1>1, <1>2
<1>4. TypeOK
  BY <1>1, <1>3, ZeroValue, Zenon DEF TypeOK
<1>5. want \in Asked
  BY <1>1, ZeroValue DEF Asked
<1>6. want.time = 0 /\ want.entropy = entropy(ZERO)
  BY <1>1
<1>7. ReadsBack
  BY <1>1, <1>6, ZeroValue, Zenon DEF ReadsBack
<1> QED BY <1>4, <1>5, <1>7 DEF VInv

LEMMA NextKeeps == VInv /\ [Next]_vars => VInv'
<1> SUFFICES ASSUME VInv, [Next]_vars PROVE VInv'
  OBVIOUS
<1>0. debug' = debug
  BY Zenon DEF Next, vars
<1>1. ASSUME NEW ms \in Times, SetTime(ms) PROVE VInv'
  <2>1. ms \in Nat
    BY ValueAssumption
  <2>2. CASE Fail("BigTime")
    BY <2>2, <1>0, FailKeeps
  <2>3. CASE ms <= MaxTime /\ StoreTime(ms)
    BY <2>1, <2>3, <1>0, StoreTimeKeeps
  <2> QED BY <1>1, <2>2, <2>3 DEF SetTime
<1>2. ASSUME NEW ms \in Times, WithTimeChecked(ms) PROVE VInv'
  <2>1. ms \in Nat
    BY ValueAssumption
  <2>2. CASE Fail("panic")
    BY <2>2, <1>0, FailKeeps
  <2>3. CASE (debug => ms <= MaxTime) /\ StoreTime(ms)
    BY <2>1, <2>3, <1>0, StoreTimeKeeps
  <2> QED BY <1>2, <2>2, <2>3 DEF WithTimeChecked
<1>3. ASSUME NEW ms \in Times, TimeTooBig(ms) PROVE VInv'
  BY <1>3, <1>0, FailKeeps DEF TimeTooBig
<1>4. ASSUME NEW ms \in Times, NewTimeOnly(ms) PROVE VInv'
  <2>1. pos' \in 0 .. Len(Buffer)
    BY <1>4, Zenon DEF NewTimeOnly, VInv, TypeOK
  <2>2. Construct(ms, entropy(ZERO))
    BY <1>4, Zenon DEF NewTimeOnly
  <2>3. ms \in Nat
    BY ValueAssumption
  <2> QED BY <2>1, <2>2, <2>3, ZeroValue, ConstructKeeps
<1>5. ASSUME NEW ms \in Times, NewFromSlice(ms) PROVE VInv'
  <2>1. CASE ShortRead
    BY <2>1, <1>0, FailKeeps DEF ShortRead
  <2>2. CASE /\ Remaining >= EntropySize
             /\ Construct(ms, NextBytes)
             /\ pos' = pos + EntropySize
    <3>1. NextBytes \in Entropy /\ pos' \in 0 .. Len(Buffer)
      BY <2>2, NextBytesType DEF VInv, TypeOK
    <3>2. ms \in Nat
      BY ValueAssumption
    <3> QED BY <2>2, <3>1, <3>2, ConstructKeeps
  <2> QED BY <1>5, <2>1, <2>2 DEF NewFromSlice
<1>6. ASSUME NEW e \in Entropies, SetEntropy(e) PROVE VInv'
  <2>1. CASE Len(e) # EntropySize /\ Fail("DataSize")
    BY <2>1, <1>0, FailKeeps
  <2>2. CASE /\ Len(e) = EntropySize
             /\ id' = WithEntropy(id, e) /\ want' = [time |-> want.time, entropy |-> e]
             /\ res' = "ok"
             /\ UNCHANGED <<pos, taken>>
    <3>1. e \in Entropy
      BY <2>2, ValueAssumption, TenBytes
    <3>2. id \in Ulid /\ want.time \in Nat /\ pos \in 0 .. Len(Buffer)
      BY DEF VInv, TypeOK, Asked
    <3>3. id' \in Ulid /\ entropy(id') = e /\ time(id') = time(id)
      BY <2>2, <3>1, <3>2, ReadsOfWithEntropy
    <3>4. TimeKept' => time(id') = want.time
      <4>1. want'.time = want.time
        BY <2>2
      <4> QED BY <1>0, <3>3, <4>1, Zenon DEF VInv, ReadsBack, TimeKept
    <3> QED BY <2>2, <3>1, <3>2, <3>3, <3>4, StoredKeeps
  <2> QED BY <1>6, <2>1, <2>2 DEF SetEntropy
<1>7. CASE UNCHANGED vars
  <2>1. UNCHANGED <<debug, id, pos, res, want>>
    BY <1>7 DEF vars
  <2>2. TimeKept' <=> TimeKept
    BY <2>1, Zenon DEF TimeKept
  <2>3. TypeOK' /\ want' \in Asked
    BY <2>1, Zenon DEF VInv, TypeOK
  <2>4. ReadsBack'
    BY <2>1, <2>2, Zenon DEF VInv, ReadsBack
  <2> QED BY <2>3, <2>4 DEF VInv
<1> QED BY <1>1, <1>2, <1>3, <1>4, <1>5, <1>6, <1>7, Zenon DEF Next

\* The invariant holds in every state.
THEOREM ValueInvariance == Spec => []VInv
BY InitHolds, NextKeeps, PTL DEF Spec

\* A ULID stays sixteen bytes, whatever set_time, with_time_checked,
\* set_entropy and the constructors are called with.
THEOREM UlidTypeCorrect == Spec => []TypeOK
<1>1. VInv => TypeOK
  BY DEF VInv
<1> QED BY <1>1, ValueInvariance, PTL

\* entropy returns what was last asked for, after any sequence of operations,
\* failed ones included; so does time, except after a with_time_checked of a
\* release build with a time above MaxTime; for every size of a byte.
THEOREM UlidReadsBack == Spec => []ReadsBack
<1>1. VInv => ReadsBack
  BY DEF VInv
<1> QED BY <1>1, ValueInvariance, PTL

-----------------------------------------------------------------------------
(* The order of ULIDs.                                                     *)

\* u and v agree before position i and differ there.
FirstLess(u, v, i) == u[i] < v[i] /\ \A j \in 1 .. i - 1 : u[j] = v[j]

\* The order of two times is the order of their six bytes.
LEMMA TimeOrder ==
  ASSUME NEW u \in Ulid, NEW v \in Ulid
  PROVE  /\ (time(u) = time(v)) <=> (\A i \in 1 .. 6 : u[i] = v[i])
         /\ (time(u) < time(v)) <=> (\E i \in 1 .. 6 : FirstLess(u, v, i))
<1>1. \A i \in 1 .. 6 : u[i] \in Nat /\ u[i] < ByteSize /\ v[i] \in Nat /\ v[i] < ByteSize
  BY Bytes, Positions
<1>2. DigitOrder(Prefix2(u), Prefix1(u), u[2], Prefix2(v), Prefix1(v), v[2])
  <2>1. Prefix1(u) \in Nat /\ Prefix1(v) \in Nat
    BY PrefixValues
  <2>2. u[2] \in Nat /\ u[2] < ByteSize /\ v[2] \in Nat /\ v[2] < ByteSize
    BY <1>1
  <2> QED BY <2>1, <2>2, Digit DEF Prefix2
<1>3. DigitOrder(Prefix3(u), Prefix2(u), u[3], Prefix3(v), Prefix2(v), v[3])
  <2>1. Prefix2(u) \in Nat /\ Prefix2(v) \in Nat
    BY PrefixValues
  <2>2. u[3] \in Nat /\ u[3] < ByteSize /\ v[3] \in Nat /\ v[3] < ByteSize
    BY <1>1
  <2> QED BY <2>1, <2>2, Digit DEF Prefix3
<1>4. DigitOrder(Prefix4(u), Prefix3(u), u[4], Prefix4(v), Prefix3(v), v[4])
  <2>1. Prefix3(u) \in Nat /\ Prefix3(v) \in Nat
    BY PrefixValues
  <2>2. u[4] \in Nat /\ u[4] < ByteSize /\ v[4] \in Nat /\ v[4] < ByteSize
    BY <1>1
  <2> QED BY <2>1, <2>2, Digit DEF Prefix4
<1>5. DigitOrder(Prefix5(u), Prefix4(u), u[5], Prefix5(v), Prefix4(v), v[5])
  <2>1. Prefix4(u) \in Nat /\ Prefix4(v) \in Nat
    BY PrefixValues
  <2>2. u[5] \in Nat /\ u[5] < ByteSize /\ v[5] \in Nat /\ v[5] < ByteSize
    BY <1>1
  <2> QED BY <2>1, <2>2, Digit DEF Prefix5
<1>6. DigitOrder(Prefix6(u), Prefix5(u), u[6], Prefix6(v), Prefix5(v), v[6])
  <2>1. Prefix5(u) \in Nat /\ Prefix5(v) \in Nat
    BY PrefixValues
  <2>2. u[6] \in Nat /\ u[6] < ByteSize /\ v[6] \in Nat /\ v[6] < ByteSize
    BY <1>1
  <2> QED BY <2>1, <2>2, Digit DEF Prefix6
<1>7. Prefix1(u) = u[1] /\ Prefix1(v) = v[1] /\ time(u) = Prefix6(u) /\ time(v) = Prefix6(v)
  BY PrefixValues DEF Prefix1
<1>8. (time(u) = time(v)) <=>
        (u[1] = v[1] /\ u[2] = v[2] /\ u[3] = v[3] /\ u[4] = v[4] /\ u[5] = v[5] /\ u[6] = v[6])
  BY <1>2, <1>3, <1>4, <1>5, <1>6, <1>7, Zenon DEF DigitOrder
<1>9. (time(u) < time(v)) <=>
        \/ u[1] < v[1]
        \/ u[1] = v[1] /\ u[2] < v[2]
        \/ u[1] = v[1] /\ u[2] = v[2] /\ u[3] < v[3]
        \/ u[1] = v[1] /\ u[2] = v[2] /\ u[3] = v[3] /\ u[4] < v[4]
        \/ u[1] = v[1] /\ u[2] = v[2] /\ u[3] = v[3] /\ u[4] = v[4] /\ u[5] < v[5]
        \/ u[1] = v[1] /\ u[2] = v[2] /\ u[3] = v[3] /\ u[4] = v[4] /\ u[5] = v[5] /\ u[6] < v[6]
  BY <1>2, <1>3, <1>4, <1>5, <1>6, <1>7, SMT DEF DigitOrder
<1>10. (\E i \in 1 .. 6 : FirstLess(u, v, i)) <=>
         \/ FirstLess(u, v, 1) \/ FirstLess(u, v, 2) \/ FirstLess(u, v, 3)
         \/ FirstLess(u, v, 4) \/ FirstLess(u, v, 5) \/ FirstLess(u, v, 6)
  OBVIOUS
<1>11. /\ FirstLess(u, v, 1) <=> u[1] < v[1]
       /\ FirstLess(u, v, 2) <=> (u[1] = v[1] /\ u[2] < v[2])
       /\ FirstLess(u, v, 3) <=> (u[1] = v[1] /\ u[2] = v[2] /\ u[3] < v[3])
  BY DEF FirstLess
<1>12. /\ FirstLess(u, v, 4) <=> (u[1] = v[1] /\ u[2] = v[2] /\ u[3] = v[3] /\ u[4] < v[4])
       /\ FirstLess(u, v, 5) <=>
            (u[1] = v[1] /\ u[2] = v[2] /\ u[3] = v[3] /\ u[4] = v[4] /\ u[5] < v[5])
       /\ FirstLess(u, v, 6) <=>
            (u[1] = v[1] /\ u[2] = v[2] /\ u[3] = v[3] /\ u[4] = v[4] /\ u[5] = v[5] /\ u[6] < v[6])
  BY DEF FirstLess
<1>13. (\A i \in 1 .. 6 : u[i] = v[i]) <=>
         (u[1] = v[1] /\ u[2] = v[2] /\ u[3] = v[3] /\ u[4] = v[4] /\ u[5] = v[5] /\ u[6] = v[6])
  OBVIOUS
<1>14. (time(u) < time(v)) <=> (\E i \in 1 .. 6 : FirstLess(u, v, i))
  BY <1>9, <1>10, <1>11, <1>12, Zenon
<1>15. (time(u) = time(v)) <=> (\A i \in 1 .. 6 : u[i] = v[i])
  BY <1>8, <1>13, Zenon
<1> QED BY <1>14, <1>15, Zenon

\* Arrays of n bytes compare at their first difference.
LEMMA ArrayOrder ==
  ASSUME NEW n \in Nat, NEW a \in [1 .. n -> Byte], NEW b
  PROVE  BytesLess(a, b) <=> (\E i \in 1 .. n : FirstLess(a, b, i))
<1>1. a \in Seq(Byte)
  <2>1. [1 .. n -> Byte] \in {[1 .. k -> Byte] : k \in Nat}
    OBVIOUS
  <2>2. Seq(Byte) = UNION {[1 .. k -> Byte] : k \in Nat}
    BY SeqDef, Zenon
  <2> QED BY <2>1, <2>2, Zenon
<1>2. Len(a) = n
  BY <1>1, LenProperties
<1> QED BY <1>2, Zenon DEF BytesLess, FirstLess

\* The first difference of two entropies, as a position of the ULIDs.
LEMMA EntropyOrder ==
  ASSUME NEW u \in Ulid, NEW v \in Ulid, \A i \in 1 .. 6 : u[i] = v[i], NEW i \in 1 .. 10
  PROVE  FirstLess(entropy(u), entropy(v), i) <=> FirstLess(u, v, 6 + i)
<1>1. \A k \in 1 .. 10 : entropy(u)[k] = u[6 + k] /\ entropy(v)[k] = v[6 + k]
  BY EntropyBytes, Positions
<1>2. (entropy(u)[i] < entropy(v)[i]) <=> (u[6 + i] < v[6 + i])
  BY <1>1
<1>3. ASSUME \A j \in 1 .. i - 1 : entropy(u)[j] = entropy(v)[j]
      PROVE  \A j \in 1 .. 6 + i - 1 : u[j] = v[j]
  <2>1. ASSUME NEW j \in 1 .. 6 + i - 1 PROVE u[j] = v[j]
    <3>1. CASE j <= 6
      BY <3>1
    <3>2. CASE j > 6
      <4>1. PICK k \in 1 .. i - 1 : j = 6 + k
        <5>1. j - 6 \in 1 .. i - 1 /\ j = 6 + (j - 6)
          BY <3>2
        <5> QED BY <5>1
      <4>2. k \in 1 .. 10
        BY <4>1
      <4> QED BY <1>1, <1>3, <4>1, <4>2
    <3> QED BY <3>1, <3>2
  <2> QED BY <2>1
<1>4. ASSUME \A j \in 1 .. 6 + i - 1 : u[j] = v[j]
      PROVE  \A j \in 1 .. i - 1 : entropy(u)[j] = entropy(v)[j]
  <2>1. ASSUME NEW j \in 1 .. i - 1 PROVE entropy(u)[j] = entropy(v)[j]
    <3>1. 6 + j \in 1 .. 6 + i - 1 /\ j \in 1 .. 10
      OBVIOUS
    <3> QED BY <1>1, <1>4, <3>1
  <2> QED BY <2>1
<1>5. (\A j \in 1 .. i - 1 : entropy(u)[j] = entropy(v)[j])
      <=> (\A j \in 1 .. 6 + i - 1 : u[j] = v[j])
  BY <1>3, <1>4
<1> QED BY <1>2, <1>5 DEF FirstLess

\* Comparing two ULIDs byte by byte is comparing their times first.
LEMMA TimeFirst ==
  ASSUME NEW u \in Ulid, NEW v \in Ulid
  PROVE  BytesLess(u, v) <=>
           (time(u) < time(v) \/ (time(u) = time(v) /\ BytesLess(entropy(u), entropy(v))))
<1>1. BytesLess(u, v) <=> (\E i \in 1 .. 16 : FirstLess(u, v, i))
  BY ArrayOrder, Positions DEF Ulid
<1>2. BytesLess(entropy(u), entropy(v)) <=> (\E i \in 1 .. 10 : FirstLess(entropy(u), entropy(v), i))
  BY EntropyBytes, ArrayOrder, Positions DEF Entropy
<1>3. ASSUME NEW i \in 1 .. 16, FirstLess(u, v, i)
      PROVE  time(u) < time(v) \/ (time(u) = time(v) /\ BytesLess(entropy(u), entropy(v)))
  <2>1. CASE i <= 6
    <3>1. i \in 1 .. 6
      BY <2>1
    <3> QED BY <1>3, <3>1, TimeOrder
  <2>2. CASE i > 6
    <3>1. \A j \in 1 .. 6 : u[j] = v[j]
      BY <1>3, <2>2 DEF FirstLess
    <3>2. PICK k \in 1 .. 10 : i = 6 + k
      <4>1. i - 6 \in 1 .. 10 /\ i = 6 + (i - 6)
        BY <2>2
      <4> QED BY <4>1
    <3>3. FirstLess(entropy(u), entropy(v), k)
      BY <1>3, <3>1, <3>2, EntropyOrder, Zenon
    <3>4. BytesLess(entropy(u), entropy(v))
      BY <1>2, <3>3, Zenon
    <3>5. time(u) = time(v)
      BY <3>1, TimeOrder
    <3> QED BY <3>4, <3>5
  <2> QED BY <2>1, <2>2
<1>4. ASSUME time(u) < time(v)
      PROVE  \E i \in 1 .. 16 : FirstLess(u, v, i)
  <2>1. PICK i \in 1 .. 6 : FirstLess(u, v, i)
    BY <1>4, TimeOrder
  <2>2. i \in 1 .. 16
    OBVIOUS
  <2> QED BY <2>1, <2>2
<1>5. ASSUME time(u) = time(v), BytesLess(entropy(u), entropy(v))
      PROVE  \E i \in 1 .. 16 : FirstLess(u, v, i)
  <2>1. \A j \in 1 .. 6 : u[j] = v[j]
    BY <1>5, TimeOrder
  <2>2. PICK k \in 1 .. 10 : FirstLess(entropy(u), entropy(v), k)
    BY <1>2, <1>5, Zenon
  <2>3. FirstLess(u, v, 6 + k)
    BY <2>1, <2>2, EntropyOrder, Zenon
  <2>4. 6 + k \in 1 .. 16
    OBVIOUS
  <2> QED BY <2>3, <2>4, Zenon
<1> QED BY <1>1, <1>3, <1>4, <1>5, Zenon

\* What a step does to the order of the ULID before and after it.
ComparesTimeFirst ==
  TimeKept /\ TimeKept' =>
    (BytesLess(id, id') <=>
       \/ want.time < want'.time
       \/ want.time = want'.time /\ BytesLess(want.entropy, want'.entropy))

\* compare and the derived Ord of the sixteen bytes agree with the order of the
\* times asked for and, at one time, of the entropies, whatever operation replaces
\* one ULID by the next, as long as no time was cut.
THEOREM UlidsSortByTime == Spec => OrderIsTimeFirst
<1>1. VInv /\ VInv' => ComparesTimeFirst
  <2> SUFFICES ASSUME VInv, VInv', TimeKept, TimeKept'
               PROVE  BytesLess(id, id') <=>
                        \/ want.time < want'.time
                        \/ want.time = want'.time /\ BytesLess(want.entropy, want'.entropy)
    BY DEF ComparesTimeFirst
  <2>1. id \in Ulid /\ id' \in Ulid
    BY Zenon DEF VInv, TypeOK
  <2>2. /\ time(id) = want.time /\ entropy(id) = want.entropy
        /\ time(id') = want'.time /\ entropy(id') = want'.entropy
    BY Zenon DEF VInv, ReadsBack
  <2>3. BytesLess(id, id') <=>
          (time(id) < time(id')
             \/ (time(id) = time(id') /\ BytesLess(entropy(id), entropy(id'))))
    BY <2>1, TimeFirst
  <2> QED BY <2>2, <2>3, Zenon
<1>2. VInv /\ VInv' => [ComparesTimeFirst]_vars
  BY <1>1
<1> QED BY <1>2, ValueInvariance, PTL DEF OrderIsTimeFirst, ComparesTimeFirst

-----------------------------------------------------------------------------
(* The bytes a SliceReader hands out.                                      *)

\* The i-th ten bytes of the slice.
Slice(i) == SubSeq(Buffer, EntropySize * (i - 1) + 1, EntropySize * i)

\* The inductive invariant: the history of the entropies taken is a sequence.
ReaderInv == taken \in Seq(Entropy) /\ ReaderIsConsumedInOrder

\* A step that leaves the reader and the history alone.
LEMMA ReaderAlone ==
  ASSUME ReaderInv, UNCHANGED <<pos, taken>>
  PROVE  ReaderInv'
BY Zenon DEF ReaderInv, ReaderIsConsumedInOrder

\* A successful read hands out the slice after the last one taken.
LEMMA ReaderMoves ==
  ASSUME VInv, ReaderInv, Remaining >= EntropySize,
         taken' = Append(taken, NextBytes), pos' = pos + EntropySize
  PROVE  ReaderInv'
<1>1. NextBytes \in Entropy
  BY NextBytesType DEF VInv, TypeOK
<1>2. PICK n \in Nat : n = Len(taken)
  BY LenProperties DEF ReaderInv
<1>3. /\ taken' \in Seq(Entropy) /\ Len(taken') = n + 1
      /\ taken'[n + 1] = NextBytes
      /\ \A i \in 1 .. n : taken'[i] = taken[i]
  BY <1>1, <1>2, AppendProperties DEF ReaderInv
<1>4. pos = 10 * n /\ (\A i \in 1 .. n : taken[i] = Slice(i))
  BY <1>2, Positions DEF ReaderInv, ReaderIsConsumedInOrder, Slice
<1>5. pos' = EntropySize * Len(taken')
  BY <1>3, <1>4, Positions
<1>6. NextBytes = Slice(n + 1)
  <2>1. pos + 1 = 10 * ((n + 1) - 1) + 1 /\ pos + 10 = 10 * (n + 1)
    BY <1>4
  <2> QED BY <2>1, Positions, Zenon DEF NextBytes, Slice
<1>7. \A i \in 1 .. n + 1 : taken'[i] = Slice(i)
  <2>1. ASSUME NEW i \in 1 .. n + 1 PROVE taken'[i] = Slice(i)
    <3>1. i \in 1 .. n \/ i = n + 1
      OBVIOUS
    <3> QED BY <1>3, <1>4, <1>6, <3>1, Zenon
  <2> QED BY <2>1
<1> QED BY <1>3, <1>5, <1>7, Zenon DEF ReaderInv, ReaderIsConsumedInOrder, Slice

\* Only a constructor that gets its ten bytes moves the reader.
LEMMA ReaderNext ==
  ASSUME VInv, ReaderInv, [Next]_vars
  PROVE  ReaderInv'
<1>1. ASSUME NEW ms \in Times, NewFromSlice(ms) PROVE ReaderInv'
  BY <1>1, ReaderAlone, ReaderMoves, Zenon DEF NewFromSlice, ShortRead, Fail
<1>2. ASSUME NEW ms \in Times,
             SetTime(ms) \/ WithTimeChecked(ms) \/ TimeTooBig(ms) \/ NewTimeOnly(ms)
      PROVE  ReaderInv'
  BY <1>2, ReaderAlone, Zenon
     DEF SetTime, WithTimeChecked, TimeTooBig, NewTimeOnly, StoreTime, Fail
<1>3. ASSUME NEW e \in Entropies, SetEntropy(e) PROVE ReaderInv'
  BY <1>3, ReaderAlone, Zenon DEF SetEntropy, Fail
<1>4. CASE UNCHANGED vars
  BY <1>4, ReaderAlone, Zenon DEF vars
<1> QED BY <1>1, <1>2, <1>3, <1>4, Zenon DEF Next

\* The constructors take the slice's bytes ten at a time, in order and without
\* gap or overlap, and one that fails leaves the reader where it was, for every
\* slice and every sequence of operations.
THEOREM ReaderInOrder == Spec => []ReaderIsConsumedInOrder
<1>1. Init => ReaderInv
  <2> SUFFICES ASSUME Init PROVE ReaderInv
    OBVIOUS
  <2>1. taken = <<>> /\ pos = 0
    BY Zenon DEF Init
  <2>2. taken \in Seq(Entropy) /\ Len(taken) = 0
    BY <2>1, EmptySeq
  <2> QED BY <2>1, <2>2, Positions DEF ReaderInv, ReaderIsConsumedInOrder
<1>2. VInv /\ ReaderInv /\ [Next]_vars => ReaderInv'
  BY ReaderNext
<1>3. ReaderInv => ReaderIsConsumedInOrder
  BY DEF ReaderInv
<1> QED BY <1>1, <1>2, <1>3, ValueInvariance, PTL DEF Spec
=============================================================================
