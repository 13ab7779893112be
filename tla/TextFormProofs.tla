--------------------------- MODULE TextFormProofs ---------------------------
(***************************************************************************)
(* The text form of every one of the 2^128 ULIDs: the shifts of            *)
(* marshal_text and of parse are inverse to each other.                    *)
(*                                                                         *)
(* Each shift expression is first shown to be arithmetic on one or two     *)
(* bytes or symbols; a group of five bytes then is a group of eight        *)
(* symbols, and a ULID is one byte and three groups.                       *)
(***************************************************************************)
EXTENDS TextForm, TLAPS, WellFoundedInduction

-----------------------------------------------------------------------------
(* u8 arithmetic.                                                          *)

\* Bit k of `x | y`, in its place.
OrBit(x, y, k) == IF Shr(x, k) % 2 = 1 \/ Shr(y, k) % 2 = 1 THEN 2^k ELSE 0

LEMMA OrBits ==
  ASSUME NEW x, NEW y
  PROVE  Or(x, y) = OrBit(x, y, 0) + OrBit(x, y, 1) + OrBit(x, y, 2) + OrBit(x, y, 3)
                    + OrBit(x, y, 4) + OrBit(x, y, 5) + OrBit(x, y, 6) + OrBit(x, y, 7)
BY Zenon DEF Or, OrBit

\* `|` gives a byte, whatever its operands.
LEMMA OrIsByte == \A x, y : Or(x, y) \in Byte
<1> TAKE x, y
<1>1. /\ OrBit(x, y, 0) \in {0, 1} /\ OrBit(x, y, 1) \in {0, 2}
      /\ OrBit(x, y, 2) \in {0, 4} /\ OrBit(x, y, 3) \in {0, 8}
  BY DEF OrBit
<1>2. /\ OrBit(x, y, 4) \in {0, 16} /\ OrBit(x, y, 5) \in {0, 32}
      /\ OrBit(x, y, 6) \in {0, 64} /\ OrBit(x, y, 7) \in {0, 128}
  BY DEF OrBit
<1> QED BY <1>1, <1>2, OrBits DEF Byte

\* What bit k of z adds to it, w being 2^k.
Part(z, k, w) == (Shr(z, k) % 2) * w

\* A byte is the sum of its bits.
LEMMA Parts ==
  ASSUME NEW z \in 0 .. 255
  PROVE  /\ z = Part(z, 0, 1) + Part(z, 1, 2) + Part(z, 2, 4) + Part(z, 3, 8)
              + Part(z, 4, 16) + Part(z, 5, 32) + Part(z, 6, 64) + Part(z, 7, 128)
         /\ Part(z, 0, 1) \in Int /\ Part(z, 1, 2) \in Int /\ Part(z, 2, 4) \in Int
         /\ Part(z, 3, 8) \in Int /\ Part(z, 4, 16) \in Int /\ Part(z, 5, 32) \in Int
         /\ Part(z, 6, 64) \in Int /\ Part(z, 7, 128) \in Int
<1>1. /\ 2^0 = 1 /\ 2^1 = 2 /\ 2^2 = 4 /\ 2^3 = 8 /\ 2^4 = 16 /\ 2^5 = 32 /\ 2^6 = 64 /\ 2^7 = 128
  OBVIOUS
<1>2. /\ Part(z, 0, 1) = ((z \div 1) % 2) * 1 /\ Part(z, 1, 2) = ((z \div 2) % 2) * 2
      /\ Part(z, 2, 4) = ((z \div 4) % 2) * 4 /\ Part(z, 3, 8) = ((z \div 8) % 2) * 8
      /\ Part(z, 4, 16) = ((z \div 16) % 2) * 16 /\ Part(z, 5, 32) = ((z \div 32) % 2) * 32
      /\ Part(z, 6, 64) = ((z \div 64) % 2) * 64 /\ Part(z, 7, 128) = ((z \div 128) % 2) * 128
  BY <1>1 DEF Part, Shr
<1> DEFINE h1 == z \div 2   h2 == z \div 4   h3 == z \div 8   h4 == z \div 16
           h5 == z \div 32  h6 == z \div 64  h7 == z \div 128
<1>3. /\ h1 \in 0 .. 127 /\ h2 \in 0 .. 63 /\ h3 \in 0 .. 31 /\ h4 \in 0 .. 15
      /\ h5 \in 0 .. 7 /\ h6 \in 0 .. 3 /\ h7 \in 0 .. 1
  OBVIOUS
<1>4. /\ z = 2 * h1 + (z % 2) /\ h1 = 2 * h2 + (h1 % 2) /\ h2 = 2 * h3 + (h2 % 2)
      /\ h3 = 2 * h4 + (h3 % 2) /\ h4 = 2 * h5 + (h4 % 2) /\ h5 = 2 * h6 + (h5 % 2)
      /\ h6 = 2 * h7 + (h6 % 2) /\ h7 = h7 % 2 /\ z \div 1 = z
  OBVIOUS
<1>5. /\ Part(z, 0, 1) = z % 2 /\ Part(z, 1, 2) = (h1 % 2) * 2 /\ Part(z, 2, 4) = (h2 % 2) * 4
      /\ Part(z, 3, 8) = (h3 % 2) * 8 /\ Part(z, 4, 16) = (h4 % 2) * 16 /\ Part(z, 5, 32) = (h5 % 2) * 32
      /\ Part(z, 6, 64) = (h6 % 2) * 64 /\ Part(z, 7, 128) = (h7 % 2) * 128
  BY <1>2, <1>4
<1> HIDE DEF h1, h2, h3, h4, h5, h6, h7
<1> QED BY <1>3, <1>4, <1>5

\* Bit k of `x | y` adds what the bits of x and of y add.
PartsAdd(x, y, k, w) == OrBit(x, y, k) = Part(x, k, w) + Part(y, k, w)

LEMMA OneOfTwo ==
  ASSUME NEW p \in {0, 1}, NEW q \in {0, 1}, p = 0 \/ q = 0, NEW w \in Int
  PROVE  (IF p = 1 \/ q = 1 THEN w ELSE 0) = p * w + q * w
<1>1. 0 * w + 0 * w = 0 /\ 1 * w + 0 * w = w /\ 0 * w + 1 * w = w
  OBVIOUS
<1>2. CASE p = 0 /\ q = 0
  BY <1>1, <1>2
<1>3. CASE p = 1 /\ q = 0
  BY <1>1, <1>3
<1>4. CASE p = 0 /\ q = 1
  BY <1>1, <1>4
<1> QED BY <1>2, <1>3, <1>4

\* `|` of two bytes without a common bit is their sum.
LEMMA OrDisjoint ==
  ASSUME NEW x \in 0 .. 255, NEW y \in 0 .. 255,
         \A k \in 0 .. 7 : Shr(x, k) % 2 = 0 \/ Shr(y, k) % 2 = 0
  PROVE  Or(x, y) = x + y
<1>1. ASSUME NEW k \in 0 .. 7, NEW w \in Int, 2^k = w, Shr(x, k) \in Int, Shr(y, k) \in Int
      PROVE  PartsAdd(x, y, k, w)
  <2>1. Shr(x, k) % 2 \in {0, 1} /\ Shr(y, k) % 2 \in {0, 1}
    BY <1>1
  <2>2. PICK p \in {0, 1}, q \in {0, 1} : p = Shr(x, k) % 2 /\ q = Shr(y, k) % 2 /\ (p = 0 \/ q = 0)
    BY <2>1
  <2>3. OrBit(x, y, k) = IF p = 1 \/ q = 1 THEN w ELSE 0
    BY <1>1, <2>2 DEF OrBit
  <2>4. Part(x, k, w) = p * w /\ Part(y, k, w) = q * w
    BY <2>2 DEF Part
  <2>5. (IF p = 1 \/ q = 1 THEN w ELSE 0) = p * w + q * w
    BY <2>2, OneOfTwo, Zenon
  <2> QED BY <2>3, <2>4, <2>5 DEF PartsAdd
<1>2. /\ 2^0 = 1 /\ 2^1 = 2 /\ 2^2 = 4 /\ 2^3 = 8 /\ 2^4 = 16 /\ 2^5 = 32 /\ 2^6 = 64 /\ 2^7 = 128
  OBVIOUS
<1>3. ASSUME NEW z \in 0 .. 255
      PROVE  /\ Shr(z, 0) \in Int /\ Shr(z, 1) \in Int /\ Shr(z, 2) \in Int /\ Shr(z, 3) \in Int
             /\ Shr(z, 4) \in Int /\ Shr(z, 5) \in Int /\ Shr(z, 6) \in Int /\ Shr(z, 7) \in Int
  BY DEF Shr
<1>4. /\ 0 \in 0 .. 7 /\ 1 \in 0 .. 7 /\ 2 \in 0 .. 7 /\ 3 \in 0 .. 7
      /\ 1 \in Int /\ 2 \in Int /\ 4 \in Int /\ 8 \in Int
      /\ 2^0 = 1 /\ 2^1 = 2 /\ 2^2 = 4 /\ 2^3 = 8
  OBVIOUS
<1>5. PartsAdd(x, y, 0, 1)
  BY <1>1, <1>3, <1>4, Zenon
<1>6. PartsAdd(x, y, 1, 2)
  BY <1>1, <1>3, <1>4, Zenon
<1>7. PartsAdd(x, y, 2, 4)
  BY <1>1, <1>3, <1>4, Zenon
<1>8. PartsAdd(x, y, 3, 8)
  BY <1>1, <1>3, <1>4, Zenon
<1>9. PartsAdd(x, y, 4, 16)
  <2>1. PICK w \in Int : w = 16 /\ 2^4 = w
    BY <1>2
  <2>2. 4 \in 0 .. 7 /\ w \in Int /\ 2^4 = w /\ Shr(x, 4) \in Int /\ Shr(y, 4) \in Int
    BY <1>3, <2>1
  <2>3. PartsAdd(x, y, 4, w)
    BY <1>1, <2>2, Zenon
  <2> QED BY <2>1, <2>3
<1>10. PartsAdd(x, y, 5, 32)
  <2>1. PICK w \in Int : w = 32 /\ 2^5 = w
    BY <1>2
  <2>2. 5 \in 0 .. 7 /\ w \in Int /\ 2^5 = w /\ Shr(x, 5) \in Int /\ Shr(y, 5) \in Int
    BY <1>3, <2>1
  <2>3. PartsAdd(x, y, 5, w)
    BY <1>1, <2>2, Zenon
  <2> QED BY <2>1, <2>3
<1>11. PartsAdd(x, y, 6, 64)
  <2>1. PICK w \in Int : w = 64 /\ 2^6 = w
    BY <1>2
  <2>2. 6 \in 0 .. 7 /\ w \in Int /\ 2^6 = w /\ Shr(x, 6) \in Int /\ Shr(y, 6) \in Int
    BY <1>3, <2>1
  <2>3. PartsAdd(x, y, 6, w)
    BY <1>1, <2>2, Zenon
  <2> QED BY <2>1, <2>3
<1>12. PartsAdd(x, y, 7, 128)
  <2>1. PICK w \in Int : w = 128 /\ 2^7 = w
    BY <1>2
  <2>2. 7 \in 0 .. 7 /\ w \in Int /\ 2^7 = w /\ Shr(x, 7) \in Int /\ Shr(y, 7) \in Int
    BY <1>3, <2>1
  <2>3. PartsAdd(x, y, 7, w)
    BY <1>1, <2>2, Zenon
  <2> QED BY <2>1, <2>3
<1>13. /\ x = Part(x, 0, 1) + Part(x, 1, 2) + Part(x, 2, 4) + Part(x, 3, 8)
             + Part(x, 4, 16) + Part(x, 5, 32) + Part(x, 6, 64) + Part(x, 7, 128)
       /\ Part(x, 0, 1) \in Int /\ Part(x, 1, 2) \in Int /\ Part(x, 2, 4) \in Int
       /\ Part(x, 3, 8) \in Int /\ Part(x, 4, 16) \in Int /\ Part(x, 5, 32) \in Int
       /\ Part(x, 6, 64) \in Int /\ Part(x, 7, 128) \in Int
  BY Parts
<1>14. /\ y = Part(y, 0, 1) + Part(y, 1, 2) + Part(y, 2, 4) + Part(y, 3, 8)
             + Part(y, 4, 16) + Part(y, 5, 32) + Part(y, 6, 64) + Part(y, 7, 128)
       /\ Part(y, 0, 1) \in Int /\ Part(y, 1, 2) \in Int /\ Part(y, 2, 4) \in Int
       /\ Part(y, 3, 8) \in Int /\ Part(y, 4, 16) \in Int /\ Part(y, 5, 32) \in Int
       /\ Part(y, 6, 64) \in Int /\ Part(y, 7, 128) \in Int
  BY Parts
<1>15. Or(x, y) = OrBit(x, y, 0) + OrBit(x, y, 1) + OrBit(x, y, 2) + OrBit(x, y, 3)
                   + OrBit(x, y, 4) + OrBit(x, y, 5) + OrBit(x, y, 6) + OrBit(x, y, 7)
  BY OrBits, Zenon
<1> QED BY <1>5, <1>6, <1>7, <1>8, <1>9, <1>10, <1>11, <1>12, <1>13, <1>14, <1>15 DEF PartsAdd

\* `|` of a multiple of a power of two and a number below that power is their sum.
LEMMA OrAdds ==
  /\ \A m \in 0 .. 127 : \A y \in 0 .. 1 : Or(m * 2, y) = m * 2 + y
  /\ \A m \in 0 .. 63 : \A y \in 0 .. 3 : Or(m * 4, y) = m * 4 + y
  /\ \A m \in 0 .. 31 : \A y \in 0 .. 7 : Or(m * 8, y) = m * 8 + y
  /\ \A m \in 0 .. 15 : \A y \in 0 .. 15 : Or(m * 16, y) = m * 16 + y
  /\ \A m \in 0 .. 7 : \A y \in 0 .. 31 : Or(m * 32, y) = m * 32 + y
  /\ \A m \in 0 .. 3 : \A y \in 0 .. 63 : Or(m * 64, y) = m * 64 + y
  /\ \A m \in 0 .. 1 : \A y \in 0 .. 127 : Or(m * 128, y) = m * 128 + y
<1>1. ASSUME NEW m \in 0 .. 127, NEW y \in 0 .. 1 PROVE Or(m * 2, y) = m * 2 + y
  <2>1. /\ Shr(m * 2, 0) % 2 = 0
    BY DEF Shr
  <2>2. /\ Shr(y, 1) % 2 = 0 /\ Shr(y, 2) % 2 = 0 /\ Shr(y, 3) % 2 = 0
        /\ Shr(y, 4) % 2 = 0 /\ Shr(y, 5) % 2 = 0 /\ Shr(y, 6) % 2 = 0
        /\ Shr(y, 7) % 2 = 0
    BY DEF Shr
  <2>3. m * 2 \in 0 .. 255 /\ y \in 0 .. 255
    OBVIOUS
  <2>4. \A k \in 0 .. 7 : Shr(m * 2, k) % 2 = 0 \/ Shr(y, k) % 2 = 0
    BY <2>1, <2>2
  <2> QED BY <2>3, <2>4, OrDisjoint
<1>2. ASSUME NEW m \in 0 .. 63, NEW y \in 0 .. 3 PROVE Or(m * 4, y) = m * 4 + y
  <2>1. /\ Shr(m * 4, 0) % 2 = 0 /\ Shr(m * 4, 1) % 2 = 0
    BY DEF Shr
  <2>2. /\ Shr(y, 2) % 2 = 0 /\ Shr(y, 3) % 2 = 0 /\ Shr(y, 4) % 2 = 0
        /\ Shr(y, 5) % 2 = 0 /\ Shr(y, 6) % 2 = 0 /\ Shr(y, 7) % 2 = 0
    BY DEF Shr
  <2>3. m * 4 \in 0 .. 255 /\ y \in 0 .. 255
    OBVIOUS
  <2>4. \A k \in 0 .. 7 : Shr(m * 4, k) % 2 = 0 \/ Shr(y, k) % 2 = 0
    BY <2>1, <2>2
  <2> QED BY <2>3, <2>4, OrDisjoint
<1>3. ASSUME NEW m \in 0 .. 31, NEW y \in 0 .. 7 PROVE Or(m * 8, y) = m * 8 + y
  <2>1. /\ Shr(m * 8, 0) % 2 = 0 /\ Shr(m * 8, 1) % 2 = 0 /\ Shr(m * 8, 2) % 2 = 0
    BY DEF Shr
  <2>2. /\ Shr(y, 3) % 2 = 0 /\ Shr(y, 4) % 2 = 0 /\ Shr(y, 5) % 2 = 0
        /\ Shr(y, 6) % 2 = 0 /\ Shr(y, 7) % 2 = 0
    BY DEF Shr
  <2>3. m * 8 \in 0 .. 255 /\ y \in 0 .. 255
    OBVIOUS
  <2>4. \A k \in 0 .. 7 : Shr(m * 8, k) % 2 = 0 \/ Shr(y, k) % 2 = 0
    BY <2>1, <2>2
  <2> QED BY <2>3, <2>4, OrDisjoint
<1>4. ASSUME NEW m \in 0 .. 15, NEW y \in 0 .. 15 PROVE Or(m * 16, y) = m * 16 + y
  <2>1. /\ Shr(m * 16, 0) % 2 = 0 /\ Shr(m * 16, 1) % 2 = 0 /\ Shr(m * 16, 2) % 2 = 0
        /\ Shr(m * 16, 3) % 2 = 0
    BY DEF Shr
  <2>2. /\ Shr(y, 4) % 2 = 0 /\ Shr(y, 5) % 2 = 0 /\ Shr(y, 6) % 2 = 0
        /\ Shr(y, 7) % 2 = 0
    BY DEF Shr
  <2>3. m * 16 \in 0 .. 255 /\ y \in 0 .. 255
    OBVIOUS
  <2>4. \A k \in 0 .. 7 : Shr(m * 16, k) % 2 = 0 \/ Shr(y, k) % 2 = 0
    BY <2>1, <2>2
  <2> QED BY <2>3, <2>4, OrDisjoint
<1>5. ASSUME NEW m \in 0 .. 7, NEW y \in 0 .. 31 PROVE Or(m * 32, y) = m * 32 + y
  <2>1. /\ Shr(m * 32, 0) % 2 = 0 /\ Shr(m * 32, 1) % 2 = 0 /\ Shr(m * 32, 2) % 2 = 0
        /\ Shr(m * 32, 3) % 2 = 0 /\ Shr(m * 32, 4) % 2 = 0
    BY DEF Shr
  <2>2. /\ Shr(y, 5) % 2 = 0 /\ Shr(y, 6) % 2 = 0 /\ Shr(y, 7) % 2 = 0
    BY DEF Shr
  <2>3. m * 32 \in 0 .. 255 /\ y \in 0 .. 255
    OBVIOUS
  <2>4. \A k \in 0 .. 7 : Shr(m * 32, k) % 2 = 0 \/ Shr(y, k) % 2 = 0
    BY <2>1, <2>2
  <2> QED BY <2>3, <2>4, OrDisjoint
<1>6. ASSUME NEW m \in 0 .. 3, NEW y \in 0 .. 63 PROVE Or(m * 64, y) = m * 64 + y
  <2>1. /\ Shr(m * 64, 0) % 2 = 0 /\ Shr(m * 64, 1) % 2 = 0 /\ Shr(m * 64, 2) % 2 = 0
        /\ Shr(m * 64, 3) % 2 = 0 /\ Shr(m * 64, 4) % 2 = 0 /\ Shr(m * 64, 5) % 2 = 0
    BY DEF Shr
  <2>2. /\ Shr(y, 6) % 2 = 0 /\ Shr(y, 7) % 2 = 0
    BY DEF Shr
  <2>3. m * 64 \in 0 .. 255 /\ y \in 0 .. 255
    OBVIOUS
  <2>4. \A k \in 0 .. 7 : Shr(m * 64, k) % 2 = 0 \/ Shr(y, k) % 2 = 0
    BY <2>1, <2>2
  <2> QED BY <2>3, <2>4, OrDisjoint
<1>7. ASSUME NEW m \in 0 .. 1, NEW y \in 0 .. 127 PROVE Or(m * 128, y) = m * 128 + y
  <2>1. /\ Shr(m * 128, 0) % 2 = 0 /\ Shr(m * 128, 1) % 2 = 0 /\ Shr(m * 128, 2) % 2 = 0
        /\ Shr(m * 128, 3) % 2 = 0 /\ Shr(m * 128, 4) % 2 = 0 /\ Shr(m * 128, 5) % 2 = 0
        /\ Shr(m * 128, 6) % 2 = 0
    BY DEF Shr
  <2>2. /\ Shr(y, 7) % 2 = 0
    BY DEF Shr
  <2>3. m * 128 \in 0 .. 255 /\ y \in 0 .. 255
    OBVIOUS
  <2>4. \A k \in 0 .. 7 : Shr(m * 128, k) % 2 = 0 \/ Shr(y, k) % 2 = 0
    BY <2>1, <2>2
  <2> QED BY <2>3, <2>4, OrDisjoint
<1> QED BY <1>1, <1>2, <1>3, <1>4, <1>5, <1>6, <1>7

\* The parts of a byte that the masks of marshal_text_to cut out.
LEMMA MaskedParts ==
  ASSUME NEW x \in Byte
  PROVE  /\ Shr(Bits(x, 5, 8), 5) = x \div 32 /\ x \div 32 \in 0 .. 7
         /\ Shr(Bits(x, 3, 8), 3) = x \div 8 /\ x \div 8 \in 0 .. 31
         /\ Shr(Bits(x, 6, 8), 6) = x \div 64 /\ x \div 64 \in 0 .. 3
         /\ Shr(Bits(x, 4, 8), 4) = x \div 16 /\ x \div 16 \in 0 .. 15
         /\ Shr(Bits(x, 7, 8), 7) = x \div 128 /\ x \div 128 \in 0 .. 1
         /\ Shr(Bits(x, 1, 6), 1) = (x % 64) \div 2 /\ (x % 64) \div 2 \in 0 .. 31
         /\ Shr(Bits(x, 2, 7), 2) = (x % 128) \div 4 /\ (x % 128) \div 4 \in 0 .. 31
         /\ Bits(x, 0, 5) = x % 32 /\ x % 32 \in 0 .. 31
         /\ Shl(Bits(x, 0, 3), 2) = (x % 8) * 4 /\ x % 8 \in 0 .. 7
         /\ Shl(Bits(x, 0, 1), 4) = (x % 2) * 16 /\ x % 2 \in 0 .. 1
         /\ Shl(Bits(x, 0, 4), 1) = (x % 16) * 2 /\ x % 16 \in 0 .. 15
         /\ Shl(Bits(x, 0, 2), 3) = (x % 4) * 8 /\ x % 4 \in 0 .. 3
BY DEF Byte, Bits, Shr, Shl

\* The eight symbols of five bytes.
LEMMA EncodeGroupIs ==
  ASSUME NEW b, \A i \in 1 .. 5 : b[i] \in Byte
  PROVE  EncodeGroup(b) = << b[1] \div 8,
                             (b[1] % 8) * 4 + (b[2] \div 64),
                             (b[2] % 64) \div 2,
                             (b[2] % 2) * 16 + (b[3] \div 16),
                             (b[3] % 16) * 2 + (b[4] \div 128),
                             (b[4] % 128) \div 4,
                             (b[4] % 4) * 8 + (b[5] \div 32),
                             b[5] % 32 >>
<1>1. b[1] \in Byte /\ b[2] \in Byte /\ b[3] \in Byte /\ b[4] \in Byte /\ b[5] \in Byte
  OBVIOUS
<1>2. Or((b[1] % 8) * 4, b[2] \div 64) = (b[1] % 8) * 4 + (b[2] \div 64)
  <2>1. b[1] % 8 \in 0 .. 63 /\ b[2] \div 64 \in 0 .. 3
    BY <1>1 DEF Byte
  <2> QED BY <2>1, OrAdds
<1>3. Or((b[2] % 2) * 16, b[3] \div 16) = (b[2] % 2) * 16 + (b[3] \div 16)
  <2>1. b[2] % 2 \in 0 .. 15 /\ b[3] \div 16 \in 0 .. 15
    BY <1>1 DEF Byte
  <2> QED BY <2>1, OrAdds
<1>4. Or((b[3] % 16) * 2, b[4] \div 128) = (b[3] % 16) * 2 + (b[4] \div 128)
  <2>1. b[3] % 16 \in 0 .. 127 /\ b[4] \div 128 \in 0 .. 1
    BY <1>1 DEF Byte
  <2> QED BY <2>1, OrAdds
<1>5. Or((b[4] % 4) * 8, b[5] \div 32) = (b[4] % 4) * 8 + (b[5] \div 32)
  <2>1. b[4] % 4 \in 0 .. 31 /\ b[5] \div 32 \in 0 .. 7
    BY <1>1 DEF Byte
  <2> QED BY <2>1, OrAdds
<1> QED BY <1>1, <1>2, <1>3, <1>4, <1>5, MaskedParts DEF EncodeGroup

\* The five bytes of eight symbols.
LEMMA DecodeGroupIs ==
  ASSUME NEW s, \A i \in 1 .. 8 : s[i] \in Symbol
  PROVE  DecodeGroup(s) = << s[1] * 8 + (s[2] \div 4),
                             (s[2] % 4) * 64 + s[3] * 2 + (s[4] \div 16),
                             (s[4] % 16) * 16 + (s[5] \div 2),
                             (s[5] % 2) * 128 + s[6] * 4 + (s[7] \div 8),
                             (s[7] % 8) * 32 + s[8] >>
<1>1. /\ s[1] \in 0 .. 31 /\ s[2] \in 0 .. 31 /\ s[3] \in 0 .. 31 /\ s[4] \in 0 .. 31
      /\ s[5] \in 0 .. 31 /\ s[6] \in 0 .. 31 /\ s[7] \in 0 .. 31 /\ s[8] \in 0 .. 31
  BY DEF Symbol
<1>2. Or(Shl(s[1], 3), Shr(s[2], 2)) = s[1] * 8 + (s[2] \div 4)
  <2>1. /\ Shl(s[1], 3) = s[1] * 8 /\ Shr(s[2], 2) = s[2] \div 4
        /\ s[2] \div 4 \in 0 .. 7
    BY <1>1 DEF Shl, Shr
  <2> QED BY <1>1, <2>1, OrAdds
<1>3. Or(Or(Shl(s[2], 6), Shl(s[3], 1)), Shr(s[4], 4)) = (s[2] % 4) * 64 + s[3] * 2 + (s[4] \div 16)
  <2>1. /\ Shl(s[2], 6) = (s[2] % 4) * 64 /\ Shl(s[3], 1) = s[3] * 2 /\ Shr(s[4], 4) = s[4] \div 16
        /\ s[2] % 4 \in 0 .. 3 /\ s[3] * 2 \in 0 .. 63 /\ s[4] \div 16 \in 0 .. 1
    BY <1>1 DEF Shl, Shr
  <2>2. Or((s[2] % 4) * 64, s[3] * 2) = (s[2] % 4) * 64 + s[3] * 2
    BY <2>1, OrAdds
  <2>3. PICK m \in 0 .. 127 : m * 2 = (s[2] % 4) * 64 + s[3] * 2
    <3>1. (s[2] % 4) * 32 + s[3] \in 0 .. 127
      BY <1>1, <2>1
    <3>2. ((s[2] % 4) * 32 + s[3]) * 2 = (s[2] % 4) * 64 + s[3] * 2
      BY <1>1, <2>1
    <3> QED BY <3>1, <3>2
  <2> QED BY <2>1, <2>2, <2>3, OrAdds
<1>4. Or(Shl(s[4], 4), Shr(s[5], 1)) = (s[4] % 16) * 16 + (s[5] \div 2)
  <2>1. /\ Shl(s[4], 4) = (s[4] % 16) * 16 /\ Shr(s[5], 1) = s[5] \div 2
        /\ s[4] % 16 \in 0 .. 15 /\ s[5] \div 2 \in 0 .. 15
    BY <1>1 DEF Shl, Shr
  <2> QED BY <2>1, OrAdds
<1>5. Or(Or(Shl(s[5], 7), Shl(s[6], 2)), Shr(s[7], 3)) = (s[5] % 2) * 128 + s[6] * 4 + (s[7] \div 8)
  <2>1. /\ Shl(s[5], 7) = (s[5] % 2) * 128 /\ Shl(s[6], 2) = s[6] * 4 /\ Shr(s[7], 3) = s[7] \div 8
        /\ s[5] % 2 \in 0 .. 1 /\ s[6] * 4 \in 0 .. 127 /\ s[7] \div 8 \in 0 .. 3
    BY <1>1 DEF Shl, Shr
  <2>2. Or((s[5] % 2) * 128, s[6] * 4) = (s[5] % 2) * 128 + s[6] * 4
    BY <2>1, OrAdds
  <2>3. PICK m \in 0 .. 63 : m * 4 = (s[5] % 2) * 128 + s[6] * 4
    <3>1. (s[5] % 2) * 32 + s[6] \in 0 .. 63
      BY <1>1, <2>1
    <3>2. ((s[5] % 2) * 32 + s[6]) * 4 = (s[5] % 2) * 128 + s[6] * 4
      BY <1>1, <2>1
    <3> QED BY <3>1, <3>2
  <2> QED BY <2>1, <2>2, <2>3, OrAdds
<1>6. Or(Shl(s[7], 5), s[8]) = (s[7] % 8) * 32 + s[8]
  <2>1. Shl(s[7], 5) = (s[7] % 8) * 32 /\ s[7] % 8 \in 0 .. 7
    BY <1>1 DEF Shl
  <2> QED BY <1>1, <2>1, OrAdds
<1> QED BY <1>2, <1>3, <1>4, <1>5, <1>6 DEF DecodeGroup

\* Decoding a group undoes encoding it.
LEMMA GroupRoundTrip ==
  ASSUME NEW b, \A i \in 1 .. 5 : b[i] \in Byte
  PROVE  /\ \A i \in 1 .. 8 : EncodeGroup(b)[i] \in Symbol
         /\ \A i \in 1 .. 5 : DecodeGroup(EncodeGroup(b))[i] = b[i]
<1> DEFINE s == EncodeGroup(b)
<1>1. b[1] \in 0 .. 255 /\ b[2] \in 0 .. 255 /\ b[3] \in 0 .. 255 /\ b[4] \in 0 .. 255 /\ b[5] \in 0 .. 255
  <2>1. b[1] \in Byte /\ b[2] \in Byte /\ b[3] \in Byte /\ b[4] \in Byte /\ b[5] \in Byte
    OBVIOUS
  <2> QED BY <2>1, Zenon DEF Byte
<1>2. /\ s[1] = b[1] \div 8 /\ s[2] = (b[1] % 8) * 4 + (b[2] \div 64)
      /\ s[3] = (b[2] % 64) \div 2 /\ s[4] = (b[2] % 2) * 16 + (b[3] \div 16)
      /\ s[5] = (b[3] % 16) * 2 + (b[4] \div 128) /\ s[6] = (b[4] % 128) \div 4
      /\ s[7] = (b[4] % 4) * 8 + (b[5] \div 32) /\ s[8] = b[5] % 32
  BY EncodeGroupIs
<1> HIDE DEF s
<1>3. \A i \in 1 .. 8 : s[i] \in Symbol
  <2>1. s[1] \in Symbol /\ s[2] \in Symbol
    <3>1. /\ b[1] \div 8 \in 0 .. 31 /\ (b[1] % 8) * 4 \in 0 .. 28 /\ b[2] \div 64 \in 0 .. 3
      BY <1>1
    <3>2. (b[1] % 8) * 4 + (b[2] \div 64) \in 0 .. 31
      BY <3>1
    <3> QED BY <1>2, <3>1, <3>2 DEF Symbol
  <2>2. s[3] \in Symbol /\ s[4] \in Symbol
    <3>1. /\ b[2] \in 0 .. 255 /\ b[3] \in 0 .. 255
          /\ s[3] = (b[2] % 64) \div 2 /\ s[4] = (b[2] % 2) * 16 + (b[3] \div 16)
      BY <1>1, <1>2, Zenon
    <3>2. s[3] \in 0 .. 31
      BY <3>1
    <3>3. s[4] \in 0 .. 31
      BY <3>1
    <3> QED BY <3>2, <3>3, Zenon DEF Symbol
  <2>3. s[5] \in Symbol /\ s[6] \in Symbol
    <3>1. /\ b[3] \in 0 .. 255 /\ b[4] \in 0 .. 255
          /\ s[5] = (b[3] % 16) * 2 + (b[4] \div 128) /\ s[6] = (b[4] % 128) \div 4
      BY <1>1, <1>2, Zenon
    <3>2. s[5] \in 0 .. 31
      BY <3>1
    <3>3. s[6] \in 0 .. 31
      BY <3>1
    <3> QED BY <3>2, <3>3, Zenon DEF Symbol
  <2>4. s[7] \in Symbol /\ s[8] \in Symbol
    <3>1. /\ b[4] \in 0 .. 255 /\ b[5] \in 0 .. 255
          /\ s[7] = (b[4] % 4) * 8 + (b[5] \div 32) /\ s[8] = b[5] % 32
      BY <1>1, <1>2, Zenon
    <3>2. s[7] \in 0 .. 31
      BY <3>1
    <3>3. s[8] \in 0 .. 31
      BY <3>1
    <3> QED BY <3>2, <3>3, Zenon DEF Symbol
  <2> QED BY <2>1, <2>2, <2>3, <2>4
<1>4. /\ DecodeGroup(s)[1] = s[1] * 8 + (s[2] \div 4)
      /\ DecodeGroup(s)[2] = (s[2] % 4) * 64 + s[3] * 2 + (s[4] \div 16)
      /\ DecodeGroup(s)[3] = (s[4] % 16) * 16 + (s[5] \div 2)
      /\ DecodeGroup(s)[4] = (s[5] % 2) * 128 + s[6] * 4 + (s[7] \div 8)
      /\ DecodeGroup(s)[5] = (s[7] % 8) * 32 + s[8]
  BY <1>3, DecodeGroupIs
<1>5. s[1] * 8 + (s[2] \div 4) = b[1]
  <2>1. /\ b[1] \in 0 .. 255 /\ b[2] \in 0 .. 255
        /\ s[1] = b[1] \div 8 /\ s[2] = (b[1] % 8) * 4 + (b[2] \div 64)
    BY <1>1, <1>2, Zenon
  <2> QED BY <2>1
<1>6. (s[2] % 4) * 64 + s[3] * 2 + (s[4] \div 16) = b[2]
  <2>1. s[2] % 4 = b[2] \div 64 /\ s[3] = (b[2] % 64) \div 2
    <3>1. /\ b[1] \in 0 .. 255 /\ b[2] \in 0 .. 255
          /\ s[2] = (b[1] % 8) * 4 + (b[2] \div 64) /\ s[3] = (b[2] % 64) \div 2
      BY <1>1, <1>2, Zenon
    <3> QED BY <3>1
  <2>2. s[4] \div 16 = b[2] % 2
    <3>1. /\ b[2] \in 0 .. 255 /\ b[3] \in 0 .. 255
          /\ s[4] = (b[2] % 2) * 16 + (b[3] \div 16)
      BY <1>1, <1>2, Zenon
    <3> QED BY <3>1
  <2>3. b[2] \in 0 .. 255
    BY <1>1, Zenon
  <2> QED BY <2>1, <2>2, <2>3
<1>7. (s[4] % 16) * 16 + (s[5] \div 2) = b[3]
  <2>1. /\ b[2] \in 0 .. 255 /\ b[3] \in 0 .. 255
        /\ b[4] \in 0 .. 255 /\ s[4] = (b[2] % 2) * 16 + (b[3] \div 16)
        /\ s[5] = (b[3] % 16) * 2 + (b[4] \div 128)
    BY <1>1, <1>2, Zenon
  <2> QED BY <2>1
<1>8. (s[5] % 2) * 128 + s[6] * 4 + (s[7] \div 8) = b[4]
  <2>1. s[5] % 2 = b[4] \div 128 /\ s[6] = (b[4] % 128) \div 4
    <3>1. /\ b[3] \in 0 .. 255 /\ b[4] \in 0 .. 255
          /\ s[5] = (b[3] % 16) * 2 + (b[4] \div 128) /\ s[6] = (b[4] % 128) \div 4
      BY <1>1, <1>2, Zenon
    <3> QED BY <3>1
  <2>2. s[7] \div 8 = b[4] % 4
    <3>1. /\ b[4] \in 0 .. 255 /\ b[5] \in 0 .. 255
          /\ s[7] = (b[4] % 4) * 8 + (b[5] \div 32)
      BY <1>1, <1>2, Zenon
    <3> QED BY <3>1
  <2>3. b[4] \in 0 .. 255
    BY <1>1, Zenon
  <2> QED BY <2>1, <2>2, <2>3
<1>9. (s[7] % 8) * 32 + s[8] = b[5]
  <2>1. /\ b[4] \in 0 .. 255 /\ b[5] \in 0 .. 255
        /\ s[7] = (b[4] % 4) * 8 + (b[5] \div 32) /\ s[8] = b[5] % 32
    BY <1>1, <1>2, Zenon
  <2> QED BY <2>1
<1>10. \A i \in 1 .. 5 : DecodeGroup(s)[i] = b[i]
  BY <1>4, <1>5, <1>6, <1>7, <1>8, <1>9
<1> QED BY <1>3, <1>10 DEF s

\* Encoding a group undoes decoding it.
LEMMA GroupRoundTripBack ==
  ASSUME NEW s, \A i \in 1 .. 8 : s[i] \in Symbol
  PROVE  /\ \A i \in 1 .. 5 : DecodeGroup(s)[i] \in Byte
         /\ \A i \in 1 .. 8 : EncodeGroup(DecodeGroup(s))[i] = s[i]
<1> DEFINE b == DecodeGroup(s)
<1>1. /\ s[1] \in 0 .. 31 /\ s[2] \in 0 .. 31 /\ s[3] \in 0 .. 31 /\ s[4] \in 0 .. 31
      /\ s[5] \in 0 .. 31 /\ s[6] \in 0 .. 31 /\ s[7] \in 0 .. 31 /\ s[8] \in 0 .. 31
  BY DEF Symbol
<1>2. /\ b[1] = s[1] * 8 + (s[2] \div 4)
      /\ b[2] = (s[2] % 4) * 64 + s[3] * 2 + (s[4] \div 16)
      /\ b[3] = (s[4] % 16) * 16 + (s[5] \div 2)
      /\ b[4] = (s[5] % 2) * 128 + s[6] * 4 + (s[7] \div 8)
      /\ b[5] = (s[7] % 8) * 32 + s[8]
  BY DecodeGroupIs
<1> HIDE DEF b
<1>3. \A i \in 1 .. 5 : b[i] \in Byte
  <2>1. b[1] \in 0 .. 255
    <3>1. /\ s[1] \in 0 .. 31 /\ s[2] \in 0 .. 31
          /\ b[1] = s[1] * 8 + (s[2] \div 4)
      BY <1>1, <1>2, Zenon
    <3> QED BY <3>1
  <2>2. b[2] \in 0 .. 255
    <3>1. /\ s[2] \in 0 .. 31 /\ s[3] \in 0 .. 31
          /\ s[4] \in 0 .. 31 /\ b[2] = (s[2] % 4) * 64 + s[3] * 2 + (s[4] \div 16)
      BY <1>1, <1>2, Zenon
    <3> QED BY <3>1
  <2>3. b[3] \in 0 .. 255
    <3>1. /\ s[4] \in 0 .. 31 /\ s[5] \in 0 .. 31
          /\ b[3] = (s[4] % 16) * 16 + (s[5] \div 2)
      BY <1>1, <1>2, Zenon
    <3> QED BY <3>1
  <2>4. b[4] \in 0 .. 255
    <3>1. /\ s[5] \in 0 .. 31 /\ s[6] \in 0 .. 31
          /\ s[7] \in 0 .. 31 /\ b[4] = (s[5] % 2) * 128 + s[6] * 4 + (s[7] \div 8)
      BY <1>1, <1>2, Zenon
    <3> QED BY <3>1
  <2>5. b[5] \in 0 .. 255
    <3>1. /\ s[7] \in 0 .. 31 /\ s[8] \in 0 .. 31
          /\ b[5] = (s[7] % 8) * 32 + s[8]
      BY <1>1, <1>2, Zenon
    <3> QED BY <3>1
  <2>6. b[1] \in Byte /\ b[2] \in Byte /\ b[3] \in Byte /\ b[4] \in Byte /\ b[5] \in Byte
    BY <2>1, <2>2, <2>3, <2>4, <2>5, Zenon DEF Byte
  <2> QED BY <2>6
<1>4. /\ EncodeGroup(b)[1] = b[1] \div 8 /\ EncodeGroup(b)[2] = (b[1] % 8) * 4 + (b[2] \div 64)
      /\ EncodeGroup(b)[3] = (b[2] % 64) \div 2 /\ EncodeGroup(b)[4] = (b[2] % 2) * 16 + (b[3] \div 16)
      /\ EncodeGroup(b)[5] = (b[3] % 16) * 2 + (b[4] \div 128) /\ EncodeGroup(b)[6] = (b[4] % 128) \div 4
      /\ EncodeGroup(b)[7] = (b[4] % 4) * 8 + (b[5] \div 32) /\ EncodeGroup(b)[8] = b[5] % 32
  BY <1>3, EncodeGroupIs
<1>5. b[1] \div 8 = s[1]
  <2>1. /\ s[1] \in 0 .. 31 /\ s[2] \in 0 .. 31
        /\ b[1] = s[1] * 8 + (s[2] \div 4)
    BY <1>1, <1>2, Zenon
  <2> QED BY <2>1
<1>6. (b[1] % 8) * 4 + (b[2] \div 64) = s[2]
  <2>1. /\ s[1] \in 0 .. 31 /\ s[2] \in 0 .. 31
        /\ s[3] \in 0 .. 31 /\ s[4] \in 0 .. 31
        /\ b[1] = s[1] * 8 + (s[2] \div 4) /\ b[2] = (s[2] % 4) * 64 + s[3] * 2 + (s[4] \div 16)
    BY <1>1, <1>2, Zenon
  <2> QED BY <2>1
<1>7. (b[2] % 64) \div 2 = s[3]
  <2>1. /\ s[2] \in 0 .. 31 /\ s[3] \in 0 .. 31
        /\ s[4] \in 0 .. 31 /\ b[2] = (s[2] % 4) * 64 + s[3] * 2 + (s[4] \div 16)
    BY <1>1, <1>2, Zenon
  <2> QED BY <2>1
<1>8. (b[2] % 2) * 16 + (b[3] \div 16) = s[4]
  <2>1. /\ s[2] \in 0 .. 31 /\ s[3] \in 0 .. 31
        /\ s[4] \in 0 .. 31 /\ s[5] \in 0 .. 31
        /\ b[2] = (s[2] % 4) * 64 + s[3] * 2 + (s[4] \div 16) /\ b[3] = (s[4] % 16) * 16 + (s[5] \div 2)
    BY <1>1, <1>2, Zenon
  <2> QED BY <2>1
<1>9. (b[3] % 16) * 2 + (b[4] \div 128) = s[5]
  <2>1. /\ s[4] \in 0 .. 31 /\ s[5] \in 0 .. 31
        /\ s[6] \in 0 .. 31 /\ s[7] \in 0 .. 31
        /\ b[3] = (s[4] % 16) * 16 + (s[5] \div 2) /\ b[4] = (s[5] % 2) * 128 + s[6] * 4 + (s[7] \div 8)
    BY <1>1, <1>2, Zenon
  <2> QED BY <2>1
<1>10. (b[4] % 128) \div 4 = s[6]
  <2>1. /\ s[5] \in 0 .. 31 /\ s[6] \in 0 .. 31
        /\ s[7] \in 0 .. 31 /\ b[4] = (s[5] % 2) * 128 + s[6] * 4 + (s[7] \div 8)
    BY <1>1, <1>2, Zenon
  <2> QED BY <2>1
<1>11. (b[4] % 4) * 8 + (b[5] \div 32) = s[7]
  <2>1. /\ s[5] \in 0 .. 31 /\ s[6] \in 0 .. 31
        /\ s[7] \in 0 .. 31 /\ s[8] \in 0 .. 31
        /\ b[4] = (s[5] % 2) * 128 + s[6] * 4 + (s[7] \div 8) /\ b[5] = (s[7] % 8) * 32 + s[8]
    BY <1>1, <1>2, Zenon
  <2> QED BY <2>1
<1>12. b[5] % 32 = s[8]
  <2>1. /\ s[7] \in 0 .. 31 /\ s[8] \in 0 .. 31
        /\ b[5] = (s[7] % 8) * 32 + s[8]
    BY <1>1, <1>2, Zenon
  <2> QED BY <2>1
<1>13. /\ EncodeGroup(b)[1] = s[1] /\ EncodeGroup(b)[2] = s[2] /\ EncodeGroup(b)[3] = s[3]
       /\ EncodeGroup(b)[4] = s[4] /\ EncodeGroup(b)[5] = s[5] /\ EncodeGroup(b)[6] = s[6]
       /\ EncodeGroup(b)[7] = s[7] /\ EncodeGroup(b)[8] = s[8]
  BY <1>4, <1>5, <1>6, <1>7, <1>8, <1>9, <1>10, <1>11, <1>12
<1>14. \A i \in 1 .. 8 : EncodeGroup(b)[i] = s[i]
  BY <1>13
<1> QED BY <1>3, <1>14 DEF b

\* The first byte and its two symbols, of which the first is at most 7.
LEMMA ByteRoundTrip ==
  /\ \A x \in Byte : /\ EncodeByte(x)[1] \in 0 .. 7 /\ EncodeByte(x)[2] \in Symbol
                      /\ DecodeByte(EncodeByte(x))[1] = x
  /\ \A s : s[1] \in 0 .. 7 /\ s[2] \in Symbol =>
        /\ DecodeByte(s)[1] \in Byte
        /\ EncodeByte(DecodeByte(s)[1])[1] = s[1] /\ EncodeByte(DecodeByte(s)[1])[2] = s[2]
<1>1. \A x \in 0 .. 7 : \A y \in Symbol : Or(Shl(x, 5), y) = x * 32 + y
  <2>1. \A x \in 0 .. 7 : Shl(x, 5) = x * 32
    BY DEF Shl
  <2> QED BY <2>1, OrAdds DEF Symbol
<1>2. ASSUME NEW x \in Byte
      PROVE  /\ EncodeByte(x)[1] = x \div 32 /\ EncodeByte(x)[2] = x % 32
             /\ x \div 32 \in 0 .. 7 /\ x % 32 \in Symbol
  BY MaskedParts DEF EncodeByte, Symbol
<1>3. ASSUME NEW x \in Byte PROVE DecodeByte(EncodeByte(x))[1] = x
  <2>1. (x \div 32) * 32 + (x % 32) = x
    BY DEF Byte
  <2> QED BY <1>1, <1>2, <2>1 DEF DecodeByte
<1>4. ASSUME NEW s, s[1] \in 0 .. 7, s[2] \in Symbol
      PROVE  /\ DecodeByte(s)[1] \in Byte
             /\ EncodeByte(DecodeByte(s)[1])[1] = s[1] /\ EncodeByte(DecodeByte(s)[1])[2] = s[2]
  <2>1. DecodeByte(s)[1] = s[1] * 32 + s[2]
    BY <1>1, <1>4 DEF DecodeByte
  <2>2. /\ s[1] * 32 + s[2] \in Byte /\ (s[1] * 32 + s[2]) \div 32 = s[1]
        /\ (s[1] * 32 + s[2]) % 32 = s[2]
    BY <1>4 DEF Byte, Symbol
  <2> QED BY <1>2, <2>1, <2>2
<1> QED BY <1>2, <1>3, <1>4

-----------------------------------------------------------------------------
(* The alphabet.                                                           *)

\* The letters without I, L, O and U.
LEMMA LettersAre ==
  \A k \in 1 .. 22 :
    Letters[k] = 64 + k + (IF k >= 9 THEN 1 ELSE 0) + (IF k >= 11 THEN 1 ELSE 0)
                   + (IF k >= 13 THEN 1 ELSE 0) + (IF k >= 18 THEN 1 ELSE 0)
BY DEF Letters

\* A character stands for at most one symbol, and a symbol is below INVALID.
LEMMA CodesDiffer ==
  /\ \A v \in Symbol : ENCODING[v] \in Codes(v) /\ Codes(v) \subseteq Byte
  /\ \A v, w \in Symbol : \A c : c \in Codes(v) /\ c \in Codes(w) => v = w
  /\ \A v \in Symbol : ENCODING[v] \in 48 .. 57 \/ ENCODING[v] \in 65 .. 90
  /\ \A v \in Symbol : v < 10 <=> ENCODING[v] \in 48 .. 57
<1>1. \A v \in Symbol : ENCODING[v] = IF v < 10 THEN 48 + v ELSE Letters[v - 9]
  BY DEF ENCODING
<1>2. \A v \in Symbol : v < 10 => ENCODING[v] = 48 + v
  BY <1>1
<1>3. \A v \in Symbol : v >= 10 =>
        ENCODING[v] = 55 + v + (IF v >= 18 THEN 1 ELSE 0) + (IF v >= 20 THEN 1 ELSE 0)
                       + (IF v >= 22 THEN 1 ELSE 0) + (IF v >= 27 THEN 1 ELSE 0)
  <2> TAKE v \in Symbol
  <2> HAVE v >= 10
  <2>1. v - 9 \in 1 .. 22 /\ v \in Int
    BY DEF Symbol
  <2>2. ENCODING[v] = Letters[v - 9]
    BY <1>1, <2>1
  <2> QED BY <2>1, <2>2, LettersAre
<1>4. \A v \in Symbol : v \in 0 .. 31
  BY DEF Symbol
<1>5. \A v \in Symbol : ENCODING[v] \in Codes(v) /\ Codes(v) \subseteq Byte
  BY <1>2, <1>3, <1>4 DEF Codes, Byte
<1>6. ASSUME NEW v \in Symbol, NEW w \in Symbol, NEW c, c \in Codes(v), c \in Codes(w)
      PROVE  v = w
  <2>1. \/ v < 10 /\ c = 48 + v
        \/ v >= 10 /\ (c = ENCODING[v] \/ c = ENCODING[v] + 32)
    BY <1>2, <1>4, <1>6 DEF Codes
  <2>2. \/ w < 10 /\ c = 48 + w
        \/ w >= 10 /\ (c = ENCODING[w] \/ c = ENCODING[w] + 32)
    BY <1>2, <1>4, <1>6 DEF Codes
  <2> QED BY <1>3, <1>4, <2>1, <2>2
<1>7. \A v \in Symbol : ENCODING[v] \in 48 .. 57 \/ ENCODING[v] \in 65 .. 90
  BY <1>2, <1>3, <1>4
<1>8. \A v \in Symbol : v < 10 <=> ENCODING[v] \in 48 .. 57
  BY <1>2, <1>3, <1>4
<1> QED BY <1>5, <1>6, <1>7, <1>8

\* The table finds the symbol of a character of the alphabet, and only of those.
LEMMA DecFinds ==
  /\ \A v \in Symbol : \A c \in Codes(v) : DEC[c] = v
  /\ \A c \in Byte : DEC[c] # INVALID => DEC[c] \in Symbol /\ c \in Codes(DEC[c])
  /\ \A c \in Byte : DEC[c] \in Byte
<1>1. ASSUME NEW c \in Byte
      PROVE  DEC[c] = IF \E v \in Symbol : c \in Codes(v)
                      THEN CHOOSE v \in Symbol : c \in Codes(v) ELSE INVALID
  BY DEF DEC
<1>2. ASSUME NEW c \in Byte, NEW w \in Symbol, c \in Codes(w) PROVE DEC[c] = w
  <2>1. (CHOOSE v \in Symbol : c \in Codes(v)) \in Symbol /\ c \in Codes(CHOOSE v \in Symbol : c \in Codes(v))
    BY <1>2
  <2> QED BY <1>1, <1>2, <2>1, CodesDiffer
<1>3. ASSUME NEW c \in Byte, DEC[c] # INVALID PROVE DEC[c] \in Symbol /\ c \in Codes(DEC[c])
  BY <1>1, <1>2, <1>3
<1>4. Symbol \subseteq Byte /\ INVALID \in Byte
  BY DEF Symbol, Byte, INVALID
<1> QED BY <1>2, <1>3, <1>4, CodesDiffer

-----------------------------------------------------------------------------
(* A ULID is one byte and three groups.                                    *)

Ulid == [1 .. RAW_SIZE -> Byte]

\* A function on 1 .. n is a sequence.
LEMMA FunctionIsSeq ==
  ASSUME NEW S, NEW n \in Nat, NEW f \in [1 .. n -> S]
  PROVE  f \in Seq(S) /\ Len(f) = n
BY SMT

Agree(D, f, g) == \A k \in D : f[k] = g[k]

\* Functions with the same values are equal.
LEMMA SameFunction ==
  ASSUME NEW D, NEW S, NEW f \in [D -> S], NEW g \in [D -> S], Agree(D, f, g)
  PROVE  f = g
BY DEF Agree

\* A piece of a sequence.
LEMMA Piece ==
  ASSUME NEW S, NEW f \in Seq(S), NEW m \in 1 .. Len(f), NEW n \in m .. Len(f)
  PROVE  /\ SubSeq(f, m, n) \in Seq(S) /\ Len(SubSeq(f, m, n)) = n - m + 1
         /\ \A i \in 1 .. n - m + 1 : SubSeq(f, m, n)[i] = f[m + i - 1]
BY SMT

\* s is the sequence a followed by b.
Followed(s, a, b) ==
  /\ Len(s) = Len(a) + Len(b)
  /\ \A i \in 1 .. Len(a) + Len(b) : s[i] = IF i <= Len(a) THEN a[i] ELSE b[i - Len(a)]

\* Two sequences one after the other.
LEMMA TwoParts ==
  ASSUME NEW S, NEW a \in Seq(S), NEW b \in Seq(S)
  PROVE  Followed(a \o b, a, b)
BY DEF Followed

\* s is the sequence a followed by b, c and d, which have the same length.
Joined(S, s, a, b, c, d) ==
  /\ s \in Seq(S) /\ Len(s) = Len(a) + Len(b) + Len(b) + Len(b)
  /\ \A i \in 1 .. Len(a) : s[i] = a[i]
  /\ \A i \in 1 .. Len(b) : /\ s[Len(a) + i] = b[i]
                            /\ s[Len(a) + Len(b) + i] = c[i]
                            /\ s[Len(a) + Len(b) + Len(b) + i] = d[i]

\* Four sequences one after the other.
LEMMA FourParts ==
  ASSUME NEW S, NEW a \in Seq(S), NEW b \in Seq(S), NEW c \in Seq(S), NEW d \in Seq(S),
         Len(c) = Len(b), Len(d) = Len(b)
  PROVE  Joined(S, a \o b \o c \o d, a, b, c, d)
<1>1. PICK p : p = a \o b
  OBVIOUS
<1>2. PICK q : q = p \o c
  OBVIOUS
<1>3. PICK s : s = q \o d
  OBVIOUS
<1>4. p \in Seq(S) /\ q \in Seq(S) /\ s \in Seq(S)
  BY <1>1, <1>2, <1>3
<1>5. PICK m \in Nat : m = Len(a)
  OBVIOUS
<1>6. PICK n \in Nat : n = Len(b)
  OBVIOUS
<1>7. Len(p) = m + n /\ \A i \in 1 .. m + n : p[i] = IF i <= m THEN a[i] ELSE b[i - m]
  BY <1>1, <1>5, <1>6
<1>8. Len(q) = m + n + n /\ \A i \in 1 .. m + n + n : q[i] = IF i <= m + n THEN p[i] ELSE c[i - (m + n)]
  <2>1. Len(p) = m + n /\ Len(c) = n
    BY <1>6, <1>7
  <2>2. Followed(q, p, c)
    BY <1>2, <1>4, TwoParts
  <2> QED BY <2>1, <2>2, Zenon DEF Followed
<1>9. Len(s) = m + n + n + n /\ \A i \in 1 .. m + n + n + n : s[i] = IF i <= m + n + n THEN q[i] ELSE d[i - (m + n + n)]
  <2>1. Len(q) = m + n + n /\ Len(d) = n
    BY <1>6, <1>8
  <2>2. Followed(s, q, d)
    BY <1>3, <1>4, TwoParts
  <2> QED BY <2>1, <2>2, Zenon DEF Followed
<1>10. \A i \in 1 .. m : s[i] = a[i]
  BY <1>7, <1>8, <1>9
<1>11. \A i \in 1 .. n : s[m + i] = b[i]
  BY <1>7, <1>8, <1>9
<1>12. \A i \in 1 .. n : s[m + n + i] = c[i]
  BY <1>8, <1>9
<1>13. \A i \in 1 .. n : s[m + n + n + i] = d[i]
  BY <1>9
<1>14. s = a \o b \o c \o d
  BY <1>1, <1>2, <1>3, Zenon
<1>15. /\ s \in Seq(S) /\ Len(s) = m + n + n + n
       /\ \A i \in 1 .. m : s[i] = a[i]
       /\ \A i \in 1 .. n : s[m + i] = b[i] /\ s[m + n + i] = c[i] /\ s[m + n + n + i] = d[i]
  BY <1>4, <1>9, <1>10, <1>11, <1>12, <1>13
<1> QED BY <1>5, <1>6, <1>14, <1>15, Zenon DEF Joined

\* The three groups of a ULID.
LEMMA Groups ==
  ASSUME NEW u \in Seq(Byte), Len(u) = RAW_SIZE
  PROVE  \A i \in 1 .. 5 : /\ SubSeq(u, 2, 6)[i] = u[1 + i] /\ u[1 + i] \in Byte
                           /\ SubSeq(u, 7, 11)[i] = u[6 + i] /\ u[6 + i] \in Byte
                           /\ SubSeq(u, 12, 16)[i] = u[11 + i] /\ u[11 + i] \in Byte
<1>1. \A i \in 1 .. 16 : u[i] \in Byte
  <2>1. \A i \in 1 .. Len(u) : u[i] \in Byte
    OBVIOUS
  <2> QED BY <2>1 DEF RAW_SIZE
<1>2. \A i \in 1 .. 5 : SubSeq(u, 2, 6)[i] = u[1 + i]
  BY Piece DEF RAW_SIZE
<1>3. \A i \in 1 .. 5 : SubSeq(u, 7, 11)[i] = u[6 + i]
  BY Piece DEF RAW_SIZE
<1>4. \A i \in 1 .. 5 : SubSeq(u, 12, 16)[i] = u[11 + i]
  BY Piece DEF RAW_SIZE
<1> QED BY <1>1, <1>2, <1>3, <1>4

\* The three groups of a text's symbols.
LEMMA SymbolGroups ==
  ASSUME NEW S, NEW s \in Seq(S), Len(s) = ENCODED_SIZE
  PROVE  \A i \in 1 .. 8 : /\ SubSeq(s, 3, 10)[i] = s[2 + i] /\ s[2 + i] \in S
                           /\ SubSeq(s, 11, 18)[i] = s[10 + i] /\ s[10 + i] \in S
                           /\ SubSeq(s, 19, 26)[i] = s[18 + i] /\ s[18 + i] \in S
<1>1. \A i \in 1 .. 26 : s[i] \in S
  <2>1. \A i \in 1 .. Len(s) : s[i] \in S
    OBVIOUS
  <2> QED BY <2>1 DEF ENCODED_SIZE
<1>2. \A i \in 1 .. 8 : SubSeq(s, 3, 10)[i] = s[2 + i]
  BY Piece DEF ENCODED_SIZE
<1>3. \A i \in 1 .. 8 : SubSeq(s, 11, 18)[i] = s[10 + i]
  BY Piece DEF ENCODED_SIZE
<1>4. \A i \in 1 .. 8 : SubSeq(s, 19, 26)[i] = s[18 + i]
  BY Piece DEF ENCODED_SIZE
<1>5. ASSUME NEW i \in 1 .. 8 PROVE s[2 + i] \in S /\ s[10 + i] \in S /\ s[18 + i] \in S
  <2>1. 2 + i \in 1 .. 26 /\ 10 + i \in 1 .. 26 /\ 18 + i \in 1 .. 26
    OBVIOUS
  <2> QED BY <1>1, <2>1
<1> QED BY <1>2, <1>3, <1>4, <1>5, Zenon

\* The twenty-six symbols of a ULID, part by part.
LEMMA EncodeParts ==
  ASSUME NEW u \in Seq(Byte), Len(u) = RAW_SIZE
  PROVE  /\ Encode(u) \in Seq(Symbol) /\ Len(Encode(u)) = ENCODED_SIZE
         /\ Encode(u)[1] = EncodeByte(u[1])[1] /\ Encode(u)[2] = EncodeByte(u[1])[2]
         /\ \A i \in 1 .. 8 : /\ Encode(u)[2 + i] = EncodeGroup(SubSeq(u, 2, 6))[i]
                              /\ Encode(u)[10 + i] = EncodeGroup(SubSeq(u, 7, 11))[i]
                              /\ Encode(u)[18 + i] = EncodeGroup(SubSeq(u, 12, 16))[i]
<1>1. ASSUME NEW b, \A i \in 1 .. 5 : b[i] \in Byte
      PROVE  EncodeGroup(b) \in Seq(Symbol) /\ Len(EncodeGroup(b)) = 8
  <2>1. \A i \in 1 .. 8 : EncodeGroup(b)[i] \in Symbol
    BY <1>1, GroupRoundTrip
  <2>2. Len(EncodeGroup(b)) = 8 /\ EncodeGroup(b) \in [1 .. 8 -> Symbol]
    BY <2>1 DEF EncodeGroup
  <2> QED BY <2>2, FunctionIsSeq
<1>2. u[1] \in Byte
  BY DEF RAW_SIZE
<1>3. EncodeByte(u[1]) \in Seq(Symbol) /\ Len(EncodeByte(u[1])) = 2
  <2>1. EncodeByte(u[1])[1] \in Symbol /\ EncodeByte(u[1])[2] \in Symbol
    <3>1. EncodeByte(u[1])[1] \in 0 .. 7 /\ EncodeByte(u[1])[2] \in Symbol
      BY <1>2, ByteRoundTrip
    <3>2. \A v \in 0 .. 7 : v \in Symbol
      BY DEF Symbol
    <3> QED BY <3>1, <3>2
  <2> QED BY <2>1 DEF EncodeByte
<1> DEFINE a == EncodeByte(u[1])
           b == EncodeGroup(SubSeq(u, 2, 6))
           c == EncodeGroup(SubSeq(u, 7, 11))
           d == EncodeGroup(SubSeq(u, 12, 16))
<1>4. /\ b \in Seq(Symbol) /\ c \in Seq(Symbol) /\ d \in Seq(Symbol)
      /\ Len(b) = 8 /\ Len(c) = 8 /\ Len(d) = 8
  BY <1>1, Groups
<1>5. Encode(u) = a \o b \o c \o d
  BY DEF Encode
<1> HIDE DEF a, b, c, d
<1>6. a \in Seq(Symbol) /\ Len(a) = 2
  BY <1>3 DEF a
<1>7. /\ Encode(u) \in Seq(Symbol) /\ Len(Encode(u)) = 2 + 8 + 8 + 8
      /\ \A i \in 1 .. 2 : Encode(u)[i] = a[i]
      /\ \A i \in 1 .. 8 : /\ Encode(u)[2 + i] = b[i]
                           /\ Encode(u)[2 + 8 + i] = c[i]
                           /\ Encode(u)[2 + 8 + 8 + i] = d[i]
  <2>1. Len(c) = Len(b) /\ Len(d) = Len(b)
    BY <1>4
  <2>2. Joined(Symbol, a \o b \o c \o d, a, b, c, d)
    BY <1>4, <1>6, <2>1, FourParts
  <2> QED BY <1>4, <1>5, <1>6, <2>2, Zenon DEF Joined
<1>8. \A i \in 1 .. 8 : 2 + 8 + i = 10 + i /\ 2 + 8 + 8 + i = 18 + i
  OBVIOUS
<1> QED BY <1>7, <1>8 DEF a, b, c, d, ENCODED_SIZE

\* The sixteen bytes of a text's symbols, part by part, also of INVALID ones.
LEMMA DecodeParts ==
  ASSUME NEW s
  PROVE  /\ Decode(s) \in Ulid
         /\ Decode(s)[1] = DecodeByte(s)[1]
         /\ \A i \in 1 .. 5 : /\ Decode(s)[1 + i] = DecodeGroup(SubSeq(s, 3, 10))[i]
                              /\ Decode(s)[6 + i] = DecodeGroup(SubSeq(s, 11, 18))[i]
                              /\ Decode(s)[11 + i] = DecodeGroup(SubSeq(s, 19, 26))[i]
<1>1. ASSUME NEW t PROVE DecodeGroup(t) \in Seq(Byte) /\ Len(DecodeGroup(t)) = 5
  BY OrIsByte DEF DecodeGroup
<1>2. DecodeByte(s) \in Seq(Byte) /\ Len(DecodeByte(s)) = 1
  BY OrIsByte DEF DecodeByte
<1> DEFINE a == DecodeByte(s)
           b == DecodeGroup(SubSeq(s, 3, 10))
           c == DecodeGroup(SubSeq(s, 11, 18))
           d == DecodeGroup(SubSeq(s, 19, 26))
<1>3. /\ b \in Seq(Byte) /\ c \in Seq(Byte) /\ d \in Seq(Byte)
      /\ Len(b) = 5 /\ Len(c) = 5 /\ Len(d) = 5
  BY <1>1
<1>4. Decode(s) = a \o b \o c \o d
  BY DEF Decode
<1>5. a \in Seq(Byte) /\ Len(a) = 1
  BY <1>2
<1> HIDE DEF a, b, c, d
<1>6. /\ Decode(s) \in Seq(Byte) /\ Len(Decode(s)) = 1 + 5 + 5 + 5
      /\ \A i \in 1 .. 1 : Decode(s)[i] = a[i]
      /\ \A i \in 1 .. 5 : /\ Decode(s)[1 + i] = b[i]
                           /\ Decode(s)[1 + 5 + i] = c[i]
                           /\ Decode(s)[1 + 5 + 5 + i] = d[i]
  <2>1. Len(c) = Len(b) /\ Len(d) = Len(b)
    BY <1>3
  <2>2. Joined(Byte, a \o b \o c \o d, a, b, c, d)
    BY <1>3, <1>5, <2>1, FourParts
  <2> QED BY <1>3, <1>4, <1>5, <2>2, Zenon DEF Joined
<1>7. \A i \in 1 .. 5 : 1 + 5 + i = 6 + i /\ 1 + 5 + 5 + i = 11 + i
  OBVIOUS
<1>8. Decode(s) \in Ulid
  <2>1. ASSUME NEW f \in Seq(Byte) PROVE f \in [1 .. Len(f) -> Byte]
    OBVIOUS
  <2>2. Len(Decode(s)) = 16
    BY <1>6
  <2>3. Decode(s) \in [1 .. Len(Decode(s)) -> Byte]
    BY <1>6, <2>1, Zenon
  <2> QED BY <2>2, <2>3, Zenon DEF Ulid, RAW_SIZE
<1> QED BY <1>6, <1>7, <1>8 DEF a, b, c, d

\* A position of a ULID is the first byte or in a group.
LEMMA Positions ==
  /\ \A k \in 1 .. RAW_SIZE : k = 1 \/ \E i \in 1 .. 5 : k = 1 + i \/ k = 6 + i \/ k = 11 + i
  /\ \A k \in 1 .. ENCODED_SIZE :
       k = 1 \/ k = 2 \/ \E i \in 1 .. 8 : k = 2 + i \/ k = 10 + i \/ k = 18 + i
<1>1. ASSUME NEW k \in 1 .. 16 PROVE k = 1 \/ \E i \in 1 .. 5 : k = 1 + i \/ k = 6 + i \/ k = 11 + i
  <2>1. k = 1 \/ k - 1 \in 1 .. 5 \/ k - 6 \in 1 .. 5 \/ k - 11 \in 1 .. 5
    OBVIOUS
  <2> QED BY <2>1
<1>2. ASSUME NEW k \in 1 .. 26
      PROVE  k = 1 \/ k = 2 \/ \E i \in 1 .. 8 : k = 2 + i \/ k = 10 + i \/ k = 18 + i
  <2>1. k = 1 \/ k = 2 \/ k - 2 \in 1 .. 8 \/ k - 10 \in 1 .. 8 \/ k - 18 \in 1 .. 8
    OBVIOUS
  <2> QED BY <2>1
<1> QED BY <1>1, <1>2 DEF RAW_SIZE, ENCODED_SIZE

\* The groups and the first byte are read position by position.
LEMMA GroupsByPosition ==
  ASSUME NEW s, NEW t
  PROVE  /\ (\A i \in 1 .. 8 : s[i] = t[i]) => DecodeGroup(s) = DecodeGroup(t)
         /\ (\A i \in 1 .. 5 : s[i] = t[i]) => EncodeGroup(s) = EncodeGroup(t)
         /\ s[1] = t[1] /\ s[2] = t[2] => DecodeByte(s) = DecodeByte(t)
<1>1. ASSUME \A i \in 1 .. 8 : s[i] = t[i] PROVE DecodeGroup(s) = DecodeGroup(t)
  <2>1. s[1] = t[1] /\ s[2] = t[2] /\ s[3] = t[3] /\ s[4] = t[4]
    BY <1>1
  <2>2. s[5] = t[5] /\ s[6] = t[6] /\ s[7] = t[7] /\ s[8] = t[8]
    BY <1>1
  <2> QED BY <2>1, <2>2, Zenon DEF DecodeGroup
<1>2. ASSUME \A i \in 1 .. 5 : s[i] = t[i] PROVE EncodeGroup(s) = EncodeGroup(t)
  <2>1. s[1] = t[1] /\ s[2] = t[2] /\ s[3] = t[3] /\ s[4] = t[4] /\ s[5] = t[5]
    BY <1>2
  <2> QED BY <2>1, Zenon DEF EncodeGroup
<1>3. ASSUME s[1] = t[1], s[2] = t[2] PROVE DecodeByte(s) = DecodeByte(t)
  BY <1>3, Zenon DEF DecodeByte
<1> QED BY <1>1, <1>2, <1>3

\* Decoding the symbols of a ULID gives the ULID.
LEMMA DecodeEncode ==
  ASSUME NEW u \in Ulid
  PROVE  /\ Encode(u) \in [1 .. ENCODED_SIZE -> Symbol] /\ Encode(u)[1] \in 0 .. 7
         /\ Decode(Encode(u)) = u
<1>1. u \in Seq(Byte) /\ Len(u) = RAW_SIZE
  <2>1. RAW_SIZE \in Nat
    BY DEF RAW_SIZE
  <2> QED BY <2>1, FunctionIsSeq DEF Ulid
<1>2. u[1] \in Byte
  BY DEF Ulid, RAW_SIZE
<1> DEFINE s == Encode(u)
           b == SubSeq(u, 2, 6)
           c == SubSeq(u, 7, 11)
           d == SubSeq(u, 12, 16)
<1>3. /\ s \in Seq(Symbol) /\ Len(s) = ENCODED_SIZE
      /\ s[1] = EncodeByte(u[1])[1] /\ s[2] = EncodeByte(u[1])[2]
      /\ \A i \in 1 .. 8 : /\ s[2 + i] = EncodeGroup(b)[i]
                           /\ s[10 + i] = EncodeGroup(c)[i]
                           /\ s[18 + i] = EncodeGroup(d)[i]
  BY <1>1, EncodeParts
<1>4. \A i \in 1 .. 5 : /\ b[i] = u[1 + i] /\ b[i] \in Byte
                        /\ c[i] = u[6 + i] /\ c[i] \in Byte
                        /\ d[i] = u[11 + i] /\ d[i] \in Byte
  BY <1>1, Groups
<1> HIDE DEF s, b, c, d
<1>5. s[1] \in 0 .. 7 /\ DecodeByte(s)[1] = u[1]
  <2>1. EncodeByte(u[1])[1] \in 0 .. 7 /\ DecodeByte(EncodeByte(u[1]))[1] = u[1]
    BY <1>2, ByteRoundTrip
  <2>2. DecodeByte(s) = DecodeByte(EncodeByte(u[1]))
    BY <1>3, GroupsByPosition, Zenon
  <2> QED BY <1>3, <2>1, <2>2
<1>6. \A i \in 1 .. 5 : /\ DecodeGroup(EncodeGroup(b))[i] = b[i]
                        /\ DecodeGroup(EncodeGroup(c))[i] = c[i]
                        /\ DecodeGroup(EncodeGroup(d))[i] = d[i]
  <2>1. /\ \A i \in 1 .. 5 : b[i] \in Byte
        /\ \A i \in 1 .. 5 : c[i] \in Byte
        /\ \A i \in 1 .. 5 : d[i] \in Byte
    BY <1>4, Zenon
  <2> QED BY <2>1, GroupRoundTrip, Zenon
<1>7. \A i \in 1 .. 8 : /\ SubSeq(s, 3, 10)[i] = EncodeGroup(b)[i]
                        /\ SubSeq(s, 11, 18)[i] = EncodeGroup(c)[i]
                        /\ SubSeq(s, 19, 26)[i] = EncodeGroup(d)[i]
  <2>1. \A i \in 1 .. 8 : /\ SubSeq(s, 3, 10)[i] = s[2 + i]
                          /\ SubSeq(s, 11, 18)[i] = s[10 + i]
                          /\ SubSeq(s, 19, 26)[i] = s[18 + i]
    <3>1. s \in Seq(Symbol) /\ Len(s) = ENCODED_SIZE
      BY <1>3
    <3> QED BY <3>1, SymbolGroups, Zenon
  <2> QED BY <1>3, <2>1, Zenon
<1>8. /\ DecodeGroup(SubSeq(s, 3, 10)) = DecodeGroup(EncodeGroup(b))
      /\ DecodeGroup(SubSeq(s, 11, 18)) = DecodeGroup(EncodeGroup(c))
      /\ DecodeGroup(SubSeq(s, 19, 26)) = DecodeGroup(EncodeGroup(d))
  BY <1>7, GroupsByPosition, Zenon
<1>9. /\ Decode(s) \in Ulid /\ Decode(s)[1] = u[1]
      /\ \A i \in 1 .. 5 : /\ Decode(s)[1 + i] = u[1 + i]
                           /\ Decode(s)[6 + i] = u[6 + i]
                           /\ Decode(s)[11 + i] = u[11 + i]
  <2>1. /\ Decode(s) \in Ulid /\ Decode(s)[1] = DecodeByte(s)[1]
        /\ \A i \in 1 .. 5 : /\ Decode(s)[1 + i] = DecodeGroup(SubSeq(s, 3, 10))[i]
                             /\ Decode(s)[6 + i] = DecodeGroup(SubSeq(s, 11, 18))[i]
                             /\ Decode(s)[11 + i] = DecodeGroup(SubSeq(s, 19, 26))[i]
    BY DecodeParts, Zenon
  <2>2. ASSUME NEW i \in 1 .. 5
        PROVE  /\ Decode(s)[1 + i] = u[1 + i]
               /\ Decode(s)[6 + i] = u[6 + i]
               /\ Decode(s)[11 + i] = u[11 + i]
    <3>1. Decode(s)[1 + i] = u[1 + i]
      <4>1. /\ Decode(s)[1 + i] = DecodeGroup(SubSeq(s, 3, 10))[i]
            /\ DecodeGroup(EncodeGroup(b))[i] = b[i] /\ b[i] = u[1 + i]
        BY <1>4, <1>6, <2>1, Zenon
      <4> QED BY <1>8, <4>1
    <3>2. Decode(s)[6 + i] = u[6 + i]
      <4>1. /\ Decode(s)[6 + i] = DecodeGroup(SubSeq(s, 11, 18))[i]
            /\ DecodeGroup(EncodeGroup(c))[i] = c[i] /\ c[i] = u[6 + i]
        BY <1>4, <1>6, <2>1, Zenon
      <4> QED BY <1>8, <4>1
    <3>3. Decode(s)[11 + i] = u[11 + i]
      <4>1. /\ Decode(s)[11 + i] = DecodeGroup(SubSeq(s, 19, 26))[i]
            /\ DecodeGroup(EncodeGroup(d))[i] = d[i] /\ d[i] = u[11 + i]
        BY <1>4, <1>6, <2>1, Zenon
      <4> QED BY <1>8, <4>1
    <3> QED BY <3>1, <3>2, <3>3
  <2> QED BY <1>5, <2>1, <2>2, Zenon
<1>10. \A k \in 1 .. RAW_SIZE : Decode(s)[k] = u[k]
  BY <1>9, Positions, Zenon
<1>11. Decode(s) = u
  <2>1. Decode(s) \in [1 .. RAW_SIZE -> Byte] /\ u \in [1 .. RAW_SIZE -> Byte]
    BY <1>9 DEF Ulid
  <2>2. Agree(1 .. RAW_SIZE, Decode(s), u)
    BY <1>10, Zenon DEF Agree
  <2> QED BY <2>1, <2>2, SameFunction
<1>12. s \in [1 .. ENCODED_SIZE -> Symbol]
  <2>1. ASSUME NEW f \in Seq(Symbol) PROVE f \in [1 .. Len(f) -> Symbol]
    OBVIOUS
  <2>2. s \in [1 .. Len(s) -> Symbol]
    BY <1>3, <2>1, Zenon
  <2> QED BY <1>3, <2>2, Zenon
<1> QED BY <1>5, <1>11, <1>12 DEF s

\* Encoding the bytes of symbols gives the symbols, unless the first one overflows.
LEMMA EncodeDecode ==
  ASSUME NEW s \in [1 .. ENCODED_SIZE -> Symbol], s[1] \in 0 .. 7
  PROVE  \A i \in 1 .. ENCODED_SIZE : Encode(Decode(s))[i] = s[i]
<1>1. s \in Seq(Symbol) /\ Len(s) = ENCODED_SIZE /\ s[2] \in Symbol
  <2>1. ENCODED_SIZE \in Nat /\ 2 \in 1 .. ENCODED_SIZE
    BY DEF ENCODED_SIZE
  <2> QED BY <2>1, FunctionIsSeq
<1> DEFINE u == Decode(s)
           b == SubSeq(s, 3, 10)
           c == SubSeq(s, 11, 18)
           d == SubSeq(s, 19, 26)
<1>2. /\ u \in Ulid /\ u[1] = DecodeByte(s)[1]
      /\ \A i \in 1 .. 5 : /\ u[1 + i] = DecodeGroup(b)[i]
                           /\ u[6 + i] = DecodeGroup(c)[i]
                           /\ u[11 + i] = DecodeGroup(d)[i]
  BY DecodeParts, Zenon
<1>3. \A i \in 1 .. 8 : /\ b[i] = s[2 + i] /\ b[i] \in Symbol
                        /\ c[i] = s[10 + i] /\ c[i] \in Symbol
                        /\ d[i] = s[18 + i] /\ d[i] \in Symbol
  <2>1. \A i \in 1 .. 8 : /\ b[i] = s[2 + i] /\ s[2 + i] \in Symbol
                          /\ c[i] = s[10 + i] /\ s[10 + i] \in Symbol
                          /\ d[i] = s[18 + i] /\ s[18 + i] \in Symbol
    BY <1>1, SymbolGroups, Zenon
  <2> HIDE DEF b, c, d
  <2> QED BY <2>1
<1> HIDE DEF u, b, c, d
<1>4. u \in Seq(Byte) /\ Len(u) = RAW_SIZE
  <2>1. RAW_SIZE \in Nat
    BY DEF RAW_SIZE
  <2> QED BY <1>2, <2>1, FunctionIsSeq DEF Ulid
<1>5. EncodeByte(u[1])[1] = s[1] /\ EncodeByte(u[1])[2] = s[2]
  <2>1. s[1] \in 0 .. 7 /\ s[2] \in Symbol
    BY <1>1
  <2>2. EncodeByte(DecodeByte(s)[1])[1] = s[1] /\ EncodeByte(DecodeByte(s)[1])[2] = s[2]
    BY <2>1, ByteRoundTrip, Zenon
  <2> QED BY <1>2, <2>2
<1>6. \A i \in 1 .. 8 : /\ EncodeGroup(DecodeGroup(b))[i] = b[i]
                        /\ EncodeGroup(DecodeGroup(c))[i] = c[i]
                        /\ EncodeGroup(DecodeGroup(d))[i] = d[i]
  <2>1. /\ \A i \in 1 .. 8 : b[i] \in Symbol
        /\ \A i \in 1 .. 8 : c[i] \in Symbol
        /\ \A i \in 1 .. 8 : d[i] \in Symbol
    BY <1>3, Zenon
  <2> QED BY <2>1, GroupRoundTripBack, Zenon
<1>7. \A i \in 1 .. 5 : /\ SubSeq(u, 2, 6)[i] = DecodeGroup(b)[i]
                        /\ SubSeq(u, 7, 11)[i] = DecodeGroup(c)[i]
                        /\ SubSeq(u, 12, 16)[i] = DecodeGroup(d)[i]
  BY <1>2, <1>4, Groups, Zenon
<1>8. /\ EncodeGroup(SubSeq(u, 2, 6)) = EncodeGroup(DecodeGroup(b))
      /\ EncodeGroup(SubSeq(u, 7, 11)) = EncodeGroup(DecodeGroup(c))
      /\ EncodeGroup(SubSeq(u, 12, 16)) = EncodeGroup(DecodeGroup(d))
  BY <1>7, GroupsByPosition, Zenon
<1>9. /\ Encode(u)[1] = EncodeByte(u[1])[1] /\ Encode(u)[2] = EncodeByte(u[1])[2]
      /\ \A i \in 1 .. 8 : /\ Encode(u)[2 + i] = EncodeGroup(SubSeq(u, 2, 6))[i]
                           /\ Encode(u)[10 + i] = EncodeGroup(SubSeq(u, 7, 11))[i]
                           /\ Encode(u)[18 + i] = EncodeGroup(SubSeq(u, 12, 16))[i]
  BY <1>4, EncodeParts, Zenon
<1>10. /\ Encode(u)[1] = s[1] /\ Encode(u)[2] = s[2]
       /\ \A i \in 1 .. 8 : /\ Encode(u)[2 + i] = s[2 + i]
                            /\ Encode(u)[10 + i] = s[10 + i]
                            /\ Encode(u)[18 + i] = s[18 + i]
  <2>1. ASSUME NEW i \in 1 .. 8
        PROVE  /\ Encode(u)[2 + i] = s[2 + i]
               /\ Encode(u)[10 + i] = s[10 + i]
               /\ Encode(u)[18 + i] = s[18 + i]
    <3>1. Encode(u)[2 + i] = s[2 + i]
      <4>1. /\ Encode(u)[2 + i] = EncodeGroup(SubSeq(u, 2, 6))[i]
            /\ EncodeGroup(DecodeGroup(b))[i] = b[i] /\ b[i] = s[2 + i]
        BY <1>3, <1>6, <1>9, Zenon
      <4> QED BY <1>8, <4>1
    <3>2. Encode(u)[10 + i] = s[10 + i]
      <4>1. /\ Encode(u)[10 + i] = EncodeGroup(SubSeq(u, 7, 11))[i]
            /\ EncodeGroup(DecodeGroup(c))[i] = c[i] /\ c[i] = s[10 + i]
        BY <1>3, <1>6, <1>9, Zenon
      <4> QED BY <1>8, <4>1
    <3>3. Encode(u)[18 + i] = s[18 + i]
      <4>1. /\ Encode(u)[18 + i] = EncodeGroup(SubSeq(u, 12, 16))[i]
            /\ EncodeGroup(DecodeGroup(d))[i] = d[i] /\ d[i] = s[18 + i]
        BY <1>3, <1>6, <1>9, Zenon
      <4> QED BY <1>8, <4>1
    <3> QED BY <3>1, <3>2, <3>3
  <2> QED BY <1>5, <1>9, <2>1, Zenon
<1>11. \A i \in 1 .. ENCODED_SIZE : Encode(u)[i] = s[i]
  BY <1>10, Positions, Zenon
<1> QED BY <1>11 DEF u

-----------------------------------------------------------------------------
(* Texts.                                                                  *)

\* The characters of a symbol, and what lower-casing makes of them.
Lower(c) == IF c \in 65 .. 90 THEN c + 32 ELSE c

LEMMA CodesAre ==
  ASSUME NEW v \in Symbol, NEW c, c \in Codes(v)
  PROVE  /\ c \in Byte /\ (c <= Seven => v \in 0 .. 7) /\ (v \in 0 .. 7 => c <= Seven)
         /\ Lower(c) = Lower(ENCODING[v]) /\ Lower(c) \in Codes(v)
<1>1. v \in 0 .. 31
  BY DEF Symbol
<1>2. ENCODING[v] = IF v < 10 THEN 48 + v ELSE Letters[v - 9]
  BY DEF ENCODING
<1>3. c \in Byte
  BY CodesDiffer
<1>4. CASE v < 10
  <2>1. c = 48 + v /\ ENCODING[v] = 48 + v /\ Codes(v) = {48 + v}
    BY <1>2, <1>4 DEF Codes
  <2> QED BY <1>1, <1>3, <1>4, <2>1 DEF Lower, Seven
<1>5. CASE v >= 10
  <2>1. ENCODING[v] \in 65 .. 90
    BY <1>1, <1>5, CodesDiffer
  <2>2. (c = ENCODING[v] \/ c = ENCODING[v] + 32) /\ ENCODING[v] + 32 \in Codes(v)
    BY <1>1, <1>5 DEF Codes
  <2>3. PICK e \in 65 .. 90 : e = ENCODING[v]
    BY <2>1
  <2>4. Lower(c) = e + 32 /\ Lower(e) = e + 32
    BY <2>2, <2>3 DEF Lower
  <2>5. ~(c <= Seven) /\ ~(v \in 0 .. 7)
    BY <1>1, <1>5, <2>2, <2>3 DEF Seven
  <2> QED BY <1>3, <2>2, <2>3, <2>4, <2>5
<1> QED BY <1>1, <1>4, <1>5

\* A text whose characters stand for the symbols of a ULID is accepted, also by
\* parse_strict, and gives that ULID.
LEMMA TextOfUlid ==
  ASSUME NEW u \in Ulid, NEW t \in [1 .. ENCODED_SIZE -> Byte],
         \A i \in 1 .. ENCODED_SIZE : t[i] \in Codes(Encode(u)[i])
  PROVE  parse_error(t, TRUE) = "ok" /\ parse_bytes(t) = u
<1> DEFINE s == Encode(u)
<1>1. s \in [1 .. ENCODED_SIZE -> Symbol] /\ s[1] \in 0 .. 7 /\ Decode(s) = u
  BY DecodeEncode
<1>2. Len(t) = ENCODED_SIZE
  <2>1. ENCODED_SIZE \in Nat
    BY DEF ENCODED_SIZE
  <2> QED BY <2>1, FunctionIsSeq
<1> HIDE DEF s
<1>3. \A i \in 1 .. ENCODED_SIZE : s[i] \in Symbol /\ t[i] \in Codes(s[i]) /\ DEC[t[i]] = s[i]
  <2>1. \A i \in 1 .. ENCODED_SIZE : s[i] \in Symbol
    BY <1>1
  <2>2. \A i \in 1 .. ENCODED_SIZE : t[i] \in Codes(s[i])
    BY DEF s
  <2> QED BY <2>1, <2>2, DecFinds, Zenon
<1>4. Symbols(t) = s
  <2>1. Symbols(t) = [i \in 1 .. ENCODED_SIZE |-> s[i]]
    BY <1>2, <1>3, Zenon DEF Symbols
  <2>2. s = [i \in 1 .. ENCODED_SIZE |-> s[i]]
    BY <1>1
  <2> QED BY <2>1, <2>2, Zenon
<1>5. ValidText(t)
  <2>1. \A v \in Symbol : v # INVALID
    BY DEF Symbol, INVALID
  <2> QED BY <1>2, <1>3, <2>1, Zenon DEF ValidText
<1>6. t[1] \in Byte /\ t[1] <= Seven
  <2>1. 1 \in 1 .. ENCODED_SIZE
    BY DEF ENCODED_SIZE
  <2> QED BY <1>1, <1>3, <2>1, CodesAre
<1>7. ~(t[1] > Seven)
  <2>1. \A c \in Byte : c <= Seven => ~(c > Seven)
    BY DEF Byte, Seven
  <2> QED BY <1>6, <2>1, Zenon
<1>8. parse_error(t, TRUE) = "ok"
  BY <1>2, <1>5, <1>7, Zenon DEF parse_error
<1> QED BY <1>1, <1>4, <1>8, Zenon DEF parse_bytes

\* A text over the alphabet that does not overflow has the symbols of the ULID
\* it gives.
LEMMA UlidOfText ==
  ASSUME NEW t \in Seq(Byte), Len(t) = ENCODED_SIZE, t[1] <= Seven, ValidText(t)
  PROVE  \A i \in 1 .. ENCODED_SIZE :
           Encode(parse_bytes(t))[i] \in Symbol /\ t[i] \in Codes(Encode(parse_bytes(t))[i])
<1> DEFINE s == Symbols(t)
<1>1. \A i \in 1 .. ENCODED_SIZE : t[i] \in Byte
  OBVIOUS
<1>2. \A i \in 1 .. ENCODED_SIZE : s[i] \in Symbol /\ t[i] \in Codes(s[i])
  <2>1. \A i \in 1 .. ENCODED_SIZE : s[i] = DEC[t[i]]
    BY Zenon DEF Symbols
  <2>2. \A i \in 1 .. ENCODED_SIZE : DEC[t[i]] # INVALID
    BY Zenon DEF ValidText
  <2> QED BY <1>1, <2>1, <2>2, DecFinds, Zenon
<1>3. s \in [1 .. ENCODED_SIZE -> Symbol]
  <2>1. s = [i \in 1 .. ENCODED_SIZE |-> s[i]]
    BY Zenon DEF Symbols
  <2> HIDE DEF s
  <2> QED BY <1>2, <2>1
<1> HIDE DEF s
<1>4. s[1] \in 0 .. 7
  <2>1. 1 \in 1 .. ENCODED_SIZE
    BY DEF ENCODED_SIZE
  <2> QED BY <1>2, <2>1, CodesAre
<1>5. \A i \in 1 .. ENCODED_SIZE : Encode(Decode(s))[i] = s[i]
  BY <1>3, <1>4, EncodeDecode
<1>6. parse_bytes(t) = Decode(s)
  BY DEF parse_bytes, s
<1> QED BY <1>2, <1>5, <1>6, Zenon

-----------------------------------------------------------------------------
(* The receiver.                                                           *)

\* Inductive invariant: the receiver is sixteen bytes, and the text that was
\* parsed last, if the last call was a parse, is one that gives it.
TextInv ==
  /\ TypeOK
  /\ text # <<>> => /\ text \in Seq(Byte) /\ Len(text) = ENCODED_SIZE
                    /\ text[1] <= Seven /\ id = parse_bytes(text)

\* Every call keeps TextInv: whatever the text, with characters outside the
\* alphabet too, parse leaves sixteen bytes in the receiver.
THEOREM TextInvariance == Spec => []TextInv
<1>1. Init => TextInv
  BY DEF Init, TextInv, TypeOK, ZERO, Byte, RAW_SIZE
<1>2. TextInv /\ [Next]_vars => TextInv'
  <2> SUFFICES ASSUME TextInv, [Next]_vars PROVE TextInv'
    OBVIOUS
  <2> USE InputAssumption
  <2>1. ASSUME NEW t \in Texts, NEW strict \in BOOLEAN, Parse(t, strict) PROVE TextInv'
    <3>1. t \in Seq(Byte)
      OBVIOUS
    <3>2. CASE parse_error(t, strict) = "ok" /\ id' = parse_bytes(t) /\ text' = t /\ res' = "ok"
      <4>1. Len(t) = ENCODED_SIZE /\ ~(t[1] > Seven)
        <5>1. Len(t) # ENCODED_SIZE => parse_error(t, strict) = "DataSize"
          BY DEF parse_error
        <5>2. Len(t) = ENCODED_SIZE /\ t[1] > Seven =>
                 parse_error(t, strict) \in {"InvalidCharacters", "Overflow"}
          BY DEF parse_error
        <5> QED BY <3>2, <5>1, <5>2
      <4>2. t[1] \in Byte
        <5>1. 1 \in 1 .. Len(t)
          BY <4>1 DEF ENCODED_SIZE
        <5> QED BY <3>1, <5>1
      <4>3. t[1] <= Seven
        <5>1. \A c \in Byte : ~(c > Seven) => c <= Seven
          BY DEF Byte, Seven
        <5> QED BY <4>1, <4>2, <5>1, Zenon
      <4>4. parse_bytes(t) \in [1 .. RAW_SIZE -> Byte]
        BY DecodeParts DEF parse_bytes, Ulid
      <4> QED BY <3>1, <3>2, <4>1, <4>3, <4>4 DEF TextInv, TypeOK
    <3>3. CASE parse_error(t, strict) # "ok" /\ Fail(parse_error(t, strict))
      <4>1. parse_error(t, strict) \in {"DataSize", "InvalidCharacters", "Overflow", "ok"}
        BY DEF parse_error
      <4> QED BY <3>3, <4>1 DEF Fail, TextInv, TypeOK
    <3> QED BY <2>1, <3>2, <3>3 DEF Parse
  <2>2. ASSUME NEW b \in Raws, FromBytes(b) PROVE TextInv'
    <3>1. b \in Seq(Byte)
      OBVIOUS
    <3>2. CASE Len(b) = RAW_SIZE /\ id' = b /\ text' = <<>> /\ res' = "ok"
      <4>1. b \in [1 .. Len(b) -> Byte]
        BY <3>1
      <4>2. b \in [1 .. RAW_SIZE -> Byte]
        BY <3>2, <4>1, Zenon
      <4> QED BY <3>2, <4>2 DEF TextInv, TypeOK
    <3>3. CASE Len(b) # RAW_SIZE /\ Fail("DataSize")
      BY <3>3 DEF Fail, TextInv, TypeOK
    <3> QED BY <2>2, <3>2, <3>3 DEF FromBytes
  <2>3. CASE ScanNull
    BY <2>3 DEF ScanNull, TextInv, TypeOK, ZERO, Byte
  <2>4. CASE ScanOther
    BY <2>4 DEF ScanOther, Fail, TextInv, TypeOK
  <2>5. ASSUME NEW room \in Rooms, NEW size \in {ENCODED_SIZE, RAW_SIZE}, WriteTo(room, size)
        PROVE  TextInv'
    BY <2>5 DEF WriteTo, TextInv, TypeOK
  <2>6. CASE UNCHANGED vars
    BY <2>6 DEF vars, TextInv, TypeOK
  <2> QED BY <2>1, <2>2, <2>3, <2>4, <2>5, <2>6 DEF Next
<1> QED BY <1>1, <1>2, PTL DEF Spec

\* Also for text with characters outside the alphabet the receiver stays sixteen
\* bytes, and every call returns one of the listed results.
THEOREM TextTypeCorrect == Spec => []TypeOK
<1>1. TextInv => TypeOK
  BY DEF TextInv
<1> QED BY <1>1, TextInvariance, PTL

\* The text of a ULID, in upper and in lower case, is parsed back to the ULID.
LEMMA TextRoundTrip ==
  ASSUME NEW u \in Ulid
  PROVE  \A t \in {marshal_text(u), LowerCase(marshal_text(u))} :
           parse_error(t, TRUE) = "ok" /\ parse_bytes(t) = u
<1> DEFINE s == Encode(u)  t == marshal_text(u)
<1>1. \A i \in 1 .. ENCODED_SIZE : s[i] \in Symbol
  BY DecodeEncode
<1>2. t = [i \in 1 .. ENCODED_SIZE |-> ENCODING[s[i]]]
  BY DEF marshal_text
<1> HIDE DEF s, t
<1>3. \A i \in 1 .. ENCODED_SIZE : t[i] \in Codes(s[i]) /\ t[i] \in Byte
  BY <1>1, <1>2, CodesDiffer
<1>4. t \in [1 .. ENCODED_SIZE -> Byte]
  BY <1>2, <1>3
<1>5. parse_error(t, TRUE) = "ok" /\ parse_bytes(t) = u
  BY <1>3, <1>4, TextOfUlid DEF s
<1>6. LowerCase(t) = [i \in 1 .. ENCODED_SIZE |-> Lower(t[i])]
  <2>1. ENCODED_SIZE \in Nat
    BY DEF ENCODED_SIZE
  <2>2. Len(t) = ENCODED_SIZE
    BY <1>4, <2>1, FunctionIsSeq
  <2> QED BY <2>2, Zenon DEF LowerCase, Lower
<1>7. \A i \in 1 .. ENCODED_SIZE : Lower(t[i]) \in Codes(s[i]) /\ Lower(t[i]) \in Byte
  BY <1>1, <1>3, CodesAre, CodesDiffer
<1>8. PICK l : l = LowerCase(t)
  OBVIOUS
<1>9. l \in [1 .. ENCODED_SIZE -> Byte] /\ \A i \in 1 .. ENCODED_SIZE : l[i] \in Codes(s[i])
  BY <1>6, <1>7, <1>8
<1>10. parse_error(l, TRUE) = "ok" /\ parse_bytes(l) = u
  BY <1>9, TextOfUlid DEF s
<1> QED BY <1>5, <1>8, <1>10 DEF t

\* The text of any ULID the receiver can hold, also in lower case, is accepted
\* by strict parsing and gives the ULID back.
THEOREM TextAlwaysParsesBack == Spec => []TextParsesBack
<1>1. TextInv => TextParsesBack
  BY TextRoundTrip DEF TextInv, TypeOK, TextParsesBack, Ulid
<1> QED BY <1>1, TextInvariance, PTL

\* The bits of symbol i, of byte i, and the last bits of x1 .. x5 as those of v.
FiveBits(s, i) ==
  /\ BitAt(s, 5, 5 * i) = (s[1 + i] \div 16) % 2
  /\ BitAt(s, 5, 5 * i + 1) = (s[1 + i] \div 8) % 2
  /\ BitAt(s, 5, 5 * i + 2) = (s[1 + i] \div 4) % 2
  /\ BitAt(s, 5, 5 * i + 3) = (s[1 + i] \div 2) % 2
  /\ BitAt(s, 5, 5 * i + 4) = (s[1 + i] \div 1) % 2

EightBits(b, i) ==
  /\ BitAt(b, 8, 8 * i) = (b[1 + i] \div 128) % 2
  /\ BitAt(b, 8, 8 * i + 1) = (b[1 + i] \div 64) % 2
  /\ BitAt(b, 8, 8 * i + 2) = (b[1 + i] \div 32) % 2
  /\ BitAt(b, 8, 8 * i + 3) = (b[1 + i] \div 16) % 2
  /\ BitAt(b, 8, 8 * i + 4) = (b[1 + i] \div 8) % 2
  /\ BitAt(b, 8, 8 * i + 5) = (b[1 + i] \div 4) % 2
  /\ BitAt(b, 8, 8 * i + 6) = (b[1 + i] \div 2) % 2
  /\ BitAt(b, 8, 8 * i + 7) = (b[1 + i] \div 1) % 2

LastBits(v, x1, x2, x3, x4, x5) ==
  /\ (v \div 16) % 2 = x1 % 2 /\ (v \div 8) % 2 = x2 % 2 /\ (v \div 4) % 2 = x3 % 2
  /\ (v \div 2) % 2 = x4 % 2 /\ (v \div 1) % 2 = x5 % 2

\* The bits of a sequence of symbols and of a sequence of bytes.
LEMMA BitsOfParts == \A s : \A i \in Nat : FiveBits(s, i) /\ EightBits(s, i)
<1>1. \A x : /\ Shr(x, 0) = x \div 1 /\ Shr(x, 1) = x \div 2 /\ Shr(x, 2) = x \div 4
             /\ Shr(x, 3) = x \div 8 /\ Shr(x, 4) = x \div 16 /\ Shr(x, 5) = x \div 32
             /\ Shr(x, 6) = x \div 64 /\ Shr(x, 7) = x \div 128
  BY DEF Shr
<1>2. \A s : \A i \in Nat : \A r \in 0 .. 4 : BitAt(s, 5, 5 * i + r) = Shr(s[1 + i], 4 - r) % 2
  <2> TAKE s
  <2> TAKE i \in Nat
  <2> TAKE r \in 0 .. 4
  <2>1. 1 + ((5 * i + r) \div 5) = 1 + i /\ 5 - 1 - ((5 * i + r) % 5) = 4 - r
    OBVIOUS
  <2> QED BY <2>1, Zenon DEF BitAt
<1>3. \A b : \A i \in Nat : \A r \in 0 .. 7 : BitAt(b, 8, 8 * i + r) = Shr(b[1 + i], 7 - r) % 2
  <2> TAKE b
  <2> TAKE i \in Nat
  <2> TAKE r \in 0 .. 7
  <2>1. 1 + ((8 * i + r) \div 8) = 1 + i /\ 8 - 1 - ((8 * i + r) % 8) = 7 - r
    OBVIOUS
  <2> QED BY <2>1, Zenon DEF BitAt
<1>4. ASSUME NEW s, NEW i \in Nat
      PROVE  /\ BitAt(s, 5, 5 * i) = Shr(s[1 + i], 4) % 2
             /\ BitAt(s, 5, 5 * i + 1) = Shr(s[1 + i], 3) % 2
             /\ BitAt(s, 5, 5 * i + 2) = Shr(s[1 + i], 2) % 2
             /\ BitAt(s, 5, 5 * i + 3) = Shr(s[1 + i], 1) % 2
             /\ BitAt(s, 5, 5 * i + 4) = Shr(s[1 + i], 0) % 2
  <2>1. \A r \in 0 .. 4 : BitAt(s, 5, 5 * i + r) = Shr(s[1 + i], 4 - r) % 2
    BY <1>2
  <2> QED BY <2>1
<1>5. ASSUME NEW b, NEW i \in Nat
      PROVE  /\ BitAt(b, 8, 8 * i) = Shr(b[1 + i], 7) % 2
             /\ BitAt(b, 8, 8 * i + 1) = Shr(b[1 + i], 6) % 2
             /\ BitAt(b, 8, 8 * i + 2) = Shr(b[1 + i], 5) % 2
             /\ BitAt(b, 8, 8 * i + 3) = Shr(b[1 + i], 4) % 2
             /\ BitAt(b, 8, 8 * i + 4) = Shr(b[1 + i], 3) % 2
             /\ BitAt(b, 8, 8 * i + 5) = Shr(b[1 + i], 2) % 2
             /\ BitAt(b, 8, 8 * i + 6) = Shr(b[1 + i], 1) % 2
             /\ BitAt(b, 8, 8 * i + 7) = Shr(b[1 + i], 0) % 2
  <2>1. \A r \in 0 .. 7 : BitAt(b, 8, 8 * i + r) = Shr(b[1 + i], 7 - r) % 2
    BY <1>3
  <2> QED BY <2>1
<1> QED BY <1>1, <1>4, <1>5 DEF FiveBits, EightBits

\* The eight symbols of five bytes have the forty bits of the bytes, in order.
LEMMA GroupBits ==
  ASSUME NEW b, \A i \in 1 .. 5 : b[i] \in Byte
  PROVE  \A p \in 0 .. 39 : BitAt(EncodeGroup(b), 5, p) = BitAt(b, 8, p)
<1> DEFINE s == EncodeGroup(b)
<1>1. b[1] \in 0 .. 255 /\ b[2] \in 0 .. 255 /\ b[3] \in 0 .. 255 /\ b[4] \in 0 .. 255 /\ b[5] \in 0 .. 255
  <2>1. b[1] \in Byte /\ b[2] \in Byte /\ b[3] \in Byte /\ b[4] \in Byte /\ b[5] \in Byte
    OBVIOUS
  <2> QED BY <2>1, Zenon DEF Byte
<1>2. /\ s[1] = b[1] \div 8 /\ s[2] = (b[1] % 8) * 4 + (b[2] \div 64)
      /\ s[3] = (b[2] % 64) \div 2 /\ s[4] = (b[2] % 2) * 16 + (b[3] \div 16)
      /\ s[5] = (b[3] % 16) * 2 + (b[4] \div 128) /\ s[6] = (b[4] % 128) \div 4
      /\ s[7] = (b[4] % 4) * 8 + (b[5] \div 32) /\ s[8] = b[5] % 32
  BY EncodeGroupIs
<1> HIDE DEF s
<1>3. LastBits(s[1], b[1] \div 128, b[1] \div 64, b[1] \div 32, b[1] \div 16, b[1] \div 8)
  <2>1. b[1] \in 0 .. 255 /\ s[1] = b[1] \div 8
    BY <1>1, <1>2, Zenon
  <2> QED BY <2>1 DEF LastBits
<1>4. LastBits(s[2], b[1] \div 4, b[1] \div 2, b[1] \div 1, b[2] \div 128, b[2] \div 64)
  <2>1. /\ b[1] \in 0 .. 255 /\ b[2] \in 0 .. 255
        /\ s[2] = (b[1] % 8) * 4 + (b[2] \div 64)
    BY <1>1, <1>2, Zenon
  <2> QED BY <2>1 DEF LastBits
<1>5. LastBits(s[3], b[2] \div 32, b[2] \div 16, b[2] \div 8, b[2] \div 4, b[2] \div 2)
  <2>1. b[2] \in 0 .. 255 /\ s[3] = (b[2] % 64) \div 2
    BY <1>1, <1>2, Zenon
  <2> QED BY <2>1 DEF LastBits
<1>6. LastBits(s[4], b[2] \div 1, b[3] \div 128, b[3] \div 64, b[3] \div 32, b[3] \div 16)
  <2>1. /\ b[2] \in 0 .. 255 /\ b[3] \in 0 .. 255
        /\ s[4] = (b[2] % 2) * 16 + (b[3] \div 16)
    BY <1>1, <1>2, Zenon
  <2> QED BY <2>1 DEF LastBits
<1>7. LastBits(s[5], b[3] \div 8, b[3] \div 4, b[3] \div 2, b[3] \div 1, b[4] \div 128)
  <2>1. /\ b[3] \in 0 .. 255 /\ b[4] \in 0 .. 255
        /\ s[5] = (b[3] % 16) * 2 + (b[4] \div 128)
    BY <1>1, <1>2, Zenon
  <2> QED BY <2>1 DEF LastBits
<1>8. LastBits(s[6], b[4] \div 64, b[4] \div 32, b[4] \div 16, b[4] \div 8, b[4] \div 4)
  <2>1. b[4] \in 0 .. 255 /\ s[6] = (b[4] % 128) \div 4
    BY <1>1, <1>2, Zenon
  <2> QED BY <2>1 DEF LastBits
<1>9. LastBits(s[7], b[4] \div 2, b[4] \div 1, b[5] \div 128, b[5] \div 64, b[5] \div 32)
  <2>1. /\ b[4] \in 0 .. 255 /\ b[5] \in 0 .. 255
        /\ s[7] = (b[4] % 4) * 8 + (b[5] \div 32)
    BY <1>1, <1>2, Zenon
  <2> QED BY <2>1 DEF LastBits
<1>10. LastBits(s[8], b[5] \div 16, b[5] \div 8, b[5] \div 4, b[5] \div 2, b[5] \div 1)
  <2>1. b[5] \in 0 .. 255 /\ s[8] = b[5] % 32
    BY <1>1, <1>2, Zenon
  <2> QED BY <2>1 DEF LastBits
<1>11. \A i \in 0 .. 7 : FiveBits(s, i) /\ EightBits(b, i)
  BY BitsOfParts
<1>12. \A p \in 0 .. 4 : BitAt(s, 5, p) = BitAt(b, 8, p)
  <2>1. FiveBits(s, 0) /\ EightBits(b, 0)
    BY <1>11
  <2>2. /\ BitAt(s, 5, 0) = BitAt(b, 8, 0)
        /\ BitAt(s, 5, 1) = BitAt(b, 8, 1)
        /\ BitAt(s, 5, 2) = BitAt(b, 8, 2)
        /\ BitAt(s, 5, 3) = BitAt(b, 8, 3)
        /\ BitAt(s, 5, 4) = BitAt(b, 8, 4)
    BY <1>3, <2>1 DEF FiveBits, EightBits, LastBits
  <2> QED BY <2>2
<1>13. \A p \in 5 .. 9 : BitAt(s, 5, p) = BitAt(b, 8, p)
  <2>1. FiveBits(s, 1) /\ EightBits(b, 0) /\ EightBits(b, 1)
    BY <1>11
  <2>2. /\ BitAt(s, 5, 5) = BitAt(b, 8, 5)
        /\ BitAt(s, 5, 6) = BitAt(b, 8, 6)
        /\ BitAt(s, 5, 7) = BitAt(b, 8, 7)
        /\ BitAt(s, 5, 8) = BitAt(b, 8, 8)
        /\ BitAt(s, 5, 9) = BitAt(b, 8, 9)
    BY <1>4, <2>1 DEF FiveBits, EightBits, LastBits
  <2> QED BY <2>2
<1>14. \A p \in 10 .. 14 : BitAt(s, 5, p) = BitAt(b, 8, p)
  <2>1. FiveBits(s, 2) /\ EightBits(b, 1)
    BY <1>11
  <2>2. /\ BitAt(s, 5, 10) = BitAt(b, 8, 10)
        /\ BitAt(s, 5, 11) = BitAt(b, 8, 11)
        /\ BitAt(s, 5, 12) = BitAt(b, 8, 12)
        /\ BitAt(s, 5, 13) = BitAt(b, 8, 13)
        /\ BitAt(s, 5, 14) = BitAt(b, 8, 14)
    BY <1>5, <2>1 DEF FiveBits, EightBits, LastBits
  <2> QED BY <2>2
<1>15. \A p \in 15 .. 19 : BitAt(s, 5, p) = BitAt(b, 8, p)
  <2>1. FiveBits(s, 3) /\ EightBits(b, 1) /\ EightBits(b, 2)
    BY <1>11
  <2>2. /\ BitAt(s, 5, 15) = BitAt(b, 8, 15)
        /\ BitAt(s, 5, 16) = BitAt(b, 8, 16)
        /\ BitAt(s, 5, 17) = BitAt(b, 8, 17)
        /\ BitAt(s, 5, 18) = BitAt(b, 8, 18)
        /\ BitAt(s, 5, 19) = BitAt(b, 8, 19)
    BY <1>6, <2>1 DEF FiveBits, EightBits, LastBits
  <2> QED BY <2>2
<1>16. \A p \in 20 .. 24 : BitAt(s, 5, p) = BitAt(b, 8, p)
  <2>1. FiveBits(s, 4) /\ EightBits(b, 2) /\ EightBits(b, 3)
    BY <1>11
  <2>2. /\ BitAt(s, 5, 20) = BitAt(b, 8, 20)
        /\ BitAt(s, 5, 21) = BitAt(b, 8, 21)
        /\ BitAt(s, 5, 22) = BitAt(b, 8, 22)
        /\ BitAt(s, 5, 23) = BitAt(b, 8, 23)
        /\ BitAt(s, 5, 24) = BitAt(b, 8, 24)
    BY <1>7, <2>1 DEF FiveBits, EightBits, LastBits
  <2> QED BY <2>2
<1>17. \A p \in 25 .. 29 : BitAt(s, 5, p) = BitAt(b, 8, p)
  <2>1. FiveBits(s, 5) /\ EightBits(b, 3)
    BY <1>11
  <2>2. /\ BitAt(s, 5, 25) = BitAt(b, 8, 25)
        /\ BitAt(s, 5, 26) = BitAt(b, 8, 26)
        /\ BitAt(s, 5, 27) = BitAt(b, 8, 27)
        /\ BitAt(s, 5, 28) = BitAt(b, 8, 28)
        /\ BitAt(s, 5, 29) = BitAt(b, 8, 29)
    BY <1>8, <2>1 DEF FiveBits, EightBits, LastBits
  <2> QED BY <2>2
<1>18. \A p \in 30 .. 34 : BitAt(s, 5, p) = BitAt(b, 8, p)
  <2>1. FiveBits(s, 6) /\ EightBits(b, 3) /\ EightBits(b, 4)
    BY <1>11
  <2>2. /\ BitAt(s, 5, 30) = BitAt(b, 8, 30)
        /\ BitAt(s, 5, 31) = BitAt(b, 8, 31)
        /\ BitAt(s, 5, 32) = BitAt(b, 8, 32)
        /\ BitAt(s, 5, 33) = BitAt(b, 8, 33)
        /\ BitAt(s, 5, 34) = BitAt(b, 8, 34)
    BY <1>9, <2>1 DEF FiveBits, EightBits, LastBits
  <2> QED BY <2>2
<1>19. \A p \in 35 .. 39 : BitAt(s, 5, p) = BitAt(b, 8, p)
  <2>1. FiveBits(s, 7) /\ EightBits(b, 4)
    BY <1>11
  <2>2. /\ BitAt(s, 5, 35) = BitAt(b, 8, 35)
        /\ BitAt(s, 5, 36) = BitAt(b, 8, 36)
        /\ BitAt(s, 5, 37) = BitAt(b, 8, 37)
        /\ BitAt(s, 5, 38) = BitAt(b, 8, 38)
        /\ BitAt(s, 5, 39) = BitAt(b, 8, 39)
    BY <1>10, <2>1 DEF FiveBits, EightBits, LastBits
  <2> QED BY <2>2
<1> QED BY <1>12, <1>13, <1>14, <1>15, <1>16, <1>17, <1>18, <1>19 DEF s

\* The twenty-six symbols of a ULID are its bits after two zero bits.
LEMMA UlidBits ==
  ASSUME NEW u \in Ulid
  PROVE  \A p \in 0 .. 129 : BitAt(Encode(u), 5, p) = IF p < 2 THEN 0 ELSE BitAt(u, 8, p - 2)
<1> DEFINE s == Encode(u)
<1>0. u \in Seq(Byte) /\ Len(u) = RAW_SIZE
  <2>1. RAW_SIZE \in Nat
    BY DEF RAW_SIZE
  <2> QED BY <2>1, FunctionIsSeq DEF Ulid
<1>1. /\ s[1] = EncodeByte(u[1])[1] /\ s[2] = EncodeByte(u[1])[2]
      /\ \A i \in 1 .. 8 : /\ s[2 + i] = EncodeGroup(SubSeq(u, 2, 6))[i]
                           /\ s[10 + i] = EncodeGroup(SubSeq(u, 7, 11))[i]
                           /\ s[18 + i] = EncodeGroup(SubSeq(u, 12, 16))[i]
  BY <1>0, EncodeParts
<1>2. \A i \in 1 .. 5 : /\ SubSeq(u, 2, 6)[i] = u[1 + i] /\ SubSeq(u, 2, 6)[i] \in Byte
                        /\ SubSeq(u, 7, 11)[i] = u[6 + i] /\ SubSeq(u, 7, 11)[i] \in Byte
                        /\ SubSeq(u, 12, 16)[i] = u[11 + i] /\ SubSeq(u, 12, 16)[i] \in Byte
  BY <1>0, Groups, Zenon
<1> HIDE DEF s
<1>3. \A p \in 0 .. 9 : BitAt(s, 5, p) = IF p < 2 THEN 0 ELSE BitAt(u, 8, p - 2)
  <2>1. u[1] \in 0 .. 255
    BY DEF Ulid, Byte, RAW_SIZE
  <2>2. s[1] = u[1] \div 32 /\ s[2] = u[1] % 32
    BY <1>1, <2>1, MaskedParts DEF EncodeByte, Byte
  <2>3. /\ LastBits(s[1], 0, 0, u[1] \div 128, u[1] \div 64, u[1] \div 32)
        /\ LastBits(s[2], u[1] \div 16, u[1] \div 8, u[1] \div 4, u[1] \div 2, u[1] \div 1)
    BY <2>1, <2>2 DEF LastBits
  <2>4. FiveBits(s, 0) /\ FiveBits(s, 1) /\ EightBits(u, 0)
    BY BitsOfParts
  <2>5. /\ BitAt(s, 5, 0) = 0 /\ BitAt(s, 5, 1) = 0
        /\ BitAt(s, 5, 2) = BitAt(u, 8, 0) /\ BitAt(s, 5, 3) = BitAt(u, 8, 1)
        /\ BitAt(s, 5, 4) = BitAt(u, 8, 2) /\ BitAt(s, 5, 5) = BitAt(u, 8, 3)
        /\ BitAt(s, 5, 6) = BitAt(u, 8, 4) /\ BitAt(s, 5, 7) = BitAt(u, 8, 5)
        /\ BitAt(s, 5, 8) = BitAt(u, 8, 6) /\ BitAt(s, 5, 9) = BitAt(u, 8, 7)
    BY <2>3, <2>4 DEF FiveBits, EightBits, LastBits
  <2> QED BY <2>5
<1>4. \A p \in 0 .. 39 : BitAt(s, 5, 10 + p) = BitAt(u, 8, 8 + p)
  <2>1. \A i \in 1 .. 8 : s[2 + i] = EncodeGroup(SubSeq(u, 2, 6))[i]
    BY <1>1
  <2>2. \A p \in 0 .. 39 : BitAt(EncodeGroup(SubSeq(u, 2, 6)), 5, p) = BitAt(SubSeq(u, 2, 6), 8, p)
    BY <1>2, GroupBits
  <2>3. ASSUME NEW p \in 0 .. 39
        PROVE  /\ BitAt(s, 5, 10 + p) = BitAt(EncodeGroup(SubSeq(u, 2, 6)), 5, p)
               /\ BitAt(u, 8, 8 + p) = BitAt(SubSeq(u, 2, 6), 8, p)
    <3>1. /\ 1 + ((10 + p) \div 5) = 2 + (1 + (p \div 5)) /\ (10 + p) % 5 = p % 5
          /\ 1 + ((8 + p) \div 8) = 1 + (1 + (p \div 8)) /\ (8 + p) % 8 = p % 8
          /\ 1 + (p \div 5) \in 1 .. 8 /\ 1 + (p \div 8) \in 1 .. 5
      OBVIOUS
    <3>2. s[1 + ((10 + p) \div 5)] = EncodeGroup(SubSeq(u, 2, 6))[1 + (p \div 5)]
      BY <2>1, <3>1
    <3>3. u[1 + ((8 + p) \div 8)] = SubSeq(u, 2, 6)[1 + (p \div 8)]
      BY <1>2, <3>1
    <3> QED BY <3>1, <3>2, <3>3, Zenon DEF BitAt
  <2> QED BY <2>2, <2>3
<1>5. \A p \in 0 .. 39 : BitAt(s, 5, 50 + p) = BitAt(u, 8, 48 + p)
  <2>1. \A i \in 1 .. 8 : s[10 + i] = EncodeGroup(SubSeq(u, 7, 11))[i]
    BY <1>1
  <2>2. \A p \in 0 .. 39 : BitAt(EncodeGroup(SubSeq(u, 7, 11)), 5, p) = BitAt(SubSeq(u, 7, 11), 8, p)
    BY <1>2, GroupBits
  <2>3. ASSUME NEW p \in 0 .. 39
        PROVE  /\ BitAt(s, 5, 50 + p) = BitAt(EncodeGroup(SubSeq(u, 7, 11)), 5, p)
               /\ BitAt(u, 8, 48 + p) = BitAt(SubSeq(u, 7, 11), 8, p)
    <3>1. /\ 1 + ((50 + p) \div 5) = 10 + (1 + (p \div 5)) /\ (50 + p) % 5 = p % 5
          /\ 1 + ((48 + p) \div 8) = 6 + (1 + (p \div 8)) /\ (48 + p) % 8 = p % 8
          /\ 1 + (p \div 5) \in 1 .. 8 /\ 1 + (p \div 8) \in 1 .. 5
      OBVIOUS
    <3>2. s[1 + ((50 + p) \div 5)] = EncodeGroup(SubSeq(u, 7, 11))[1 + (p \div 5)]
      BY <2>1, <3>1
    <3>3. u[1 + ((48 + p) \div 8)] = SubSeq(u, 7, 11)[1 + (p \div 8)]
      BY <1>2, <3>1
    <3> QED BY <3>1, <3>2, <3>3, Zenon DEF BitAt
  <2> QED BY <2>2, <2>3
<1>6. \A p \in 0 .. 39 : BitAt(s, 5, 90 + p) = BitAt(u, 8, 88 + p)
  <2>1. \A i \in 1 .. 8 : s[18 + i] = EncodeGroup(SubSeq(u, 12, 16))[i]
    BY <1>1
  <2>2. \A p \in 0 .. 39 : BitAt(EncodeGroup(SubSeq(u, 12, 16)), 5, p) = BitAt(SubSeq(u, 12, 16), 8, p)
    BY <1>2, GroupBits
  <2>3. ASSUME NEW p \in 0 .. 39
        PROVE  /\ BitAt(s, 5, 90 + p) = BitAt(EncodeGroup(SubSeq(u, 12, 16)), 5, p)
               /\ BitAt(u, 8, 88 + p) = BitAt(SubSeq(u, 12, 16), 8, p)
    <3>1. /\ 1 + ((90 + p) \div 5) = 18 + (1 + (p \div 5)) /\ (90 + p) % 5 = p % 5
          /\ 1 + ((88 + p) \div 8) = 11 + (1 + (p \div 8)) /\ (88 + p) % 8 = p % 8
          /\ 1 + (p \div 5) \in 1 .. 8 /\ 1 + (p \div 8) \in 1 .. 5
      OBVIOUS
    <3>2. s[1 + ((90 + p) \div 5)] = EncodeGroup(SubSeq(u, 12, 16))[1 + (p \div 5)]
      BY <2>1, <3>1
    <3>3. u[1 + ((88 + p) \div 8)] = SubSeq(u, 12, 16)[1 + (p \div 8)]
      BY <1>2, <3>1
    <3> QED BY <3>1, <3>2, <3>3, Zenon DEF BitAt
  <2> QED BY <2>2, <2>3
<1>7. ASSUME NEW p \in 0 .. 129 PROVE BitAt(s, 5, p) = IF p < 2 THEN 0 ELSE BitAt(u, 8, p - 2)
  <2>1. CASE p \in 0 .. 9
    BY <1>3, <2>1
  <2>2. CASE p \in 10 .. 49
    <3>1. p - 10 \in 0 .. 39 /\ 10 + (p - 10) = p /\ 8 + (p - 10) = p - 2 /\ ~(p < 2)
      BY <2>2
    <3> QED BY <1>4, <3>1, Zenon
  <2>3. CASE p \in 50 .. 89
    <3>1. p - 50 \in 0 .. 39 /\ 50 + (p - 50) = p /\ 48 + (p - 50) = p - 2 /\ ~(p < 2)
      BY <2>3
    <3> QED BY <1>5, <3>1, Zenon
  <2>4. CASE p \in 90 .. 129
    <3>1. p - 90 \in 0 .. 39 /\ 90 + (p - 90) = p /\ 88 + (p - 90) = p - 2 /\ ~(p < 2)
      BY <2>4
    <3> QED BY <1>6, <3>1, Zenon
  <2> QED BY <2>1, <2>2, <2>3, <2>4
<1> QED BY <1>7 DEF s

\* The table gives the symbols of a text back.
LEMMA SymbolsOfText ==
  ASSUME NEW u \in Ulid
  PROVE  Symbols(marshal_text(u)) = Encode(u)
<1> DEFINE s == Encode(u)  t == marshal_text(u)
<1>1. s \in [1 .. ENCODED_SIZE -> Symbol]
  BY DecodeEncode
<1>2. t = [i \in 1 .. ENCODED_SIZE |-> ENCODING[s[i]]]
  BY DEF marshal_text
<1> HIDE DEF s, t
<1>3. \A i \in 1 .. ENCODED_SIZE : s[i] \in Symbol /\ t[i] = ENCODING[s[i]] /\ t[i] \in Byte
  BY <1>1, <1>2, CodesDiffer
<1>4. Len(t) = ENCODED_SIZE
  <2>1. t \in [1 .. ENCODED_SIZE -> Byte] /\ ENCODED_SIZE \in Nat
    BY <1>2, <1>3 DEF ENCODED_SIZE
  <2> QED BY <2>1, FunctionIsSeq
<1>5. \A i \in 1 .. ENCODED_SIZE : DEC[t[i]] = s[i]
  <2>1. \A i \in 1 .. ENCODED_SIZE : t[i] \in Codes(s[i])
    <3>1. \A v \in Symbol : ENCODING[v] \in Codes(v)
      BY CodesDiffer
    <3> QED BY <1>3, <3>1, Zenon
  <2>2. \A v \in Symbol : \A c \in Codes(v) : DEC[c] = v
    BY DecFinds
  <2> QED BY <1>3, <2>1, <2>2, Zenon
<1>6. Symbols(t) = [i \in 1 .. ENCODED_SIZE |-> s[i]]
  BY <1>4, <1>5, Zenon DEF Symbols
<1>7. s = [i \in 1 .. ENCODED_SIZE |-> s[i]]
  BY <1>1
<1> QED BY <1>6, <1>7, Zenon DEF s, t

\* The text of any ULID the receiver can hold is its 128 bits, five to a
\* character, after two zero bits: the twenty-six mask-and-shift expressions of
\* marshal_text_to lose, double and move none of them.
THEOREM TextIsTheBits == Spec => []TextIsBits
<1>1. ASSUME TextInv PROVE TextIsBits
  <2>1. id \in Ulid
    BY <1>1 DEF TextInv, TypeOK, Ulid
  <2>2. 5 * ENCODED_SIZE - 1 = 129
    BY DEF ENCODED_SIZE
  <2>3. \A p \in 0 .. 5 * ENCODED_SIZE - 1 :
          BitAt(Encode(id), 5, p) = IF p < 2 THEN 0 ELSE BitAt(id, 8, p - 2)
    BY <2>1, <2>2, UlidBits
  <2>4. Symbols(marshal_text(id)) = Encode(id)
    BY <2>1, SymbolsOfText
  <2> QED BY <2>3, <2>4, Zenon DEF TextIsBits
<1> QED BY <1>1, TextInvariance, PTL

\* A text over the alphabet that was accepted is, up to case, the text of the
\* ULID it gave.
THEOREM AcceptedTextIsCanonical == Spec => []AcceptedIsCanonical
<1>1. ASSUME TextInv PROVE AcceptedIsCanonical
  <2> SUFFICES ASSUME text # <<>>, ValidText(text)
               PROVE  LowerCase(marshal_text(id)) = LowerCase(text)
    BY DEF AcceptedIsCanonical
  <2>1. /\ text \in Seq(Byte) /\ Len(text) = ENCODED_SIZE
        /\ text[1] <= Seven /\ id = parse_bytes(text)
    BY <1>1 DEF TextInv
  <2> DEFINE s == Encode(id)  m == marshal_text(id)
  <2>2. \A i \in 1 .. ENCODED_SIZE : s[i] \in Symbol /\ text[i] \in Codes(s[i])
    BY <2>1, UlidOfText
  <2>3. m = [i \in 1 .. ENCODED_SIZE |-> ENCODING[s[i]]]
    BY DEF marshal_text
  <2> HIDE DEF s, m
  <2>4. \A i \in 1 .. ENCODED_SIZE : m[i] = ENCODING[s[i]] /\ Lower(m[i]) = Lower(text[i])
    BY <2>2, <2>3, CodesAre
  <2>5. LowerCase(text) = [i \in 1 .. ENCODED_SIZE |-> Lower(text[i])]
    BY <2>1, Zenon DEF LowerCase, Lower
  <2>6. LowerCase(m) = [i \in 1 .. ENCODED_SIZE |-> Lower(m[i])]
    <3>1. ENCODED_SIZE \in Nat
      BY DEF ENCODED_SIZE
    <3>2. m \in [1 .. ENCODED_SIZE -> Byte]
      BY <2>2, <2>3, CodesDiffer
    <3>3. Len(m) = ENCODED_SIZE
      BY <3>1, <3>2, FunctionIsSeq
    <3> QED BY <3>3, Zenon DEF LowerCase, Lower
  <2>7. LowerCase(m) = LowerCase(text)
    BY <2>4, <2>5, <2>6, Zenon
  <2> QED BY <2>7 DEF m
<1> QED BY <1>1, TextInvariance, PTL

-----------------------------------------------------------------------------
(* The order of texts.                                                     *)

\* a is lexicographically below b, as numbers at positions 1 .. n.
LexBelow(n, a, b) ==
  \E i \in 1 .. n : a[i] < b[i] /\ \A j \in 1 .. i - 1 : a[j] = b[j]

\* The same for two and for three positions that follow each other.
Below2(a1, b1, a2, b2) == a1 < b1 \/ (a1 = b1 /\ a2 < b2)

Below3(a1, b1, a2, b2, a3, b3) == a1 < b1 \/ (a1 = b1 /\ Below2(a2, b2, a3, b3))

\* The parts that two bytes are cut into, the first of them after the same bits
\* of the byte before and the last before any bits of the next byte.
Cut8(x, y, p, q) ==
  Below2(x \div 8, y \div 8, (x % 8) * 4 + p, (y % 8) * 4 + q)

Cut64(x, y, h, p, q) ==
  Below3(h + (x \div 64), h + (y \div 64), (x % 64) \div 2, (y % 64) \div 2,
         (x % 2) * 16 + p, (y % 2) * 16 + q)

Cut16(x, y, h, p, q) ==
  Below2(h + (x \div 16), h + (y \div 16), (x % 16) * 2 + p, (y % 16) * 2 + q)

Cut128(x, y, h, p, q) ==
  Below3(h + (x \div 128), h + (y \div 128), (x % 128) \div 4, (y % 128) \div 4,
         (x % 4) * 8 + p, (y % 4) * 8 + q)

Cut32(x, y, h) ==
  Below2(h + (x \div 32), h + (y \div 32), x % 32, y % 32)

\* The parts are ordered as the bytes are.
LEMMA CutOrder ==
  ASSUME NEW x \in Byte, NEW y \in Byte, x < y, NEW h \in Nat
  PROVE  /\ \A p, q \in 0 .. 3 : Cut8(x, y, p, q)
         /\ \A p, q \in 0 .. 15 : Cut64(x, y, h, p, q)
         /\ \A p, q \in 0 .. 1 : Cut16(x, y, h, p, q)
         /\ \A p, q \in 0 .. 7 : Cut128(x, y, h, p, q)
         /\ Cut32(x, y, h)
<1>0. x \in 0 .. 255 /\ y \in 0 .. 255
  BY DEF Byte
<1>1. ASSUME NEW p \in 0 .. 3, NEW q \in 0 .. 3 PROVE Cut8(x, y, p, q)
  BY <1>0 DEF Cut8, Below2
<1>2. ASSUME NEW p \in 0 .. 15, NEW q \in 0 .. 15 PROVE Cut64(x, y, h, p, q)
  BY <1>0 DEF Cut64, Below3, Below2
<1>3. ASSUME NEW p \in 0 .. 1, NEW q \in 0 .. 1 PROVE Cut16(x, y, h, p, q)
  BY <1>0 DEF Cut16, Below2
<1>4. ASSUME NEW p \in 0 .. 7, NEW q \in 0 .. 7 PROVE Cut128(x, y, h, p, q)
  BY <1>0 DEF Cut128, Below3, Below2
<1>5. Cut32(x, y, h)
  BY <1>0 DEF Cut32, Below2
<1> QED BY <1>1, <1>2, <1>3, <1>4, <1>5, Zenon

\* Five smaller bytes give eight smaller symbols.
LEMMA GroupOrder ==
  ASSUME NEW b, NEW c, \A i \in 1 .. 5 : b[i] \in Byte, \A i \in 1 .. 5 : c[i] \in Byte,
         LexBelow(5, b, c)
  PROVE  LexBelow(8, EncodeGroup(b), EncodeGroup(c))
<1> DEFINE s == EncodeGroup(b)  r == EncodeGroup(c)
<1>1. b[1] \in 0 .. 255 /\ b[2] \in 0 .. 255 /\ b[3] \in 0 .. 255 /\ b[4] \in 0 .. 255 /\ b[5] \in 0 .. 255
  <2>1. b[1] \in Byte /\ b[2] \in Byte /\ b[3] \in Byte /\ b[4] \in Byte /\ b[5] \in Byte
    OBVIOUS
  <2> QED BY <2>1, Zenon DEF Byte
<1>2. c[1] \in 0 .. 255 /\ c[2] \in 0 .. 255 /\ c[3] \in 0 .. 255 /\ c[4] \in 0 .. 255 /\ c[5] \in 0 .. 255
  <2>1. c[1] \in Byte /\ c[2] \in Byte /\ c[3] \in Byte /\ c[4] \in Byte /\ c[5] \in Byte
    OBVIOUS
  <2> QED BY <2>1, Zenon DEF Byte
<1>3. /\ s[1] = b[1] \div 8 /\ s[2] = (b[1] % 8) * 4 + (b[2] \div 64)
      /\ s[3] = (b[2] % 64) \div 2 /\ s[4] = (b[2] % 2) * 16 + (b[3] \div 16)
      /\ s[5] = (b[3] % 16) * 2 + (b[4] \div 128) /\ s[6] = (b[4] % 128) \div 4
      /\ s[7] = (b[4] % 4) * 8 + (b[5] \div 32) /\ s[8] = b[5] % 32
  BY EncodeGroupIs
<1>4. /\ r[1] = c[1] \div 8 /\ r[2] = (c[1] % 8) * 4 + (c[2] \div 64)
      /\ r[3] = (c[2] % 64) \div 2 /\ r[4] = (c[2] % 2) * 16 + (c[3] \div 16)
      /\ r[5] = (c[3] % 16) * 2 + (c[4] \div 128) /\ r[6] = (c[4] % 128) \div 4
      /\ r[7] = (c[4] % 4) * 8 + (c[5] \div 32) /\ r[8] = c[5] % 32
  BY EncodeGroupIs
<1> HIDE DEF s, r
<1> SUFFICES LexBelow(8, s, r)
  BY DEF s, r
<1>5. PICK k \in 1 .. 5 : b[k] < c[k] /\ \A j \in 1 .. k - 1 : b[j] = c[j]
  BY DEF LexBelow
<1>6. CASE k = 1
  <2>1. b[1] < c[1]
    BY <1>5, <1>6
  <2>3. Below2(s[1], r[1], s[2], r[2])
    <3>1. b[2] \div 64 \in 0 .. 3 /\ c[2] \div 64 \in 0 .. 3
      <4>1. b[2] \in 0 .. 255 /\ c[2] \in 0 .. 255
        BY <1>1, <1>2, Zenon
      <4> QED BY <4>1
    <3>2. Below2(b[1] \div 8, c[1] \div 8,
                 (b[1] % 8) * 4 + (b[2] \div 64), (c[1] % 8) * 4 + (c[2] \div 64))
      <4>1. b[1] \in Byte /\ c[1] \in Byte /\ b[1] < c[1]
        BY <2>1
      <4>2. Cut8(b[1], c[1], b[2] \div 64, c[2] \div 64)
        BY <3>1, <4>1, CutOrder, Zenon
      <4> QED BY <4>2, Zenon DEF Cut8
    <3> QED BY <1>3, <1>4, <2>1, <3>2
  <2> QED BY <2>3 DEF LexBelow, Below2
<1>7. CASE k = 2
  <2>1. b[1] = c[1] /\ b[2] < c[2]
    BY <1>5, <1>7
  <2>2. s[1] = r[1]
    BY <1>3, <1>4, <2>1
  <2>3. Below3(s[2], r[2], s[3], r[3], s[4], r[4])
    <3>1. (b[1] % 8) * 4 \in Nat /\ b[3] \div 16 \in 0 .. 15 /\ c[3] \div 16 \in 0 .. 15
      <4>1. b[1] \in 0 .. 255 /\ b[3] \in 0 .. 255 /\ c[3] \in 0 .. 255
        BY <1>1, <1>2, Zenon
      <4> QED BY <4>1
    <3>2. Below3((b[1] % 8) * 4 + (b[2] \div 64), (b[1] % 8) * 4 + (c[2] \div 64),
                 (b[2] % 64) \div 2, (c[2] % 64) \div 2,
                 (b[2] % 2) * 16 + (b[3] \div 16), (c[2] % 2) * 16 + (c[3] \div 16))
      <4>1. b[2] \in Byte /\ c[2] \in Byte /\ b[2] < c[2]
        BY <2>1
      <4>2. Cut64(b[2], c[2], (b[1] % 8) * 4, b[3] \div 16, c[3] \div 16)
        BY <3>1, <4>1, CutOrder, Zenon
      <4> QED BY <4>2, Zenon DEF Cut64
    <3> QED BY <1>3, <1>4, <2>1, <3>2
  <2> QED BY <2>2, <2>3 DEF LexBelow, Below2, Below3
<1>8. CASE k = 3
  <2>1. b[1] = c[1] /\ b[2] = c[2] /\ b[3] < c[3]
    BY <1>5, <1>8
  <2>2. s[1] = r[1] /\ s[2] = r[2] /\ s[3] = r[3]
    BY <1>3, <1>4, <2>1
  <2>3. Below2(s[4], r[4], s[5], r[5])
    <3>1. (b[2] % 2) * 16 \in Nat /\ b[4] \div 128 \in 0 .. 1 /\ c[4] \div 128 \in 0 .. 1
      <4>1. b[2] \in 0 .. 255 /\ b[4] \in 0 .. 255 /\ c[4] \in 0 .. 255
        BY <1>1, <1>2, Zenon
      <4> QED BY <4>1
    <3>2. Below2((b[2] % 2) * 16 + (b[3] \div 16), (b[2] % 2) * 16 + (c[3] \div 16),
                 (b[3] % 16) * 2 + (b[4] \div 128), (c[3] % 16) * 2 + (c[4] \div 128))
      <4>1. b[3] \in Byte /\ c[3] \in Byte /\ b[3] < c[3]
        BY <2>1
      <4>2. Cut16(b[3], c[3], (b[2] % 2) * 16, b[4] \div 128, c[4] \div 128)
        BY <3>1, <4>1, CutOrder, Zenon
      <4> QED BY <4>2, Zenon DEF Cut16
    <3> QED BY <1>3, <1>4, <2>1, <3>2
  <2> QED BY <2>2, <2>3 DEF LexBelow, Below2
<1>9. CASE k = 4
  <2>1. b[1] = c[1] /\ b[2] = c[2] /\ b[3] = c[3] /\ b[4] < c[4]
    BY <1>5, <1>9
  <2>2. s[1] = r[1] /\ s[2] = r[2] /\ s[3] = r[3] /\ s[4] = r[4]
    BY <1>3, <1>4, <2>1
  <2>3. Below3(s[5], r[5], s[6], r[6], s[7], r[7])
    <3>1. (b[3] % 16) * 2 \in Nat /\ b[5] \div 32 \in 0 .. 7 /\ c[5] \div 32 \in 0 .. 7
      <4>1. b[3] \in 0 .. 255 /\ b[5] \in 0 .. 255 /\ c[5] \in 0 .. 255
        BY <1>1, <1>2, Zenon
      <4> QED BY <4>1
    <3>2. Below3((b[3] % 16) * 2 + (b[4] \div 128), (b[3] % 16) * 2 + (c[4] \div 128),
                 (b[4] % 128) \div 4, (c[4] % 128) \div 4,
                 (b[4] % 4) * 8 + (b[5] \div 32), (c[4] % 4) * 8 + (c[5] \div 32))
      <4>1. b[4] \in Byte /\ c[4] \in Byte /\ b[4] < c[4]
        BY <2>1
      <4>2. Cut128(b[4], c[4], (b[3] % 16) * 2, b[5] \div 32, c[5] \div 32)
        BY <3>1, <4>1, CutOrder, Zenon
      <4> QED BY <4>2, Zenon DEF Cut128
    <3> QED BY <1>3, <1>4, <2>1, <3>2
  <2> QED BY <2>2, <2>3 DEF LexBelow, Below2, Below3
<1>10. CASE k = 5
  <2>1. b[1] = c[1] /\ b[2] = c[2] /\ b[3] = c[3] /\ b[4] = c[4] /\ b[5] < c[5]
    BY <1>5, <1>10
  <2>2. s[1] = r[1] /\ s[2] = r[2] /\ s[3] = r[3] /\ s[4] = r[4] /\ s[5] = r[5] /\ s[6] = r[6]
    BY <1>3, <1>4, <2>1
  <2>3. Below2(s[7], r[7], s[8], r[8])
    <3>1. (b[4] % 4) * 8 \in Nat
      <4>1. b[4] \in 0 .. 255
        BY <1>1, <1>2, Zenon
      <4> QED BY <4>1
    <3>2. Below2((b[4] % 4) * 8 + (b[5] \div 32), (b[4] % 4) * 8 + (c[5] \div 32),
                 b[5] % 32, c[5] % 32)
      <4>1. b[5] \in Byte /\ c[5] \in Byte /\ b[5] < c[5]
        BY <2>1
      <4>2. Cut32(b[5], c[5], (b[4] % 4) * 8)
        BY <3>1, <4>1, CutOrder, Zenon
      <4> QED BY <4>2, Zenon DEF Cut32
    <3> QED BY <1>3, <1>4, <2>1, <3>2
  <2> QED BY <2>2, <2>3 DEF LexBelow, Below2
<1> QED BY <1>5, <1>6, <1>7, <1>8, <1>9, <1>10

\* A smaller first byte gives smaller first symbols.
LEMMA ByteOrder ==
  ASSUME NEW x \in Byte, NEW y \in Byte, x < y
  PROVE  \/ EncodeByte(x)[1] < EncodeByte(y)[1]
         \/ EncodeByte(x)[1] = EncodeByte(y)[1] /\ EncodeByte(x)[2] < EncodeByte(y)[2]
<1>1. /\ EncodeByte(x)[1] = x \div 32 /\ EncodeByte(x)[2] = x % 32
      /\ EncodeByte(y)[1] = y \div 32 /\ EncodeByte(y)[2] = y % 32
  BY MaskedParts DEF EncodeByte
<1>2. x \in 0 .. 255 /\ y \in 0 .. 255
  BY DEF Byte
<1> QED BY <1>1, <1>2

\* g is the part of a at the positions after off.
PartAt(off, len, a, g) == \A i \in 1 .. len : a[off + i] = g[i]

\* A difference in a part is one of the whole ...
LEMMA PartToWhole ==
  ASSUME NEW n \in Nat, NEW off \in Nat, NEW len \in Nat, off + len <= n,
         NEW a, NEW b, NEW g, NEW h, Agree(1 .. off, a, b),
         PartAt(off, len, a, g), PartAt(off, len, b, h), LexBelow(len, g, h)
  PROVE  LexBelow(n, a, b)
<1>1. PICK i \in 1 .. len : g[i] < h[i] /\ \A j \in 1 .. i - 1 : g[j] = h[j]
  BY DEF LexBelow
<1>2. off + i \in 1 .. n /\ a[off + i] < b[off + i]
  BY <1>1 DEF PartAt
<1>3. ASSUME NEW j \in 1 .. off + i - 1 PROVE a[j] = b[j]
  <2>1. CASE j \in 1 .. off
    BY <2>1 DEF Agree
  <2>2. CASE j - off \in 1 .. i - 1
    <3>1. PICK m \in 1 .. i - 1 : j = off + m
      BY <2>2
    <3>2. m \in 1 .. len
      OBVIOUS
    <3> QED BY <1>1, <3>1, <3>2 DEF PartAt
  <2> QED BY <2>1, <2>2
<1> QED BY <1>2, <1>3 DEF LexBelow

\* ... and one of the whole that is in the part is one of the part.
LEMMA WholeToPart ==
  ASSUME NEW off \in Nat, NEW len \in Nat, NEW a, NEW b, NEW g, NEW h,
         PartAt(off, len, a, g), PartAt(off, len, b, h),
         NEW i \in 1 .. len, a[off + i] < b[off + i], Agree(1 .. off + i - 1, a, b)
  PROVE  LexBelow(len, g, h)
<1>1. g[i] < h[i]
  BY DEF PartAt
<1>2. ASSUME NEW j \in 1 .. i - 1 PROVE g[j] = h[j]
  <2>1. j \in 1 .. len /\ off + j \in 1 .. off + i - 1
    OBVIOUS
  <2>2. a[off + j] = b[off + j]
    BY <2>1 DEF Agree
  <2> QED BY <2>1, <2>2 DEF PartAt
<1> QED BY <1>1, <1>2 DEF LexBelow

\* A smaller ULID has smaller symbols.
LEMMA EncodeOrder ==
  ASSUME NEW u \in Ulid, NEW w \in Ulid, LexBelow(RAW_SIZE, u, w)
  PROVE  LexBelow(ENCODED_SIZE, Encode(u), Encode(w))
<1>1. ASSUME NEW f \in Ulid
      PROVE  /\ f[1] \in Byte
             /\ Encode(f)[1] = EncodeByte(f[1])[1] /\ Encode(f)[2] = EncodeByte(f[1])[2]
             /\ \A i \in 1 .. 5 : /\ SubSeq(f, 2, 6)[i] = f[1 + i] /\ f[1 + i] \in Byte
                                  /\ SubSeq(f, 7, 11)[i] = f[6 + i] /\ f[6 + i] \in Byte
                                  /\ SubSeq(f, 12, 16)[i] = f[11 + i] /\ f[11 + i] \in Byte
             /\ \A i \in 1 .. 8 : /\ Encode(f)[2 + i] = EncodeGroup(SubSeq(f, 2, 6))[i]
                                  /\ Encode(f)[10 + i] = EncodeGroup(SubSeq(f, 7, 11))[i]
                                  /\ Encode(f)[18 + i] = EncodeGroup(SubSeq(f, 12, 16))[i]
  <2>1. RAW_SIZE \in Nat /\ 1 \in 1 .. RAW_SIZE
    BY DEF RAW_SIZE
  <2>2. f \in Seq(Byte) /\ Len(f) = RAW_SIZE /\ f[1] \in Byte
    BY <2>1, FunctionIsSeq DEF Ulid
  <2> QED BY <2>2, EncodeParts, Groups, Zenon
<1> DEFINE s == Encode(u)
           r == Encode(w)
<1> HIDE DEF s, r
<1>2. PICK k \in 1 .. RAW_SIZE : u[k] < w[k] /\ \A j \in 1 .. k - 1 : u[j] = w[j]
  BY DEF LexBelow
<1>3. ASSUME k # 1 PROVE s[1] = r[1] /\ s[2] = r[2]
  <2>1. u[1] = w[1]
    BY <1>2, <1>3 DEF RAW_SIZE
  <2>2. /\ s[1] = EncodeByte(u[1])[1] /\ s[2] = EncodeByte(u[1])[2]
        /\ r[1] = EncodeByte(w[1])[1] /\ r[2] = EncodeByte(w[1])[2]
    BY <1>1, Zenon DEF s, r
  <2> QED BY <2>1, <2>2
<1>4. ASSUME NEW off \in Nat, off + 8 <= ENCODED_SIZE, \A j \in 1 .. off : s[j] = r[j],
             NEW b, NEW c, \A i \in 1 .. 5 : b[i] \in Byte, \A i \in 1 .. 5 : c[i] \in Byte,
             \A i \in 1 .. 8 : s[off + i] = EncodeGroup(b)[i] /\ r[off + i] = EncodeGroup(c)[i],
             LexBelow(5, b, c)
      PROVE  LexBelow(ENCODED_SIZE, s, r)
  <2>1. LexBelow(8, EncodeGroup(b), EncodeGroup(c))
    BY <1>4, GroupOrder
  <2>2. 8 \in Nat /\ ENCODED_SIZE \in Nat
    BY DEF ENCODED_SIZE
  <2>3. /\ Agree(1 .. off, s, r)
        /\ PartAt(off, 8, s, EncodeGroup(b)) /\ PartAt(off, 8, r, EncodeGroup(c))
    BY <1>4, Zenon DEF Agree, PartAt
  <2> QED BY <1>4, <2>1, <2>2, <2>3, PartToWhole
<1>5. ASSUME NEW off \in Nat, NEW i \in 1 .. 5, k = off + i, NEW b, NEW c,
             \A m \in 1 .. 5 : u[off + m] = b[m] /\ w[off + m] = c[m]
      PROVE  LexBelow(5, b, c)
  <2>1. PartAt(off, 5, u, b) /\ PartAt(off, 5, w, c)
    BY <1>5, Zenon DEF PartAt
  <2>2. u[off + i] < w[off + i] /\ Agree(1 .. off + i - 1, u, w)
    BY <1>2, <1>5 DEF Agree
  <2>3. 5 \in Nat
    OBVIOUS
  <2> QED BY <2>1, <2>2, <2>3, WholeToPart
<1>6. ASSUME k = 1 PROVE LexBelow(ENCODED_SIZE, s, r)
  <2>1. \/ s[1] < r[1]
        \/ s[1] = r[1] /\ s[2] < r[2]
    BY <1>1, <1>2, <1>6, ByteOrder DEF s, r
  <2> QED BY <2>1 DEF LexBelow, ENCODED_SIZE
<1>7. ASSUME NEW i \in 1 .. 5, k = 1 + i PROVE LexBelow(ENCODED_SIZE, s, r)
  <2>1. LexBelow(5, SubSeq(u, 2, 6), SubSeq(w, 2, 6))
    <3>1. \A m \in 1 .. 5 : u[1 + m] = SubSeq(u, 2, 6)[m] /\ w[1 + m] = SubSeq(w, 2, 6)[m]
      BY <1>1, Zenon
    <3>2. 1 \in Nat
      OBVIOUS
    <3> QED BY <1>5, <1>7, <3>1, <3>2
  <2>2. \A j \in 1 .. 2 : s[j] = r[j]
    <3>1. k # 1
      BY <1>7
    <3> QED BY <1>3, <3>1
  <2>3. \A m \in 1 .. 8 : /\ s[2 + m] = EncodeGroup(SubSeq(u, 2, 6))[m]
                          /\ r[2 + m] = EncodeGroup(SubSeq(w, 2, 6))[m]
    BY <1>1, Zenon DEF s, r
  <2>4. \A m \in 1 .. 5 : SubSeq(u, 2, 6)[m] \in Byte /\ SubSeq(w, 2, 6)[m] \in Byte
    BY <1>1
  <2>5. 2 \in Nat /\ 2 + 8 <= ENCODED_SIZE
    BY DEF ENCODED_SIZE
  <2> QED BY <1>4, <2>1, <2>2, <2>3, <2>4, <2>5
<1>8. ASSUME k > 6 PROVE \A j \in 1 .. 10 : s[j] = r[j]
  <2>1. s[1] = r[1] /\ s[2] = r[2]
    BY <1>3, <1>8
  <2>2. \A m \in 1 .. 5 : SubSeq(u, 2, 6)[m] = SubSeq(w, 2, 6)[m]
    <3>1. \A m \in 1 .. 5 : u[1 + m] = w[1 + m]
      BY <1>2, <1>8
    <3> QED BY <1>1, <3>1
  <2>3. EncodeGroup(SubSeq(u, 2, 6)) = EncodeGroup(SubSeq(w, 2, 6))
    BY <2>2, GroupsByPosition, Zenon
  <2>4. \A m \in 1 .. 8 : s[2 + m] = r[2 + m]
    BY <1>1, <2>3 DEF s, r
  <2>5. ASSUME NEW j \in 1 .. 10 PROVE j = 1 \/ j = 2 \/ \E m \in 1 .. 8 : j = 2 + m
    <3>1. j = 1 \/ j = 2 \/ j - 2 \in 1 .. 8
      OBVIOUS
    <3> QED BY <3>1
  <2> QED BY <2>1, <2>4, <2>5, Zenon
<1>9. ASSUME k > 11 PROVE \A j \in 1 .. 18 : s[j] = r[j]
  <2>1. \A j \in 1 .. 10 : s[j] = r[j]
    BY <1>8, <1>9
  <2>2. \A m \in 1 .. 5 : SubSeq(u, 7, 11)[m] = SubSeq(w, 7, 11)[m]
    <3>1. \A m \in 1 .. 5 : u[6 + m] = w[6 + m]
      BY <1>2, <1>9
    <3> QED BY <1>1, <3>1
  <2>3. EncodeGroup(SubSeq(u, 7, 11)) = EncodeGroup(SubSeq(w, 7, 11))
    BY <2>2, GroupsByPosition, Zenon
  <2>4. \A m \in 1 .. 8 : s[10 + m] = r[10 + m]
    BY <1>1, <2>3 DEF s, r
  <2>5. ASSUME NEW j \in 1 .. 18 PROVE j \in 1 .. 10 \/ \E m \in 1 .. 8 : j = 10 + m
    <3>1. j \in 1 .. 10 \/ j - 10 \in 1 .. 8
      OBVIOUS
    <3> QED BY <3>1
  <2> QED BY <2>1, <2>4, <2>5, Zenon
<1>10. ASSUME NEW i \in 1 .. 5, k = 6 + i PROVE LexBelow(ENCODED_SIZE, s, r)
  <2>1. LexBelow(5, SubSeq(u, 7, 11), SubSeq(w, 7, 11))
    <3>1. \A m \in 1 .. 5 : u[6 + m] = SubSeq(u, 7, 11)[m] /\ w[6 + m] = SubSeq(w, 7, 11)[m]
      BY <1>1, Zenon
    <3>2. 6 \in Nat
      OBVIOUS
    <3> QED BY <1>5, <1>10, <3>1, <3>2
  <2>2. \A j \in 1 .. 10 : s[j] = r[j]
    BY <1>8, <1>10
  <2>3. \A m \in 1 .. 8 : /\ s[10 + m] = EncodeGroup(SubSeq(u, 7, 11))[m]
                          /\ r[10 + m] = EncodeGroup(SubSeq(w, 7, 11))[m]
    BY <1>1, Zenon DEF s, r
  <2>4. \A m \in 1 .. 5 : SubSeq(u, 7, 11)[m] \in Byte /\ SubSeq(w, 7, 11)[m] \in Byte
    BY <1>1
  <2>5. 10 \in Nat /\ 10 + 8 <= ENCODED_SIZE
    BY DEF ENCODED_SIZE
  <2> QED BY <1>4, <2>1, <2>2, <2>3, <2>4, <2>5
<1>11. ASSUME NEW i \in 1 .. 5, k = 11 + i PROVE LexBelow(ENCODED_SIZE, s, r)
  <2>1. LexBelow(5, SubSeq(u, 12, 16), SubSeq(w, 12, 16))
    <3>1. \A m \in 1 .. 5 : u[11 + m] = SubSeq(u, 12, 16)[m] /\ w[11 + m] = SubSeq(w, 12, 16)[m]
      BY <1>1, Zenon
    <3>2. 11 \in Nat
      OBVIOUS
    <3> QED BY <1>5, <1>11, <3>1, <3>2
  <2>2. \A j \in 1 .. 18 : s[j] = r[j]
    BY <1>9, <1>11
  <2>3. \A m \in 1 .. 8 : /\ s[18 + m] = EncodeGroup(SubSeq(u, 12, 16))[m]
                          /\ r[18 + m] = EncodeGroup(SubSeq(w, 12, 16))[m]
    BY <1>1, Zenon DEF s, r
  <2>4. \A m \in 1 .. 5 : SubSeq(u, 12, 16)[m] \in Byte /\ SubSeq(w, 12, 16)[m] \in Byte
    BY <1>1
  <2>5. 18 \in Nat /\ 18 + 8 <= ENCODED_SIZE
    BY DEF ENCODED_SIZE
  <2> QED BY <1>4, <2>1, <2>2, <2>3, <2>4, <2>5
<1>12. LexBelow(ENCODED_SIZE, s, r)
  BY <1>6, <1>7, <1>10, <1>11, Positions, Zenon
<1> QED BY <1>12 DEF s, r

\* The alphabet is in the order of the symbols.
LEMMA EncodingOrder ==
  ASSUME NEW v \in Symbol, NEW w \in Symbol
  PROVE  v < w => ENCODING[v] < ENCODING[w]
<1>1. v \in 0 .. 31 /\ w \in 0 .. 31
  BY DEF Symbol
<1>2. ASSUME NEW x \in 0 .. 31
      PROVE  ENCODING[x] = IF x < 10 THEN 48 + x
                           ELSE 55 + x + (IF x >= 18 THEN 1 ELSE 0) + (IF x >= 20 THEN 1 ELSE 0)
                                + (IF x >= 22 THEN 1 ELSE 0) + (IF x >= 27 THEN 1 ELSE 0)
  <2>1. ENCODING[x] = IF x < 10 THEN 48 + x ELSE Letters[x - 9]
    BY DEF ENCODING, Symbol
  <2>2. CASE x < 10
    BY <2>1, <2>2
  <2>3. CASE x >= 10
    <3>1. x - 9 \in 1 .. 22
      BY <2>3
    <3> QED BY <2>1, <2>3, <3>1, LettersAre
  <2> QED BY <2>2, <2>3
<1>3. v < w => ENCODING[v] < ENCODING[w]
  BY <1>1, <1>2
<1> QED BY <1>3

\* A smaller ULID has a smaller text.
LEMMA SmallerText ==
  ASSUME NEW u \in Ulid, NEW w \in Ulid, LexBelow(RAW_SIZE, u, w)
  PROVE  LexBelow(ENCODED_SIZE, marshal_text(u), marshal_text(w))
<1>1. \A i \in 1 .. ENCODED_SIZE : Encode(u)[i] \in Symbol /\ Encode(w)[i] \in Symbol
  BY DecodeEncode
<1>2. PICK i \in 1 .. ENCODED_SIZE : /\ Encode(u)[i] < Encode(w)[i]
                                     /\ \A j \in 1 .. i - 1 : Encode(u)[j] = Encode(w)[j]
  BY EncodeOrder DEF LexBelow
<1>3. \A j \in 1 .. ENCODED_SIZE : /\ marshal_text(u)[j] = ENCODING[Encode(u)[j]]
                                   /\ marshal_text(w)[j] = ENCODING[Encode(w)[j]]
  BY DEF marshal_text
<1>4. marshal_text(u)[i] < marshal_text(w)[i]
  BY <1>1, <1>2, <1>3, EncodingOrder
<1>5. ASSUME NEW j \in 1 .. i - 1 PROVE marshal_text(u)[j] = marshal_text(w)[j]
  <2>1. j \in 1 .. ENCODED_SIZE
    BY DEF ENCODED_SIZE
  <2> QED BY <1>2, <1>3, <2>1
<1> QED BY <1>4, <1>5, Zenon DEF LexBelow

\* The order has no two-cycles and no loops.
LEMMA BelowIsStrict ==
  ASSUME NEW n \in Nat, NEW a, NEW b,
         \A i \in 1 .. n : a[i] \in Int /\ b[i] \in Int, LexBelow(n, a, b)
  PROVE  a # b /\ ~LexBelow(n, b, a)
<1>1. PICK i \in 1 .. n : a[i] < b[i] /\ \A j \in 1 .. i - 1 : a[j] = b[j]
  BY DEF LexBelow
<1>2. a # b
  BY <1>1
<1>3. ASSUME NEW k \in 1 .. n, b[k] < a[k], \A j \in 1 .. k - 1 : b[j] = a[j] PROVE FALSE
  <2>1. k < i \/ i < k \/ k = i
    OBVIOUS
  <2>2. a[i] \in Int /\ b[i] \in Int /\ a[k] \in Int /\ b[k] \in Int
    OBVIOUS
  <2>3. CASE k < i
    <3>1. a[k] = b[k]
      BY <1>1, <2>3
    <3> QED BY <1>3, <2>2, <3>1
  <2>4. CASE i < k
    <3>1. b[i] = a[i]
      BY <1>3, <2>4
    <3> QED BY <1>1, <2>2, <3>1
  <2>5. CASE k = i
    BY <1>1, <1>3, <2>2, <2>5
  <2> QED BY <2>1, <2>3, <2>4, <2>5
<1> QED BY <1>2, <1>3 DEF LexBelow

\* A non-empty set of natural numbers has a least element.
LEMMA LeastPosition ==
  ASSUME NEW S, S \subseteq Nat, S # {}
  PROVE  \E m \in S : \A i \in S : m <= i
<1>1. PICK m \in S : \A i \in S : ~ (<<i, m>> \in OpToRel(<, Nat))
  BY NatLessThanWellFounded, WFMin
<1>2. OpToRel(<, Nat) = {ss \in Nat \X Nat : ss[1] < ss[2]}
  BY DEF OpToRel
<1>3. ASSUME NEW i \in S PROVE m <= i
  <2>1. ~ (<<i, m>> \in {ss \in Nat \X Nat : ss[1] < ss[2]})
    BY <1>1, <1>2, Zenon
  <2>2. i \in Nat /\ m \in Nat
    OBVIOUS
  <2> QED BY <2>1, <2>2
<1> QED BY <1>3

\* Of two different ULIDs one is below the other.
LEMMA BelowIsTotal ==
  ASSUME NEW u \in Ulid, NEW w \in Ulid, u # w
  PROVE  LexBelow(RAW_SIZE, u, w) \/ LexBelow(RAW_SIZE, w, u)
<1> DEFINE D == {k \in 1 .. RAW_SIZE : u[k] # w[k]}
<1>1. D \subseteq Nat
  OBVIOUS
<1>2. D # {}
  <2>1. ASSUME D = {} PROVE FALSE
    <3>1. Agree(1 .. RAW_SIZE, u, w)
      BY <2>1, Zenon DEF Agree
    <3> QED BY <3>1, SameFunction DEF Ulid
  <2> QED BY <2>1
<1>3. PICK m \in D : \A i \in D : m <= i
  BY <1>1, <1>2, LeastPosition
<1>4. m \in 1 .. 16 /\ u[m] # w[m]
  BY DEF RAW_SIZE
<1>5. u[m] \in 0 .. 255 /\ w[m] \in 0 .. 255
  BY <1>4 DEF Ulid, Byte, RAW_SIZE
<1>6. ASSUME NEW j \in 1 .. m - 1 PROVE u[j] = w[j]
  <2>1. j \in 1 .. RAW_SIZE /\ ~(m <= j)
    BY <1>4 DEF RAW_SIZE
  <2> QED BY <1>3, <2>1, Zenon
<1>7. u[m] < w[m] \/ w[m] < u[m]
  <2>1. \A x, y \in 0 .. 255 : x # y => x < y \/ y < x
    OBVIOUS
  <2> QED BY <1>4, <1>5, <2>1, Zenon
<1> QED BY <1>4, <1>6, <1>7 DEF LexBelow, RAW_SIZE

\* The order of the texts is the order of the ULIDs.
LEMMA TextOrderIsUlidOrder ==
  ASSUME NEW u \in Ulid, NEW w \in Ulid
  PROVE  TupleLess(u, w) <=> TupleLess(marshal_text(u), marshal_text(w))
<1>1. ASSUME NEW f \in Ulid
      PROVE  /\ Len(f) = RAW_SIZE /\ Len(marshal_text(f)) = ENCODED_SIZE
             /\ \A i \in 1 .. ENCODED_SIZE : marshal_text(f)[i] \in Int
  <2>1. RAW_SIZE \in Nat /\ ENCODED_SIZE \in Nat
    BY DEF RAW_SIZE, ENCODED_SIZE
  <2>2. Len(f) = RAW_SIZE
    BY <2>1, FunctionIsSeq DEF Ulid
  <2>3. \A i \in 1 .. ENCODED_SIZE : Encode(f)[i] \in Symbol
    BY DecodeEncode
  <2>4. \A v \in Symbol : ENCODING[v] \in Int
    BY CodesDiffer
  <2>5. marshal_text(f) \in [1 .. ENCODED_SIZE -> Int]
    BY <2>3, <2>4 DEF marshal_text
  <2> QED BY <2>1, <2>2, <2>5, FunctionIsSeq
<1>2. TupleLess(u, w) <=> LexBelow(RAW_SIZE, u, w)
  BY <1>1, Zenon DEF TupleLess, LexBelow
<1>3. TupleLess(marshal_text(u), marshal_text(w))
        <=> LexBelow(ENCODED_SIZE, marshal_text(u), marshal_text(w))
  BY <1>1, Zenon DEF TupleLess, LexBelow
<1>4. ASSUME LexBelow(ENCODED_SIZE, marshal_text(u), marshal_text(w)) PROVE LexBelow(RAW_SIZE, u, w)
  <2>1. ENCODED_SIZE \in Nat
    BY DEF ENCODED_SIZE
  <2>2. /\ marshal_text(u) # marshal_text(w)
        /\ ~LexBelow(ENCODED_SIZE, marshal_text(w), marshal_text(u))
    BY <1>1, <1>4, <2>1, BelowIsStrict
  <2>3. u # w
    BY <2>2
  <2>4. ~LexBelow(RAW_SIZE, w, u)
    BY <2>2, SmallerText
  <2> QED BY <2>3, <2>4, BelowIsTotal
<1> QED BY <1>2, <1>3, <1>4, SmallerText

\* Sorting the texts sorts the ULIDs: of any two ULIDs the receiver holds one
\* after the other, the smaller one has the smaller text.
THEOREM TextsSortAsUlids == Spec => TextOrder
<1>1. TextInv /\ TextInv' => (TupleLess(id, id') <=> TupleLess(marshal_text(id), marshal_text(id')))
  BY TextOrderIsUlidOrder DEF TextInv, TypeOK, Ulid
<1>2. TextInv /\ TextInv' => [TupleLess(id, id') <=> TupleLess(marshal_text(id), marshal_text(id'))]_id
  BY <1>1
<1> QED BY <1>2, TextInvariance, PTL DEF TextOrder
=============================================================================
