------------------------------- MODULE Base32 -------------------------------
(***************************************************************************)
(* The text form of a ULID: marshal_text_to of src/marshal.rs and parse of *)
(* src/base32.rs.  Sixteen bytes become twenty-six symbols of five bits:   *)
(* the first byte two symbols, and each of the three following groups of   *)
(* five bytes eight symbols, by the same shifts in each group.             *)
(***************************************************************************)
EXTENDS Integers, Sequences

RAW_SIZE == 16
ENCODED_SIZE == 26

Byte == 0 .. 255
Symbol == 0 .. 31

INVALID == 255

\* ASCII codes of the letters of the alphabet, without I, L, O and U.
Letters == <<65, 66, 67, 68, 69, 70, 71, 72, 74, 75, 77, 78,
             80, 81, 82, 83, 84, 86, 87, 88, 89, 90>>

\* ENCODING[v], the character of symbol v.
ENCODING == [v \in Symbol |-> IF v < 10 THEN 48 + v ELSE Letters[v - 9]]

\* Mutant of Codes: lower-case letters are not entered in the table.
UpperCodes(v) == {ENCODING[v]}

\* The characters build_dec enters for v: digits, and letters in both cases.
Codes(v) == IF v < 10 THEN {ENCODING[v]} ELSE {ENCODING[v], ENCODING[v] + 32}

DEC ==
  [c \in Byte |->
    IF \E v \in Symbol : c \in Codes(v) THEN CHOOSE v \in Symbol : c \in Codes(v) ELSE INVALID]

-----------------------------------------------------------------------------
(* u8 arithmetic.                                                          *)

Shl(x, k) == (x * 2^k) % 256

Shr(x, k) == x \div 2^k

\* Mutant of Bits: the mask is one bit too narrow.
BitsShort(x, lo, hi) == (x % 2^(hi - 1)) - (x % 2^lo)

\* x & mask for a mask of the bits lo .. hi-1
Bits(x, lo, hi) == (x % 2^hi) - (x % 2^lo)

\* Mutant of Or: the parts of a byte are added.
OrSum(x, y) == x + y

Or(x, y) ==
  LET bit(k) == IF Shr(x, k) % 2 = 1 \/ Shr(y, k) % 2 = 1 THEN 2^k ELSE 0
  IN  bit(0) + bit(1) + bit(2) + bit(3) + bit(4) + bit(5) + bit(6) + bit(7)

-----------------------------------------------------------------------------
EncodeByte(b) == <<Shr(Bits(b, 5, 8), 5), Bits(b, 0, 5)>>

EncodeGroup(b) ==
  << Shr(Bits(b[1], 3, 8), 3),
     Or(Shl(Bits(b[1], 0, 3), 2), Shr(Bits(b[2], 6, 8), 6)),
     Shr(Bits(b[2], 1, 6), 1),
     Or(Shl(Bits(b[2], 0, 1), 4), Shr(Bits(b[3], 4, 8), 4)),
     Or(Shl(Bits(b[3], 0, 4), 1), Shr(Bits(b[4], 7, 8), 7)),
     Shr(Bits(b[4], 2, 7), 2),
     Or(Shl(Bits(b[4], 0, 2), 3), Shr(Bits(b[5], 5, 8), 5)),
     Bits(b[5], 0, 5) >>

Encode(id) ==
  EncodeByte(id[1]) \o EncodeGroup(SubSeq(id, 2, 6))
    \o EncodeGroup(SubSeq(id, 7, 11)) \o EncodeGroup(SubSeq(id, 12, 16))

\* Mutant of marshal_text: the two symbols of the first byte are swapped.
marshal_text_swapped(id) ==
  LET s == Encode(id)
  IN  [i \in 1 .. ENCODED_SIZE |-> ENCODING[s[IF i <= 2 THEN 3 - i ELSE i]]]

\* Ulid::marshal_text and the String of Display and value.
marshal_text(id) == LET s == Encode(id) IN [i \in 1 .. ENCODED_SIZE |-> ENCODING[s[i]]]

-----------------------------------------------------------------------------
DecodeByte(s) == <<Or(Shl(s[1], 5), s[2])>>

DecodeGroup(s) ==
  << Or(Shl(s[1], 3), Shr(s[2], 2)),
     Or(Or(Shl(s[2], 6), Shl(s[3], 1)), Shr(s[4], 4)),
     Or(Shl(s[4], 4), Shr(s[5], 1)),
     Or(Or(Shl(s[5], 7), Shl(s[6], 2)), Shr(s[7], 3)),
     Or(Shl(s[7], 5), s[8]) >>

Decode(s) ==
  DecodeByte(s) \o DecodeGroup(SubSeq(s, 3, 10))
    \o DecodeGroup(SubSeq(s, 11, 18)) \o DecodeGroup(SubSeq(s, 19, 26))

Symbols(text) == [i \in 1 .. Len(text) |-> DEC[text[i]]]

ValidText(text) == \A i \in 1 .. Len(text) : DEC[text[i]] # INVALID

\* Mutant of Seven: a first character '8' is accepted.
Eight == 56

\* The ASCII code of '7', the largest first character of a 128-bit number.
Seven == 55

\* The checks of parse, in their order; "ok" when it goes on to decode.
parse_error(text, strict) ==
  IF Len(text) # ENCODED_SIZE THEN "DataSize"
  ELSE IF strict /\ ~ValidText(text) THEN "InvalidCharacters"
  ELSE IF text[1] > Seven THEN "Overflow" ELSE "ok"

\* The bytes parse decodes; a character outside the alphabet counts as 0xFF.
parse_bytes(text) == Decode(Symbols(text))
=============================================================================
