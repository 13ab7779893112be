------------------------------ MODULE TextForm ------------------------------
(***************************************************************************)
(* A Ulid that is overwritten from text, bytes or SQL values (parse,       *)
(* parse_strict, unmarshal_text, unmarshal_binary and scan of              *)
(* src/marshal.rs) and written out as text.                                *)
(***************************************************************************)
EXTENDS Base32

CONSTANTS Texts,   \* the strings given to parse and scan
          Raws,    \* the byte slices given to unmarshal_binary and scan
          Rooms    \* the lengths of the buffers given to the *_to writers

ASSUME InputAssumption ==
  Texts \subseteq Seq(Byte) /\ Raws \subseteq Seq(Byte) /\ Rooms \subseteq Nat

VARIABLES id,    \* the receiver
          res,   \* what the last call returned
          text   \* history: the text id was decoded from, or <<>>

vars == <<id, res, text>>

ZERO == [i \in 1 .. RAW_SIZE |-> 0]

Init == id = ZERO /\ res = "none" /\ text = <<>>

Fail(error) == res' = error /\ text' = <<>> /\ UNCHANGED id

\* parse and scan(String) are lax, parse_strict is strict; each assigns the
\* receiver only when parse succeeds.  must_parse panics where parse fails.
Parse(t, strict) ==
  \/ /\ parse_error(t, strict) # "ok"
     /\ Fail(parse_error(t, strict))
  \/ /\ parse_error(t, strict) = "ok"
     /\ id' = parse_bytes(t) /\ text' = t /\ res' = "ok"

\* unmarshal_binary and scan(Bytes)
FromBytes(b) ==
  \/ /\ Len(b) # RAW_SIZE
     /\ Fail("DataSize")
  \/ /\ Len(b) = RAW_SIZE
     /\ id' = b /\ text' = <<>> /\ res' = "ok"

ScanNull == id' = ZERO /\ text' = <<>> /\ res' = "ok"

ScanOther == Fail("ScanValue")

\* marshal_text_to and marshal_binary_to write marshal_text(id), or id itself,
\* into a buffer of exactly their size, and nothing into any other.
WriteTo(room, size) ==
  /\ res' = IF room = size THEN "ok" ELSE "BufferSize"
  /\ UNCHANGED <<id, text>>

Next ==
  \/ \E t \in Texts, strict \in BOOLEAN : Parse(t, strict)
  \/ \E b \in Raws : FromBytes(b)
  \/ ScanNull
  \/ ScanOther
  \/ \E room \in Rooms, size \in {ENCODED_SIZE, RAW_SIZE} : WriteTo(room, size)

Spec == Init /\ [][Next]_vars

-----------------------------------------------------------------------------
\* Also for text with characters outside the alphabet the result is sixteen bytes.
TypeOK ==
  /\ id \in [1 .. RAW_SIZE -> Byte]
  /\ res \in {"none", "ok", "DataSize", "BufferSize", "InvalidCharacters",
              "Overflow", "ScanValue"}

\* Bit p, counted from 0 at the most significant end, of numbers of w bits each
\* that are written one after the other.
BitAt(xs, w, p) == Shr(xs[1 + (p \div w)], w - 1 - (p % w)) % 2

\* The text's 130 bits are the ULID's 128 bits after two zero bits: no bit is
\* lost, doubled or moved by the twenty-six shift expressions.
TextIsBits ==
  LET s == Symbols(marshal_text(id))
  IN  \A p \in 0 .. 5 * ENCODED_SIZE - 1 :
        BitAt(s, 5, p) = IF p < 2 THEN 0 ELSE BitAt(id, 8, p - 2)

LowerCase(t) == [i \in 1 .. Len(t) |-> IF t[i] \in 65 .. 90 THEN t[i] + 32 ELSE t[i]]

\* The text of any ULID, also in lower case, is accepted by strict parsing and
\* gives the ULID back.
TextParsesBack ==
  \A t \in {marshal_text(id), LowerCase(marshal_text(id))} :
    parse_error(t, TRUE) = "ok" /\ parse_bytes(t) = id

\* A text over the alphabet that is accepted is the text of the ULID it gives,
\* up to case: no two texts of different letters are read as one ULID.
AcceptedIsCanonical ==
  text # <<>> /\ ValidText(text) => LowerCase(marshal_text(id)) = LowerCase(text)

TupleLess(a, b) ==
  \E i \in 1 .. Len(a) : a[i] < b[i] /\ \A j \in 1 .. i - 1 : a[j] = b[j]

\* Sorting the texts sorts the ULIDs: of any two ULIDs the receiver holds one
\* after the other, the smaller one has the smaller text.
TextOrder ==
  [][TupleLess(id, id') <=> TupleLess(marshal_text(id), marshal_text(id'))]_id
=============================================================================
