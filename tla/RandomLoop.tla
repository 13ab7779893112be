----------------------------- MODULE RandomLoop -----------------------------
(***************************************************************************)
(* MonotonicEntropy::random of src/monotonic.rs, one step per pass of its  *)
(* rejection loop.  The scratch buffer rand_buf outlives the call, so a    *)
(* call starts with whatever an earlier one, perhaps with another bound    *)
(* (the field `inc` is public), left in it.                                *)
(***************************************************************************)
EXTENDS RandomIncrement

CONSTANTS Bounds,       \* the values of the public field `inc`
          BufLen,       \* size of rand_buf, 8 in the code
          SourceFails   \* can a read of the inner source fail?

ASSUME LoopAssumption ==
  /\ Bounds \subseteq Nat /\ BufLen \in Nat \ {0}
  /\ \A b \in Bounds : b < Pow2[ByteBits * BufLen]   \* inc is a u64
  /\ SourceFails \in BOOLEAN

VARIABLES pc,        \* "loop", "done" or "failed"
          bound,     \* self.inc
          rand_buf,  \* self.rand_buf
          candidate, \* the local `inc`
          drawn,     \* history: the chunk read last, <<>> before the first read
          ret        \* the value returned, 0 until then

vars == <<pc, bound, rand_buf, candidate, drawn, ret>>

Init ==
  /\ pc = "loop"
  /\ bound \in Bounds
  /\ rand_buf \in [1 .. BufLen -> Byte]
  /\ candidate = 0
  /\ drawn = <<>>
  /\ ret = 0

\* `if self.inc <= 1 { return Ok(1) }`: nothing is read.
EarlyOut ==
  /\ pc = "loop" /\ bound <= 1
  /\ pc' = "done" /\ ret' = 1
  /\ UNCHANGED <<bound, rand_buf, candidate, drawn>>

Looping == pc = "loop" /\ bound > 1 /\ ~Accepted(candidate, bound)

\* Mutant of Filled: the slice read into is one byte short.
FilledShort(chunk) ==
  [i \in 1 .. BufLen |->
    IF i < byte_len(bound) THEN MaskFirst(chunk, bound)[i] ELSE rand_buf[i]]

\* rand_buf after a read of chunk into its front and the mask on byte 0.
Filled(chunk) ==
  [i \in 1 .. BufLen |->
    IF i <= byte_len(bound) THEN MaskFirst(chunk, bound)[i] ELSE rand_buf[i]]

\* Mutant of Decode: the whole buffer is decoded, not the bytes just read.
DecodeAll(buf) == LittleEndian(buf)

\* The match on byte_len: the bytes just read, zero-extended.
Decode(buf) == LittleEndian(SubSeq(buf, 1, byte_len(bound)))

\* The body of the loop.
Draw(chunk) ==
  /\ rand_buf' = Filled(chunk)
  /\ candidate' = Decode(Filled(chunk))
  /\ drawn' = chunk
  /\ UNCHANGED <<pc, bound, ret>>

\* One pass of the loop.
Pass == Looping /\ \E chunk \in Chunks(bound) : Draw(chunk)

\* The inner source fails and `?` leaves the loop.
SourceError ==
  /\ SourceFails /\ Looping
  /\ pc' = "failed"
  /\ UNCHANGED <<bound, rand_buf, candidate, drawn, ret>>

\* The loop ends and 1 + inc is returned.
Return ==
  /\ pc = "loop" /\ bound > 1 /\ Accepted(candidate, bound)
  /\ pc' = "done" /\ ret' = 1 + candidate
  /\ UNCHANGED <<bound, rand_buf, candidate, drawn>>

Next ==
  \/ EarlyOut
  \/ Pass
  \/ SourceError
  \/ Return

\* A chunk that ends the loop when it is drawn.
LuckyPass ==
  /\ Looping
  /\ \E chunk \in Chunks(bound) : Accepted(Candidate(chunk, bound), bound) /\ Draw(chunk)

(***************************************************************************)
(* The thread runs on, and a source that is read again and again delivers  *)
(* an acceptable chunk some time.  The second half is an assumption on the *)
(* caller's source: the loop has no limit on its passes, and a source that *)
(* turns to constant zeros keeps it spinning.                              *)
(***************************************************************************)
Fairness == WF_vars(Next) /\ SF_vars(LuckyPass)

Spec == Init /\ [][Next]_vars /\ Fairness

-----------------------------------------------------------------------------
\* The largest u64.
MaxWord == Pow2[ByteBits * BufLen] - 1

\* rand_buf holds bytes, and neither the decoded candidate nor `1 + inc` leaves
\* a u64, whatever bound the public field holds.
TypeOK ==
  /\ pc \in {"loop", "done", "failed"}
  /\ bound \in Bounds
  /\ rand_buf \in [1 .. BufLen -> Byte]
  /\ candidate \in 0 .. MaxWord /\ ret \in 0 .. MaxWord

\* Whatever is drawn and however often it is rejected, the increment returned
\* is positive and at most the bound, so that reads strictly increase and the
\* accumulator grows by no more than the field `inc` says (monotonic.rs:107-108 and
\* :180, "[1, m.inc]").  The half-open range of monotonic.rs:192 and :240 is not the
\* one meant here: the bound itself is returned.
ReturnInRange ==
  pc = "done" => ret \in 1 .. (IF bound <= 1 THEN 1 ELSE bound)

\* What is returned is decoded from the bytes the last pass read and from
\* nothing that earlier calls left in rand_buf.
NoStaleBytes ==
  pc = "done" /\ bound > 1 => ret = 1 + Candidate(drawn, bound)

\* Every call of random returns: the masked, little-endian candidates include
\* an acceptable one for every bound, powers of two and byte boundaries too.
Terminates == <>(pc # "loop")
=============================================================================
