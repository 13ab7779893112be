------------------------------ MODULE MathRng ------------------------------
(***************************************************************************)
(* MathRng of src/sys.rs, the xorshift64 generator behind the default      *)
(* entropy source, with the two ways to seed it and the conversions        *)
(* between SystemTime and Unix milliseconds.                               *)
(*                                                                         *)
(* A u64 is the set of the positions of its one bits, and a byte likewise: *)
(* the shifts, the exclusive or and the wrapping arithmetic are then those *)
(* of the code at their full width.                                        *)
(***************************************************************************)
EXTENDS Integers, Sequences, FiniteSetsExt

CONSTANTS Gens,      \* the generators
          Seeds,     \* the seeds given to from_seed
          Clocks,    \* the times the system clock may show
          MsSize,    \* milliseconds are taken modulo this, 2^64 in the code
          Sizes,     \* the lengths of the buffers given to read
          MaxWords   \* bound on the words drawn from one generator

Bit == 0 .. 63
Word == SUBSET Bit
SystemTime == [secs : Int, nanos : {n \in Nat : n < 1000000000}]   \* since UNIX_EPOCH

ASSUME MathRngAssumption ==
  /\ Seeds \subseteq Word
  /\ Clocks \subseteq SystemTime
  /\ MsSize \in Nat \ {0}
  /\ Sizes \subseteq Nat
  /\ MaxWords \in Nat

\* Mutant of Shl: bits pushed out of the word stay.
ShlWide(x, n) == {i + n : i \in x}

Shl(x, n) == {i \in Bit : i - n \in x}
Shr(x, n) == {i \in Bit : i + n \in x}
Xor(x, y) == (x \ y) \cup (y \ x)

\* wrapping_add: a carry comes into bit i from a bit below it where both numbers
\* have a one, if all bits between pass it on.
Add(x, y) ==
  LET carry(i) == \E j \in 0 .. i - 1 : j \in x \cap y /\ j + 1 .. i - 1 \subseteq x \cup y
  IN  {i \in Bit : ((i \in x) # (i \in y)) # carry(i)}

\* wrapping_mul(1_000_000), which is 2^6 + 2^9 + 2^14 + 2^16 + 2^17 + 2^18 + 2^19
MulMillion(x) ==
  Add(Shl(x, 6), Add(Shl(x, 9), Add(Shl(x, 14), Add(Shl(x, 16),
    Add(Shl(x, 17), Add(Shl(x, 18), Shl(x, 19)))))))

\* The one bits of a number.
Bits[n \in Nat] ==
  IF n = 0 THEN {}
  ELSE {i + 1 : i \in Bits[n \div 2]} \cup (IF n % 2 = 1 THEN {0} ELSE {})

\* A hexadecimal literal, its sixteen digits from the left.
Hex(digits) ==
  {i \in Bit : (digits[16 - (i \div 4)] \div <<1, 2, 4, 8>>[1 + (i % 4)]) % 2 = 1}

GOLDEN == Hex(<<9, 14, 3, 7, 7, 9, 11, 9, 7, 15, 4, 10, 7, 12, 1, 5>>)
DEADBEEF == Hex(<<13, 14, 10, 13, 11, 14, 14, 15, 13, 14, 10, 13, 11, 14, 14, 15>>)

-----------------------------------------------------------------------------
\* Milliseconds since the epoch; a time before it counts as the epoch.
timestamp(t) ==
  IF t.secs < 0 THEN 0 ELSE (t.secs * 1000 + t.nanos \div 1000000) % MsSize

\* Mutant of time_from_ms: the remainder is taken for microseconds.
time_from_ms_micro(ms) == [secs |-> ms \div 1000, nanos |-> (ms % 1000) * 1000]

time_from_ms(ms) == [secs |-> ms \div 1000, nanos |-> (ms % 1000) * 1000000]

\* Mutant of time_seed: seconds instead of milliseconds.
time_seed_secs(ms) == Add(MulMillion(Bits[ms \div 1000]), GOLDEN)

\* The state new_from_time() starts from at millisecond ms.
time_seed(ms) ==
  LET seed == Add(MulMillion(Bits[ms]), GOLDEN)
  IN  IF seed = {} THEN DEADBEEF ELSE seed

\* Mutant of from_seed: zero is kept.
from_seed_raw(seed) == seed

\* The state from_seed(seed) starts from.
from_seed(seed) == IF seed = {} THEN GOLDEN ELSE seed

\* One step of xorshift64: the new state, which is also the number returned.
next(x) ==
  LET a == Xor(x, Shl(x, 13))
      b == Xor(a, Shr(a, 7))
  IN  Xor(b, Shl(b, 17))

\* The eight bytes of a word, the least significant one first.
to_le_bytes(x) == [k \in 1 .. 8 |-> {i \in 0 .. 7 : 8 * (k - 1) + i \in x}]

-----------------------------------------------------------------------------
VARIABLES clock,    \* what SystemTime::now() returns
          state,    \* the field of each generator
          left,     \* the bytes its current read has still to deliver
          dst,      \* the bytes its current or last read has delivered
          origin,   \* history: what it was made from
          stream    \* history: the words it has drawn

rngVars == <<clock, state, left, dst, origin, stream>>

None == [kind |-> "none"]
FromTime(ms) == [kind |-> "time", ms |-> ms]
FromSeed(seed) == [kind |-> "seed", seed |-> seed]
Origin == [kind : {"time"}, ms : 0 .. MsSize - 1] \cup [kind : {"seed"}, seed : Seeds]

Init ==
  /\ clock \in Clocks
  /\ state = [g \in Gens |-> {}]
  /\ left = [g \in Gens |-> 0]
  /\ dst = [g \in Gens |-> <<>>]
  /\ origin = [g \in Gens |-> None]
  /\ stream = [g \in Gens |-> <<>>]

\* Time passes, or the clock is set.
Tick == clock' \in Clocks /\ UNCHANGED <<state, left, dst, origin, stream>>

Create(g, from, start) ==
  /\ origin[g] = None
  /\ origin' = [origin EXCEPT ![g] = from]
  /\ state' = [state EXCEPT ![g] = start]
  /\ UNCHANGED <<clock, left, dst, stream>>

\* MathRng::new_from_time(), which calls now()
NewFromTime(g) == LET ms == timestamp(clock) IN Create(g, FromTime(ms), time_seed(ms))

\* MathRng::from_seed(seed)
NewFromSeed(g) == \E seed \in Seeds : Create(g, FromSeed(seed), from_seed(seed))

\* read(dst) is called with a buffer of n bytes.
StartRead(g) ==
  /\ origin[g] # None
  /\ left[g] = 0
  /\ \E n \in Sizes : left' = [left EXCEPT ![g] = n]
  /\ dst' = [dst EXCEPT ![g] = <<>>]
  /\ UNCHANGED <<clock, state, origin, stream>>

\* One word: eight bytes of it in the loop of read, as many as are missing
\* after the loop.
Draw(g) ==
  LET x == next(state[g])
      n == Min({8, left[g]})
  IN  /\ left[g] > 0
      /\ Len(stream[g]) < MaxWords
      /\ state' = [state EXCEPT ![g] = x]
      /\ dst' = [dst EXCEPT ![g] = @ \o SubSeq(to_le_bytes(x), 1, n)]
      /\ left' = [left EXCEPT ![g] = @ - n]
      /\ stream' = [stream EXCEPT ![g] = Append(@, x)]
      /\ UNCHANGED <<clock, origin>>

Next == Tick \/ \E g \in Gens : NewFromTime(g) \/ NewFromSeed(g) \/ StartRead(g) \/ Draw(g)

Spec == Init /\ [][Next]_rngVars

-----------------------------------------------------------------------------
\* Every value has its type: in particular no shift or sum leaves the 64 bits
\* of the generator's state.
TypeOK ==
  /\ clock \in Clocks
  /\ state \in [Gens -> Word]
  /\ left \in [Gens -> Nat]
  /\ dst \in [Gens -> Seq(SUBSET (0 .. 7))]
  /\ origin \in [Gens -> [kind : {"none"}] \cup Origin]
  /\ stream \in [Gens -> Seq(Word)]

\* The first eight bytes of a read are never all zero, whatever the seed and
\* however many reads came before.  MonotonicEntropy takes ten zero bytes for
\* "nothing read yet", so the default source never looks unread.
BytesNotAllZero ==
  \A g \in Gens : Len(dst[g]) >= 8 => \E k \in 1 .. 8 : dst[g][k] # {}

\* Two origins give one generator: the same millisecond, or the same seed,
\* where zero stands for the golden ratio.
SameOrigin(a, b) ==
  \/ a = b
  \/ a.kind = "seed" /\ b.kind = "seed" /\ {a.seed, b.seed} = {{}, GOLDEN}

\* A number of milliseconds below 2^58, some nine million years: beyond it the
\* product with 1,000,000 = 2^6 * 15625 loses bits that tell times apart.
Below58(o) == o.kind = "time" => Bits[o.ms] \subseteq 0 .. 57

\* Two generators made from the clock, or two made from seeds, deliver equal
\* words at some position exactly when they have one origin, and then at every
\* position: generators started within one millisecond repeat each other, all
\* others never agree at any position, however they are interleaved.
OriginDecidesStream ==
  \A g, h \in Gens :
    origin[g].kind = origin[h].kind /\ Below58(origin[g]) /\ Below58(origin[h]) =>
      \A i \in 1 .. Min({Len(stream[g]), Len(stream[h])}) :
        stream[g][i] = stream[h][i] <=> SameOrigin(origin[g], origin[h])

\* time_from_ms(now()) is the clock without its fraction of a millisecond, the
\* epoch for a clock before it, as long as the milliseconds fit.
ClockRoundTrips ==
  clock.secs * 1000 + clock.nanos \div 1000000 < MsSize =>
    time_from_ms(timestamp(clock)) =
      IF clock.secs < 0
      THEN [secs |-> 0, nanos |-> 0]
      ELSE [secs |-> clock.secs, nanos |-> clock.nanos - (clock.nanos % 1000000)]
=============================================================================
