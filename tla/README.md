# A TLA+ model of oklog-ulid-rs

The repository is a Rust port of the Go library oklog/ulid: 128-bit identifiers
made of a 48-bit millisecond time and 80 bits of entropy, ordered byte by byte,
with a 26-character text form. Its hard part is *monotonic* entropy: identifiers
made in one millisecond are meant to increase, also when several threads make
them. This directory holds TLA+ models of the library, the TLC runs that check
them on small instances, and TLAPS proofs of the main results for all parameters.

## Inventory

| Part | State | Operations | What makes it correct |
|---|---|---|---|
| `Uint80` (`monotonic.rs`) | `hi`, `lo` words | `set_bytes`, `append_to`, `add`, `is_zero` | `add` is addition modulo 2^80 and says exactly when it wrapped |
| `MonotonicEntropy` | `ms`, `entropy`, `inc`, `rand_buf`, inner source | `new`, `monotonic_read`, plain `read`, assignment to the public `inc` | reads of one millisecond strictly increase; overflow is reported only when real; a failed call leaves no trace |
| its `random()` | `rand_buf` | rejection loop | positive and at most `inc`; decoded from fresh bytes only; ends |
| `Locked` | a `Mutex` and its poison flag | `monotonic_read(&self)`, `read(&mut self)` | each call atomic; no use after a panic; nobody waits for ever |
| default source, `make()` (`sys.rs`) | `OnceLock`, system clock | `default_entropy`, `make` | initialised once; increasing identifiers; a panic of one thread never becomes another's |
| `MathRng`, time conversions (`sys.rs`) | 64-bit state | seeds, `next`, `read`; `timestamp`, `time_from_ms` | state never zero, so ten bytes never all zero; two streams meet only if they start alike; conversions invert each other |
| `Ulid` (`ulid.rs`) | sixteen bytes | `set_time`, `with_time_checked`, `set_entropy`, `time`, `entropy`, `compare` | setters do not disturb each other; byte order is time order |
| constructors, readers (`entropy.rs`) | `SliceReader::pos`, a shared monotonic source | `new`, `must_new`, `new_monotonic`, `with_time_only` | reader bytes used once, in order; nothing used by a failed call; ULIDs of `new_monotonic` sort as they were made |
| text and binary form (`base32.rs`, `marshal.rs`) | none but the receiver | `marshal_text`, `marshal_*_to`, `parse`, `parse_strict`, `scan`, `unmarshal_*` | text is the value's bits; round trip; one text per value; text order is value order |
| command line (`bin/ulid.rs`) | options read so far | argument loop, generate, parse and print | exit code and output follow from the whole argument list; the printed date is the time given |
| fuzz harness (`fuzz/harness.rs`) | clock budget, `iterations`, `divergences`, a source | round trips INV-1 and INV-3, monotonic runs INV-5, report, exit | ends; an alarm of INV-5 is an overflow and never a disorder |
| errors, wiring, benchmarks | none kept | | see *Not modelled* |

`make()` calls `default_entropy()`, which runs the `OnceLock` initialiser on first
use, then reads the clock, checks the time (`set_time`) and calls
`Locked::monotonic_read`, which takes the mutex and calls
`MonotonicEntropy::monotonic_read`; that one calls `random()` and `Uint80::add`, or
the inner source. `default_entropy()` is public, so other code reads the same source
with timestamps of its own. The hard behaviours are the clock read outside the
lock, threads racing for the first use, sources that fail or panic half-way,
wrap-around at 2^80, constructors that mix plain and monotonic reads of one source, a
generator whose state must never be zero, and the boundaries of the shift expressions. The `hazards` in
`PROJECT.json` list them line by line.

## Modules

| Module | Models | Built on |
|---|---|---|
| `Uint80` | the two-word accumulator, for any word sizes | |
| `RandomIncrement` | the arithmetic of `random()` | |
| `MonotonicReader` | the abstract promise, over the history of reads only | |
| `MonotonicEntropy` | the source, one call per step | `Uint80`, `RandomIncrement`; refines `MonotonicReader` |
| `Constructors` | `new`, `new_monotonic`, `with_time_only` over one source that is also read directly | `MonotonicEntropy` |
| `RandomLoop` | `random()`, one loop pass per step | `RandomIncrement` |
| `Locked` | threads around the mutex, one preemption point per step | instance of `MonotonicEntropy`, which it refines |
| `Make` | `make()` and direct users of the default source | `Locked` |
| `MathRng` | the xorshift64 generator at full width, its seeds, the time conversions | |
| `Harness` | the fuzz harness | `Constructors` |
| `UlidValue` | a `Ulid` under its setters and constructors, and a `SliceReader`, in debug and release builds | |
| `Base32`, `TextForm` | the text form as functions; a receiver overwritten from text, bytes and SQL values | |
| `Calendar`, `Cli` | the date arithmetic of `format_time`; the command line program | |
| `MC*` | sets of inputs for the runs | |
| `MonotonicEntropyProofs` | theorems about the accumulator and the source | `MonotonicEntropy` |
| `RandomLoopProofs` | theorems about the sampling loop | `RandomLoop` |
| `ConstructorsProofs` | theorems about the constructors and the harness | `Harness`, `MonotonicEntropyProofs` |
| `MakeProofs` | theorems about the lock and `make()` | `Make`, an instance of `MonotonicEntropyProofs` |
| `MathRngProofs`, `UlidValueProofs`, `TextFormProofs`, `CliProofs` | theorems about the module they extend | |

How state and actions correspond to the code:

- **`MonotonicEntropy`**: `ms` and `entropy` are the fields. `Refill` and `Bump` are
  the two branches of `monotonic_read_inner`; `Bump` contains `increment()`, whose
  overflow is reported *after* the wrapped sum was stored. `SourceError` is a `?` on
  the inner read, before any assignment. `ShortBuffer` is the length check,
  `PlainRead` the `Entropy::read` that bypasses the accumulator. `log` is a history
  variable: the reads that wrote the accumulator. `SetInc` is an assignment to the public
  field `inc` between two calls. `Spec` allows any number of calls.
- **`Constructors`** adds what the owner of a source does with it. `Read` is a
  `Refill` or `Bump` and what its caller gets: bytes or an overflow. `NewMonotonic` is a `Read`
  after the check of the time, `New` a `PlainRead`, `TimeOnly` reads nothing;
  `BigTime` is the check that comes before any of them; `Direct` is a call of the source
  past the constructors. `made` remembers every answer of `Read`, those of direct calls and
  the overflows too. `BoundedSpec` caps the logged reads by `MaxCalls`.
- **`RandomLoop`**: `rand_buf` starts with any bytes, since it outlives calls, and
  `bound` is any value the public field may hold.
- **`Locked`**: `lock` and `poisoned` are the mutex; the labels of `pc` are the places
  between which a thread can be preempted. The branch test (`Branch`) and the write
  (`DoFill`, `DoBump`) are separate steps so that a missing lock would show. `Unwind` is every panic:
  the lock is freed and poisoned if the thread still holds it, and left alone if not, so that where a panic
  leaves the lock follows from where the guard is dropped.
- **`Make`** adds the `OnceLock` (`once`), the clock, and `made`, the identifiers
  returned, each with the number of those returned before its call began: the order
  of two calls is defined only when one returned before the other began.
- **`UlidValue`**: bytes have `ByteSize` values so that the six-byte time stays
  small; `want` remembers what was asked for, a time that does not fit included. `debug` is fixed at
  the start: with debug assertions `with_time_checked` panics on a large time, without it keeps the lower bits.
  `must_new` is `new` with its error turned into a panic, `ZeroReader` a slice of zeros.
- **`MathRng`**: a `u64` is the set of positions of its one bits, so that shifts, exclusive or
  and wrapping sums are those of the code without large numbers. `Draw` is one word of a `read`,
  which two generators may interleave; `stream` and `origin` are history.
- **`Harness`**: `pc` is the loop or the invariant the harness is at. `While`, `For`, `RoundTrip`,
  `TimeRoundTrip` and `MakeOne` follow `main`. Whether INV-1 and INV-3 find a difference is left
  open, since the harness must cope with either; INV-5 drives the real model of the source.
- **`Cli`** takes one argument per step. Its properties compare the loop with a
  reading of the whole list, and the calendar with the Gregorian rules. `ExitCodes` are the exit
  codes of the README, except that either error is accepted for an
  unknown format, where the README calls for 2 and the source ends with 1.
  Milliseconds since 1970 are kept as a day and the milliseconds in it.
- **`Base32`** is at full width: 8-bit bytes, the shifts and masks of the source, the
  real ASCII codes. The three groups of five bytes use the same shifts in
  the source and share one operator here. `must_parse` and `must_parse_strict` are
  the `Parse` action with its error turned into a panic. `WriteTo` is the length check of
  `marshal_text_to` and `marshal_binary_to`, which leave the identifier alone.

## Runs

Passing runs (states on the last execution):

| Run | Question | Bounds | States |
|---|---|---|---|
| `monotonic` | does the source keep its promise, and do the ULIDs and bytes read from it sort, through failures, short buffers, plain reads, times that do not fit and changes of `inc`? | words of 2 and 6 values, an `inc` of 3 at first and then of 0 or 2, three milliseconds of which one is too large, draws at zero, below a carry and below the limit, 3 logged reads | 152,844 |
| `random_loop` | range, no stale bytes, termination of `random()` | 2-bit bytes, 3-byte buffer, 13 bounds around powers of two and byte limits up to the largest word, every buffer content | 3,072 |
| `locked` | atomicity, poisoning, termination | 3 threads, 3 calls, failing and panicking source | 189,075 |
| `make` | what concurrent users of `make()` can rely on | 2 threads, 3 calls, clock of 3 values moving both ways, one value above `MaxTime` | 97,836 |
| `math_rng` | can a generator deliver zeros, can two streams meet, do the conversions invert? | 64-bit words; 2 generators, seeds at both ends of a word, zero and its stand-in; clocks before, at, one second and four seconds after the epoch, two of them in one millisecond; a wrap of the milliseconds at 4500; 3 words each | 190,035 |
| `ulid_value` | setters, constructors, order, both builds | 4-valued bytes, every power of a byte and its predecessor, 25-byte reader | 1,500 |
| `text_form` | bits, round trip, canonicity, order of text | full width; single-bit, extreme and malformed inputs; buffers of 16, 25 and 26 bytes | 603 |
| `cli` | does the one-pass loop read an argument list as a whole calls for, and is the printed date right? | every list of up to 3 of 11 arguments; 1,133 days at the ends of months, years and centuries, and the last 48-bit time, in the year 10,889 | 125,562 |
| `fuzz_harness` | what does an alarm of INV-5 mean, and does the harness end? | batches of 4, INV-5 in every second iteration with 4 rounds, 2 ticks of budget, sources that start low, below a carry and near the limit | 16,662 |

Why these bounds are enough for the interesting cases: with words of 2 and 6 values
and increments up to 3, three reads reach the carry, an overflow, a continuation
after an overflow and an all-zero sum, and leave room for a change of `inc` or a failed
constructor between any two. Four rounds in the harness are what it takes to
overflow from `<<1, 1>>` with increments of 2, so that both ends of INV-5 happen. 2-bit bytes make bounds of 5 and 17 need two
and three bytes, as 257 and 65,537 do. Three threads allow one in the section, one waiting
and one that arrives after a panic; two threads and three calls suffice for each
order of two clock reads and two lock entries with an earlier identifier to compare
with. In `text_form`, a wrong mask or shift moves or loses a single bit, which the
single-bit inputs show; the groups share their operators.

Runs that show a disagreement between the code and what the repository says:

| Run | What the code does | What it says |
|---|---|---|
| `trait_after_overflow` | `<<1, 5>>`, then an overflow that leaves `<<0, 1>>` in the accumulator, then `<<0, 3>>`, which continues from it | `entropy.rs:49-50`, strictly greater for the same `ms` |
| `make_stale_clock` | the clock is read outside the lock, and two threads can take a millisecond up again from fresh bytes | `sys.rs:140-145`, increasing within a millisecond, safe for concurrent use |
| `cli_fraction` | 5, 50 and 500 ms all print as `.5` | `bin/ulid.rs:123-124`, the layout `.999` without trailing zeros |

The passing properties state what remains true. `SameMsIncreases` and `UlidsIncrease` make two
exceptions from `TraitPromise`: the reported overflow, and all-zero bytes, which the code takes for
"nothing read yet" so that the next read of the millisecond is a fresh one.
`ReadsBack` and `OrderIsTimeFirst` leave out the times that a release build cut (`TimeKept`), `ExitIsCalledFor`
accepts either error for an unknown format, and `OriginDecidesStream` counts generators of one millisecond as one.
`MakeIncreases` is what callers one after the other get, `MakeIncreasesInRun` what concurrent
ones do.

Further places where the words and the code differ, met while modelling; the models follow
the code, and none has a run of its own:

- `monotonic.rs:192` and `:240`, `[1, self.inc)`: the loop accepts 1 .. `inc` - 1 and returns one more, so that
  the bound is returned and, above a bound of 1, 1 is not. `ReturnInRange` states the range of the field
  (`monotonic.rs:107-108`) and of `increment` (`:180`), `[1, inc]`.
- `monotonic.rs:192`, "uniform": the mask falls on the least significant byte, so that for some
  bounds parts of the range are never returned (for 300, only 2, 257 and 258 are). The default
  bound is not affected.
- `ulid.rs:142`, "panics on overflow": only with debug assertions (`ulid.rs:149`). A release build stores the lower
  48 bits, which the model does too.
- `README.md:77-78`, exit code 2 for argument errors: an invalid `--format` exits with 1 (`bin/ulid.rs:286`).
- `sys.rs:66`, "Unix-nanosecond time": the seed is milliseconds times a million, so that
  generators made in one millisecond are equal. `OriginDecidesStream` says that they are the only ones, up to 2^58
  milliseconds.
- `sys.rs:73-75`, "xorshift64 needs non-zero state": the seed made from the clock is always odd
  (`SeedIsOdd`), so that the replacement for a zero seed is never used.
- `sys.rs:155`, `.expect("MathRng never fails")`: `MonotonicOverflow` also ends there (`MakePanic`). The panic
  happens after the guard is dropped, so that other threads go on (`PanicsAreOwn`).
- `entropy.rs:61-64`: `new` is said to use `monotonic_read` when the source has one; it reads plainly.
- `harness.rs:18-22` lists INV-2 and INV-4; the harness tries INV-1, 3 and 5. A failing marshal is
  skipped without a report, a budget of 0 passes with nothing tried, and INV-5 counts a genuine
  overflow as a divergence, which its seeds make very unlikely (`AlarmsNearTheTop`).

## Fairness

- `Locked`, `Make`: weak fairness of each thread's steps inside a call, i.e. the
  operating system keeps running a thread that can run. No order among the threads
  waiting for the mutex is assumed; since calls are finitely many, a waiting thread
  is eventually alone. Starvation under an endless stream of calls is not excluded,
  by the code or by the model. Time need not pass, and nobody need call.
- `RandomLoop`: in addition strong fairness of a pass that draws an acceptable chunk.
  This is an assumption on the caller's source: the loop has no limit, and a source
  that turns to constant zeros keeps it spinning.
- `Cli`: the program keeps running.
- `Harness`: weak fairness of the harness's step, as for `Cli`, and of the clock's tick: real time
  passes while it runs. A batch is finite, so that the budget is looked at again and again.
- The other specifications state safety only.

Deadlock checking is off in `RandomLoop`, `Locked`, `Make` and `Cli`, which end.

## Proofs

All proofs hold for every value of the constants that satisfies the named assumptions.
Those say what the code's types say: `BasesAssumption` and `SourceAssumption` (at least two high
words, bounds that fit the low word), `IncAssumption`, `CallAssumption`, `ByteBitsAssumption`,
`LoopAssumption` (the bound is a `u64`),
`LockedAssumption`, `ConstructorsAssumption`, `HarnessAssumption`, `MathRngAssumption`,
`ValueAssumption`, `InputAssumption`, `CliAssumption`; and `MakeAssumption`, that the inner source of the default
source is a `MathRng`: it neither fails nor panics and never gives ten zero bytes, which
`NeverAllZero` proves of `MathRng`. Before they were proved, the inductive invariants `LInv`, `MInv`, `SInv`,
`HInv`, `VInv`, `ReaderInv`, `TextInv`, that of the loop and the two of the command line program were checked by TLC
on the instances of the runs.

- `MonotonicEntropyProofs`: `AddIsExact` shows that the two comparisons of words in `add` compute the sum
  modulo 2^80 and detect exactly the sums that do not fit; `LexLessIsLess` shows that
  byte-wise comparison is comparison of those numbers. The inductive invariant `IInv` is `SameMsIncreases` and
  `OverflowIsReal` with the type invariant and `LogTracksState`. The last is what
  makes it inductive: the two properties speak of the log, while the next read
  depends on `ms` and `entropy`, so the end of the log must be known to be what
  the fields hold. An appended read is compared with the last one only, and with the
  earlier ones by transitivity. From `IInv` follow `TypeCorrect`, `ReadsIncrease`,
  `OverflowsAreReal` and `Refinement` (every call is a step of `MonotonicReader` or
  a stutter). A change of `inc` is a step of the abstract reader too (`Retune`).
- `RandomLoopProofs`: the core is `DecodesChunk`: reading a chunk into the front of `rand_buf`, masking its first byte
  and decoding the front gives the candidate of that chunk alone. With it `RInv` (the candidate is 0
  or that of the last chunk) gives `IncrementIsFresh`, and the loop condition gives `IncrementInRange`.
  `RandomTypeCorrect` needs the range of `from_le_bytes`: the recursive definitions `Pow2` and of the sum in `LittleEndian`
  are shown to have a solution (`Pow2Is`, `SumsExist`), and a number in n bytes to be below the weight of
  the next byte (`SumsInRange`). `ByteLenFits`: the slice of `rand_buf` that is read never exceeds it. `SomeChunkIsAccepted`
  is the safe half of termination: for every bound above 1 there is a chunk that ends the loop.
- `ConstructorsProofs`: `CInv` adds to `IInv` the property `UlidsIncrease` and `MadeTracksState`:
  the last answer, unless it was an overflow, is what the source continues from, which holds because no
  other call writes the accumulator and the time is checked before the source is read. A new
  answer of the same millisecond is above the last one by `AddIsExact`, and above the earlier
  ones by transitivity; one that overflows ends the run. `UlidsSort` speaks of the stretches of answers that
  `Forward` describes: times do not go back, none is an overflow, only the last is all zero. The
  exceptions are real: `trait_after_overflow` shows one of them. `BoundedIsSpecial` carries `UlidsSort` to the specification of the run.
  For the harness, `HInv` adds `FollowsSource`: between two rounds of INV-5 the harness's `prev` is what the source
  holds, and the source is at most `round` increments above its first read. Hence a round that does not
  overflow is never reported, and one that does began near the limit.
- `MakeProofs`, the lock: `LInv` relates the labels to the holder of the lock. Given mutual
  exclusion, a thread that writes disturbs no other thread's branch decision. From it
  follow `SectionIsExclusive`, `BranchesStayRight`, `PoisonFreezes`, `LockedTypeCorrect` and
  `LockMakesAtomic`, the refinement of the sequential source. What was proved of the sequential source
  then holds of the shared one: the theorems of `MonotonicEntropyProofs` are used through an instance, and
  `SharedReadsIncrease` is `ReadsIncrease` for any number of threads.
- `MakeProofs`, `make()`: `MInv` adds to `IInv` and the lock's invariant that nobody is past the `OnceLock` before
  its initialiser ran, and that the source is untouched until then (`OnceInv`), so that the initialiser changes no
  value anyone has used; that every call brings room for ten bytes (`RoomGiven`); and that each ULID returned or
  about to be is a logged read (`Delivered`, `MadeLogged`), later in the log than those returned before its
  call began (`BeforeOK`). From it follow `PanicsStayOwn`, `MakeTypeCorrect`, `MakeRunsIncrease` and
  `MakeSharesSource`. For `PanicsStayOwn`, `PanicStep` shows that a thread panics in `BigTimePanic` or `MakePanic`
  only: nobody holds the lock there, so it is never poisoned and nobody panics at it. `SerialMakesIncrease` needs `SInv` as well, which speaks of the time while calls come one after the
  other: neither the source nor the one call under way is ahead of the clock (`InTime`), the last ULID returned is the last
  read (`Settled`), and the ULID about to be returned is larger than all before it (`Pending`).
- `MathRngProofs`: `NextInjective` is the core: each of the three exclusive ors with a shifted
  copy can be undone, because the lowest (for a left shift) or highest (for a right shift) bit in
  which two words differ still differs afterwards. Hence zero, a fixed point, is reached from zero only,
  and the invariant `RInv` follows: states are not zero (`NonZero`), reads begin at a word
  (`WholeWords`), each word of a stream is the successor of the one before it (`Chained`, `StateIsLast`). From it
  come `NeverAllZero` and `StreamsByStart`: two streams that agree at a position started from one state.
  `StreamsByOrigin` adds that different origins are different starts. A number is known by its bits (`BitsInjective`, after
  `BitsIs`: the recursive definition of `Bits` has a solution). A bit of a sum depends only on the bits up to
  it and changes with each of them (`SameSum`), so that the product by 2^6 * 15625 still differs six places above the
  lowest bit in which two times differ (`MillionInjective`), as long as that place is inside the word.
  `ClockIsCutToMs` is the arithmetic of the time conversions.
- `UlidValueProofs`: positional notation to the base `ByteSize`. `DivDiv` turns the shifts by 16 to 40 into repeated
  shifts by 8, so that `TimeOfWithTime` is six divisions with remainder put together again; `Digit` says what
  appending one digit does to the order of two numbers, and six uses of it make `TimeOrder`, that times compare as their
  bytes. `VInv` is `ReadsBack`, for every time asked for that was kept, with the types of the ULID and of what was asked for; it gives `UlidTypeCorrect` and
  `UlidReadsBack`, and `TimeFirst` applied before and after a step gives `UlidsSortByTime`. `ReaderInv`, that what
  the constructors have taken are the slices of ten bytes before `pos`, one after the other, gives `ReaderInOrder`.
- `TextFormProofs`: each shift expression of `marshal_text` and of `parse` is shown to be arithmetic on one or two bytes or
  symbols; then five bytes and eight symbols determine each other, and a ULID is one byte and three such
  groups. `TextInv` (the receiver is sixteen bytes, and what `parse` makes of the last text) gives `TextTypeCorrect`,
  `TextAlwaysParsesBack` and `AcceptedTextIsCanonical`. For `TextsSortAsUlids`, the first differing byte lies in
  a first differing symbol, and the alphabet is increasing in ASCII. `TextIsTheBits`: in a group of five bytes and
  eight symbols bit p of the bytes is bit p of the symbols (`GroupBits`), and the 130 bits of the text are the 128 of the ULID
  after two zeros (`UlidBits`).
- `CliProofs`: a day of the 400-year era is taken apart into centuries, four-year periods and years (`PartsOfDay`), and the
  divisions by 1460, 36524 and 146096 in `format_time` are shown to find that year (`YearOfParts`); the
  months follow from the line `(5 * doy + 2) / 153` (`MonthOfDay`), and the result is compared with the rules of the Gregorian
  calendar and, modulo 7, with the weekday (`CivilIsRight`), for every day from 1970 on. `CInv` (past the argument loop
  the format is one of the four, and what was printed is `format_time`'s of the ULID given) then gives
  `PrintedTimesAreRight`. For `ExitCodesAreCalledFor`, `EInv` says that the loop's variables
  are what the arguments read so far mean (`ArgsRead`): the loop stands at an argument that is no value of a `-f` and has no
  `--` before it (`Clear`), the flags and the format are those set at the positions up to it, and the positionals are
  none, one or several as the words up to it are. Each kind of argument moves this on by one, two or all
  positions (`OneArgument`, `TwoArguments`, `DashesArgument`); `ValueStep` says how the values of a run of `-f`s alternate. When no
  argument is left these are the meaning of the list as a whole (`AtEnd`).

Only model-checked, and why:

- liveness (both `Terminates`, `EveryCallEnds`, `EveryMakeEnds`, `Finishes`): out of the prover's reach;
- the runs that show a disagreement, which are counterexamples.

Every invariant and every action property that a passing run checks is also a theorem.

## Not modelled

- The benchmarks (`bench/ulid_bench.rs`): timing loops around single calls, without state of their own.
- Error texts and the conversions to and from `std::io::Error`, which no operation of the crate
  uses; the variants themselves are the results of the actions.
- `lib.rs`: re-exports only.
- The operating system's random source and the standard output. A failed write of the
  identifier is ignored by the program (`bin/ulid.rs:225-226`) and left out here.
- `--local`, which has no effect in the code.
- The harness's own generator and its log file: its numbers are any numbers.
- The Go reference and its tests, which are not built.

## Plan

1. Done: accumulator, source, sampling loop, lock, `make()`, value, text form,
   command line; proofs about the accumulator, the source and the lock.
2. Done: constructors over a shared source, the field `inc` changing between reads, `MathRng`,
   time conversions, both builds of the value, the fuzz harness; proofs about the constructors and
   the generator.
3. Done: proofs about the sampling loop, `make()` and its callers, the harness, the value, the text form, the
   calendar and the command line program, the time conversions.
4. Done: the remaining invariants, which need recursive definitions and inductions over sequences:
   the order of a reader's bytes, the bits of the text, the exit codes, the range of the sampling loop and the origin of streams.
5. Left: nothing but liveness, which stays with TLC.
