-------------------------------- MODULE Cli ---------------------------------
(***************************************************************************)
(* The command line program, run() of src/bin/ulid.rs: the argument loop,  *)
(* one step per argument, and then generating a ULID or printing the time  *)
(* of the one given.                                                       *)
(*                                                                         *)
(* An argument is its kind and its text: flags, -f, --format=..., --, any  *)
(* other option, and words.  Ulid::parse is modelled in TextForm; here the *)
(* word "ulid" stands for a text it accepts, of any time in Times.         *)
(***************************************************************************)
EXTENDS Calendar

CONSTANTS Tokens,     \* the arguments: [kind, text]
          MaxArgs,    \* bound on their number
          Times,      \* the times of the ULIDs given: [day, ms]
          RngFails,   \* can the operating system's random source fail?
          ClockTooBig \* can the clock be past MaxTime?

Kinds == {"flag", "format", "format=", "--", "option", "word"}

ASSUME CliAssumption ==
  /\ \A a \in Tokens : a.kind \in Kinds
  /\ MaxArgs \in Nat /\ {RngFails, ClockTooBig} \subseteq BOOLEAN
  /\ \A t \in Times : t.day \in Nat /\ t.ms \in Nat /\ t.ms < 86400000

VARIABLES pc,           \* "args", "run", "print" or "done"
          args,         \* the arguments still to be read
          format, flags, positionals,
          exit,         \* the exit code
          out,          \* what was printed, and where
          shown,        \* the fields of the time printed, <<>> until then
          given,        \* history: the time of the ULID given
          argv          \* history: all the arguments

vars == <<pc, args, format, flags, positionals, exit, out, shown, given, argv>>
options == <<format, flags, positionals>>

Formats == {"default", "rfc3339", "unix", "ms"}

Nothing == [to |-> "none", what |-> "none"]
Message == [to |-> "stderr", what |-> "message"]

NoTime == [day |-> 0, ms |-> 0]

-----------------------------------------------------------------------------
Init ==
  /\ pc = "args"
  /\ args \in UNION {[1 .. n -> Tokens] : n \in 0 .. MaxArgs}
  /\ format = "default" /\ flags = {} /\ positionals = <<>>
  /\ exit = 0 /\ out = Nothing /\ shown = <<>> /\ given = NoTime
  /\ argv = args

Exit(code, printed) ==
  pc' = "done" /\ exit' = code /\ out' = printed /\ UNCHANGED <<args, options, argv>>

\* The next argument is of kind k.
Reading(k) == pc = "args" /\ args # <<>> /\ Head(args).kind = k

\* Mutant of Skip: the index is advanced one argument less.
SkipLess(n) == SubSeq(args, n, Len(args))

Skip(n) == SubSeq(args, n + 1, Len(args))

GoOn(n) ==
  /\ args' = Skip(n)
  /\ UNCHANGED <<pc, exit, out, shown, given, argv>>

\* The text of an argument taken as a value; an option is no format and no ULID.
TextOf(a) == IF a.kind = "word" THEN a.text ELSE "option"

Flag ==
  /\ Reading("flag") /\ GoOn(1)
  /\ flags' = flags \cup {Head(args).text}
  /\ UNCHANGED <<format, positionals>>

\* -f takes the next argument, whatever it is, as its value.
FormatValue ==
  /\ Reading("format") /\ Len(args) > 1 /\ GoOn(2)
  /\ format' = TextOf(args[2])
  /\ UNCHANGED <<flags, positionals>>

FormatMissing ==
  /\ Reading("format") /\ Len(args) = 1
  /\ Exit(2, Message)
  /\ UNCHANGED <<shown, given>>

FormatEquals ==
  /\ Reading("format=") /\ GoOn(1)
  /\ format' = Head(args).text
  /\ UNCHANGED <<flags, positionals>>

\* Mutant of AfterDashes: the index is one too far.
LateAfterDashes == SubSeq(args, 3, Len(args))

AfterDashes == Tail(args)

\* "--": everything after it is positional.
Dashes ==
  /\ Reading("--") /\ GoOn(Len(args))
  /\ positionals' = positionals \o AfterDashes
  /\ UNCHANGED <<format, flags>>

UnknownOption ==
  /\ Reading("option")
  /\ Exit(2, Message)
  /\ UNCHANGED <<shown, given>>

Positional ==
  /\ Reading("word") /\ GoOn(1)
  /\ positionals' = Append(positionals, Head(args))
  /\ UNCHANGED <<format, flags>>

-----------------------------------------------------------------------------
Help ==
  /\ pc = "args" /\ args = <<>> /\ "help" \in flags
  /\ Exit(0, [to |-> "stderr", what |-> "help"])
  /\ UNCHANGED <<shown, given>>

ValidFormat == format \in Formats

BadFormat ==
  /\ pc = "args" /\ args = <<>> /\ "help" \notin flags
  /\ ~ValidFormat
  /\ Exit(1, Message)
  /\ UNCHANGED <<shown, given>>

Dispatch ==
  /\ pc = "args" /\ args = <<>> /\ "help" \notin flags
  /\ ValidFormat
  /\ pc' = "run"
  /\ UNCHANGED <<args, options, exit, out, shown, given, argv>>

\* Where the entropy of a generated ULID comes from; --zero wins over --quick.
Entropy ==
  CASE "zero" \in flags -> "zero"
    [] "zero" \notin flags /\ "quick" \in flags -> "MathRng"
    [] OTHER -> "os"

\* GENERATE: set_time, the entropy, and the ULID on stdout.
Generate ==
  /\ pc = "run" /\ positionals = <<>>
  /\ Exit(0, [to |-> "stdout", what |-> Entropy])
  /\ UNCHANGED <<shown, given>>

\* crypto_fill fails: /dev/urandom or RtlGenRandom gives no bytes.
CryptoFillFails == RngFails /\ Entropy = "os"

\* GENERATE fails: the time does not fit, or there is no entropy.
GenerateFails ==
  /\ pc = "run" /\ positionals = <<>>
  /\ ClockTooBig \/ CryptoFillFails
  /\ Exit(1, Message)
  /\ UNCHANGED <<shown, given>>

TooMany ==
  /\ pc = "run" /\ Len(positionals) > 1
  /\ Exit(2, Message)
  /\ UNCHANGED <<shown, given>>

ParseFails ==
  /\ pc = "run" /\ Len(positionals) = 1 /\ TextOf(positionals[1]) # "ulid"
  /\ Exit(1, Message)
  /\ UNCHANGED <<shown, given>>

ParseOk ==
  /\ pc = "run" /\ Len(positionals) = 1 /\ TextOf(positionals[1]) = "ulid"
  /\ given' \in Times
  /\ pc' = "print"
  /\ UNCHANGED <<args, options, exit, out, shown, argv>>

\* format_time: a layout of date, weekday, time of day and fraction, or a number,
\* here still as days and the rest of the last day.
format_time(t, f) ==
  CASE f = "default" -> [date |-> civil(t.day), dow |-> dow(civil(t.day)),
                         clock |-> clock(t.ms), frac |-> TrimmedDigits(t.ms % 1000)]
    [] f = "rfc3339" -> [date |-> civil(t.day), clock |-> clock(t.ms),
                         frac |-> PaddedDigits(t.ms % 1000)]
    [] f = "unix" -> [days |-> t.day, secs |-> t.ms \div 1000]
    [] f = "ms" -> [days |-> t.day, ms |-> t.ms]
    [] OTHER -> "unreachable"

PrintTime ==
  /\ pc = "print"
  /\ Exit(0, [to |-> "stderr", what |-> "time"])
  /\ shown' = format_time(given, format)
  /\ UNCHANGED given

Next ==
  \/ Flag \/ FormatValue \/ FormatMissing \/ FormatEquals
  \/ Dashes \/ UnknownOption \/ Positional
  \/ Help \/ BadFormat \/ Dispatch
  \/ Generate \/ GenerateFails
  \/ TooMany \/ ParseFails \/ ParseOk \/ PrintTime

Spec == Init /\ [][Next]_vars /\ WF_vars(Next)
-----------------------------------------------------------------------------
(* What an argument list a means, read as a whole.                         *)

\* Is argument i the value of a -f before it?  In a run of -f's in front of i
\* options and values alternate, beginning with an option.
IsValue(a, i) ==
  \E k \in 1 .. i - 1 :
    /\ (i - k) % 2 = 1
    /\ \A j \in k .. i - 1 : a[j].kind = "format"
    /\ k = 1 \/ a[k-1].kind # "format"

\* The arguments that are read as options or words, up to the first "--".
Plain(a) == {i \in 1 .. Len(a) : \A j \in 1 .. i : a[j].kind = "--" => IsValue(a, j)}
Own(a) == {i \in Plain(a) : ~IsValue(a, i)}

UsageError(a) ==
  \E i \in Own(a) : a[i].kind = "option" \/ (a[i].kind = "format" /\ i = Len(a))

Words(a) == {i \in Own(a) : a[i].kind = "word"}
            \cup {i \in 1 .. Len(a) : \E j \in 1 .. i - 1 : j \notin Plain(a)}

WantsHelp(a) == \E i \in Own(a) : a[i].kind = "flag" /\ a[i].text = "help"

\* The arguments that set the format; the last one counts.
Setters(a) == {i \in Own(a) : a[i].kind \in {"format", "format="}}

WantedFormat(a) ==
  IF Setters(a) = {} THEN "default"
  ELSE LET i == CHOOSE i \in Setters(a) : \A j \in Setters(a) : j <= i
       IN  IF a[i].kind = "format" THEN TextOf(a[i+1]) ELSE a[i].text

FormatError(a) == ~UsageError(a) /\ ~WantsHelp(a) /\ WantedFormat(a) \notin Formats

\* The exit codes an argument list may lead to: "0 on success, 1 on ULID error, 2
\* on argument error" (README.md:77-78).  For a format that is none of the four
\* either error will do: the README calls for 2, the source has 1.
ExitCodes(a) ==
  CASE UsageError(a) -> {2}
    [] FormatError(a) -> {1, 2}
    [] ~UsageError(a) /\ WantsHelp(a) -> {0}
    [] OTHER -> CASE Words(a) = {} -> {0, 1}
                  [] \E i \in Words(a) : Words(a) = {i} ->
                       IF TextOf(a[CHOOSE i \in Words(a) : TRUE]) = "ulid" THEN {0} ELSE {1}
                  [] OTHER -> {2}

\* The one-pass loop of run() ends with the exit code that the argument list as a
\* whole calls for, wherever its options, values, words and "--" stand, and a
\* ULID goes to stdout exactly when one was asked for and made.
ExitIsCalledFor ==
  pc = "done" =>
    /\ exit \in ExitCodes(argv)
    /\ out.to = "stdout" <=> exit = 0 /\ ~WantsHelp(argv) /\ Words(argv) = {}

ClockMs(c) == ((c.hh * 60 + c.mm) * 60 + c.ss) * 1000

\* The printed date is a date of the Gregorian calendar and, with the weekday and
\* the time of day, that of the ULID given, at leap days, centuries and eras too.
PrintedTimeIsGiven ==
  out.what = "time" /\ format \in {"default", "rfc3339"} =>
    /\ ValidDate(shown.date) /\ DayNumber(shown.date) = given.day
    /\ ClockMs(shown.clock) = given.ms - (given.ms % 1000)
    /\ format = "default" => shown.dow = Weekday(given.day)
    /\ format = "rfc3339" => FractionMs(shown.frac) = given.ms % 1000

\* The program ends on every argument list.
Terminates == <>(pc = "done")

\* The fraction of the default layout stands for the ULID's milliseconds
\* (bin/ulid.rs:123-124: the layout .999 "strips trailing zeros").
DocFraction ==
  out.what = "time" /\ format = "default" => FractionMs(shown.frac) = given.ms % 1000
=============================================================================
