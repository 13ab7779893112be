------------------------------- MODULE MCCli --------------------------------
(* Model values of the Cli runs.                                           *)
EXTENDS Cli

Arg(kind, texts) == {[kind |-> kind, text |-> t] : t \in texts}

SomeTokens ==
  Arg("flag", {"help", "quick", "zero"}) \cup Arg("format", {""}) \cup Arg("--", {""})
    \cup Arg("format=", {"rfc3339", "bad"}) \cup Arg("option", {""})
    \cup Arg("word", {"ulid", "ms", "unix"})

\* The days around the ends of February and of the year.
Edges(y) == {DayNumber([y |-> y, m |-> 3, d |-> 1]) + k : k \in -2 .. 0}
            \cup {DayNumber([y |-> y, m |-> 12, d |-> 31]) + k : k \in 0 .. 1}

\* Every century year and the leap year after it up to the last year of a 48-bit
\* time, and forty years in a row; every first and last day of a month.
SomeDays ==
  UNION {Edges(y) : y \in 1970 .. 2010}
    \cup UNION {Edges(100 * c + k) : c \in 20 .. 108, k \in {0, 4}}
    \cup {DayNumber([y |-> y, m |-> m, d |-> 1]) - k : y \in {2023, 2024}, m \in 1 .. 12, k \in 0 .. 1}

\* The first and last milliseconds of days, hours, minutes and seconds, and
\* fractions of one to three digits.
SomeMs == {0, 1, 50, 259, 500, 999, 1000, 59999, 60000, 3599999, 3600000, 86399999}

\* The last time of 48 bits, 05:31:50.655 on 2 August 10889.
LastTime == [day |-> 3257812, ms |-> 19910655]

SomeTimes ==
  {[day |-> d, ms |-> 0] : d \in SomeDays} \cup {[day |-> 365, ms |-> k] : k \in SomeMs}
    \cup {LastTime}

\* One time for each number of digits.
FewTimes == {[day |-> 365, ms |-> k] : k \in {0, 500, 259, 5}}
=============================================================================
