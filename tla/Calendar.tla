------------------------------ MODULE Calendar ------------------------------
(***************************************************************************)
(* The calendar of format_time in src/bin/ulid.rs: civil date, weekday and *)
(* time of day from a count of days and of milliseconds in the day.        *)
(*                                                                         *)
(* The code's milliseconds since 1970 are kept as such a pair; its first   *)
(* two divisions (by 1000 and by 86400) take the pair apart.               *)
(***************************************************************************)
EXTENDS Integers, Sequences

\* Mutant of year_of_era: the century term is forgotten.
year_of_era_julian(doe) == (doe - doe \div 1460 - doe \div 146096) \div 365

year_of_era(doe) == (doe - doe \div 1460 + doe \div 36524 - doe \div 146096) \div 365

\* The era of 400 years, from March to February, and the day in it.
era_of(z) == (IF z >= 0 THEN z ELSE z - 146096) \div 146097
day_of_era(z) == z - era_of(z) * 146097

\* The day of a year that begins in March, and its month, 0 for March.
day_of_year(doe) ==
  LET yoe == year_of_era(doe) IN doe - (365 * yoe + yoe \div 4 - yoe \div 100)

march_month(doy) == (5 * doy + 2) \div 153

\* Civil from days; the year is counted from March until the last line.
civil(days) ==
  LET z   == days + 719468
      yoe == year_of_era(day_of_era(z))
      doy == day_of_year(day_of_era(z))
      mp  == march_month(doy)
      m   == IF mp < 10 THEN mp + 3 ELSE mp - 9
  IN  [y |-> yoe + era_of(z) * 400 + (IF m <= 2 THEN 1 ELSE 0),
       m |-> m,
       d |-> doy - (153 * mp + 2) \div 5 + 1]

MonthShift == <<0, 3, 2, 5, 0, 3, 5, 1, 4, 6, 2, 4>>

\* Day of the week, 0 for Sunday.
dow(date) ==
  LET y == date.y - (IF date.m < 3 THEN 1 ELSE 0)
  IN  (y + y \div 4 - y \div 100 + y \div 400 + MonthShift[date.m] + date.d) % 7

clock(ms) ==
  LET secs == ms \div 1000
  IN  [hh |-> secs \div 3600, mm |-> (secs % 3600) \div 60, ss |-> secs % 60]

\* The decimal digits of n < 1000, without leading zeros.
Digits(n) ==
  CASE n < 10 -> <<n>>
    [] n \in 10 .. 99 -> <<n \div 10, n % 10>>
    [] OTHER -> <<n \div 100, (n \div 10) % 10, n % 10>>

\* The fraction of a second of the default layout: the number without its
\* trailing zeros, and nothing for zero.
TrimmedDigits(n) ==
  LET s == Digits(n)
  IN  IF n = 0 THEN <<>>
      ELSE SubSeq(s, 1, CHOOSE k \in 1 .. Len(s) :
                          s[k] # 0 /\ \A j \in k + 1 .. Len(s) : s[j] = 0)

\* The fraction of the rfc3339 layout: three digits.
PaddedDigits(n) == <<n \div 100, (n \div 10) % 10, n % 10>>

-----------------------------------------------------------------------------
(* Reference definitions, from the rules of the Gregorian calendar.        *)

Leap(y) == y % 4 = 0 /\ (y % 100 # 0 \/ y % 400 = 0)

MonthDays(y, m) ==
  CASE m = 2 -> IF Leap(y) THEN 29 ELSE 28
    [] m \in {4, 6, 9, 11} -> 30
    [] OTHER -> 31

ValidDate(date) == date.m \in 1 .. 12 /\ date.d \in 1 .. MonthDays(date.y, date.m)

\* The days of a common year before each month.
CommonDaysBefore == <<0, 31, 59, 90, 120, 151, 181, 212, 243, 273, 304, 334>>

DaysBeforeMonth(y, m) == CommonDaysBefore[m] + (IF m > 2 /\ Leap(y) THEN 1 ELSE 0)

\* Years before y that were leap years, counted from year 1.
LeapsBefore(y) == (y - 1) \div 4 - (y - 1) \div 100 + (y - 1) \div 400

\* Days from 1970-01-01 to a date.
DayNumber(date) ==
  365 * (date.y - 1970) + LeapsBefore(date.y) - LeapsBefore(1970)
    + DaysBeforeMonth(date.y, date.m) + date.d - 1

\* 1970-01-01 was a Thursday.
Weekday(days) == (days + 4) % 7

\* The milliseconds a printed fraction stands for.
FractionMs(s) ==
  LET digit(k) == IF k <= Len(s) THEN s[k] ELSE 0
  IN  digit(1) * 100 + digit(2) * 10 + digit(3)
=============================================================================
