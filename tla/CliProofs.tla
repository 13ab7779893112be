----------------------------- MODULE CliProofs -----------------------------
(***************************************************************************)
(* The date, the weekday and the time of day that the command line program *)
(* prints are those of the ULID, for every ULID time; and its exit code is *)
(* the one that the argument list as a whole calls for, for every list.    *)
(*                                                                         *)
(* A day of the 400-year era is taken apart into c centuries, k periods of *)
(* four years, j years and the day of the year, by the lengths of these    *)
(* periods; the divisions of the code by 1460, 36524 and 146096 are shown  *)
(* to correct for the leap days exactly.                                   *)
(*                                                                         *)
(* For the exit code, the variables of the argument loop are at every      *)
(* argument what the arguments before it mean.                             *)
(***************************************************************************)
EXTENDS Cli, TLAPS, SequenceTheorems, WellFoundedInduction

-----------------------------------------------------------------------------
\* The days of an era.
EraDay == {n \in Nat : n <= 146096}

\* The day doe of the era is day s - 365 j of year j of the four years k of
\* century c; a year has day 365 only when it ends in a leap day.
Parts(doe, c, k, s, j) ==
  /\ c \in 0 .. 3 /\ k \in 0 .. 24 /\ s \in 0 .. 1460 /\ j \in 0 .. 3
  /\ doe = 36524 * c + 1461 * k + s
  /\ 365 * j <= s /\ (j < 3 => s < 365 * j + 365)
  /\ s = 1460 /\ k = 24 => c = 3

\* Every day of an era has such parts.
LEMMA PartsOfDay ==
  ASSUME NEW doe \in EraDay
  PROVE  \E c, k, s, j \in Int : Parts(doe, c, k, s, j)
<1> USE DEF EraDay
<1>1. PICK c \in Int : /\ c \in 0 .. 3 /\ 36524 * c <= doe
                       /\ (c < 3 => doe < 36524 * c + 36524)
  BY SMT
<1>2. PICK r \in Int : r = doe - 36524 * c /\ 0 <= r /\ r <= 36524 /\ (c < 3 => r < 36524)
  BY <1>1, SMT
<1>3. PICK k \in Int : k = r \div 1461
  BY <1>2, SMT
<1>4. PICK s \in Int : s = r - 1461 * k
  BY SMT
<1>5. k \in 0 .. 24 /\ s \in 0 .. 1460 /\ r = 1461 * k + s
  BY <1>2, <1>3, <1>4, SMT
<1>6. s = 1460 /\ k = 24 => c = 3
  BY <1>1, <1>2, <1>5, SMT
<1>7. PICK j \in Int : j \in 0 .. 3 /\ 365 * j <= s /\ (j < 3 => s < 365 * j + 365)
  BY <1>5, SMT
<1>8. Parts(doe, c, k, s, j)
  BY <1>1, <1>2, <1>5, <1>6, <1>7, SMT DEF Parts
<1> QED BY <1>8

\* year_of_era finds the year of the parts.
YearIs(doe, c, k, s, j) == year_of_era(doe) = 100 * c + 4 * k + j

LEMMA YearOfParts ==
  ASSUME NEW doe \in EraDay, NEW c \in Int, NEW k \in Int, NEW s \in Int,
         NEW j \in Int, Parts(doe, c, k, s, j)
  PROVE  YearIs(doe, c, k, s, j)
<1> USE DEF EraDay
<1>1. PICK a \in Int : a = doe \div 1460 /\ 1460 * a <= doe /\ doe < 1460 * a + 1460
  BY SMT
<1>2. PICK b \in Int : b = doe \div 36524 /\ 36524 * b <= doe /\ doe < 36524 * b + 36524
  BY SMT
<1>3. PICK e \in Int : e = doe \div 146096 /\ 146096 * e <= doe /\ doe < 146096 * e + 146096
  BY SMT
<1>4. PICK n \in Int : n = doe - a + b - e
  BY SMT
<1>5. year_of_era(doe) = n \div 365
  BY <1>1, <1>2, <1>3, <1>4, SMT DEF year_of_era
<1>6. /\ 365 * (100 * c + 4 * k + j) <= n
      /\ n < 365 * (100 * c + 4 * k + j) + 365
  <2>1. CASE doe = 146096
    BY <1>1, <1>2, <1>3, <1>4, <2>1, SMT DEF Parts
  <2>2. CASE doe < 146096
    <3>1. e = 0
      BY <1>3, <2>2, SMT
    <3>2. b = c
      BY <1>2, <2>2, SMT DEF Parts
    <3>3. PICK t \in Int : t = a - 25 * c - k /\ t \in {0, 1}
                           /\ (t = 1 <=> k + s + 24 * c >= 1460)
      BY <1>1, <2>2, SMT DEF Parts
    <3> QED BY <1>4, <3>1, <3>2, <3>3, SMT DEF Parts
  <2> QED BY <2>1, <2>2, SMT
<1>7. PICK y \in Int : y = 100 * c + 4 * k + j
  BY SMT
<1>8. 365 * y <= n /\ n < 365 * y + 365
  BY <1>6, <1>7, SMT
<1>9. n \div 365 = y
  BY <1>8, SMT
<1> QED BY <1>5, <1>7, <1>9, SMT DEF YearIs

\* day_of_year finds the day of the parts.
DayIs(doe, c, k, s, j) == day_of_year(doe) = s - 365 * j

LEMMA DayOfParts ==
  ASSUME NEW doe \in EraDay, NEW c \in Int, NEW k \in Int, NEW s \in Int,
         NEW j \in Int, Parts(doe, c, k, s, j)
  PROVE  DayIs(doe, c, k, s, j)
<1> DEFINE y == 100 * c + 4 * k + j
<1>1. year_of_era(doe) = y
  <2>1. YearIs(doe, c, k, s, j)
    BY YearOfParts, Zenon
  <2> QED BY <2>1, Zenon DEF YearIs
<1>2. y \div 4 = 25 * c + k /\ y \div 100 = c
  BY <1>1, SMT DEF Parts
<1> QED BY <1>1, <1>2, SMT DEF DayIs, day_of_year, Parts, EraDay

-----------------------------------------------------------------------------
\* Month mp, counted from March, begins on day Before(mp) of the year; every
\* day doy of the year is a day of its month, the 29th of February being day 365.
Before(mp) == (153 * mp + 2) \div 5

MonthIs(doy, mp, d) ==
  /\ mp \in 0 .. 11 /\ d \in 1 .. 31 /\ doy = Before(mp) + d - 1
  /\ (mp \in {1, 3, 6, 8} => d <= 30)
  /\ (mp = 11 => d <= 29 /\ (d = 29 => doy = 365))

LEMMA MonthOfDay ==
  ASSUME NEW doy \in 0 .. 365
  PROVE  MonthIs(doy, march_month(doy), doy - Before(march_month(doy)) + 1)
<1>1. PICK mp \in Int : mp = march_month(doy)
  BY SMT DEF march_month
<1>2. 153 * mp <= 5 * doy + 2 /\ 5 * doy + 2 < 153 * mp + 153 /\ mp \in 0 .. 11
  BY <1>1, SMT DEF march_month
<1>3. MonthIs(doy, mp, doy - Before(mp) + 1)
  BY <1>2, SMT DEF MonthIs, Before
<1> QED BY <1>1, <1>3

\* The beginnings of the months, in numbers.
LEMMA Beginnings ==
  /\ Before(0) = 0 /\ Before(1) = 31 /\ Before(2) = 61 /\ Before(3) = 92 /\ Before(4) = 122
  /\ Before(5) = 153 /\ Before(6) = 184 /\ Before(7) = 214 /\ Before(8) = 245
  /\ Before(9) = 275 /\ Before(10) = 306 /\ Before(11) = 337
BY SMT DEF Before

-----------------------------------------------------------------------------
\* The years, counted from March, before a day of era number era.
YearsBefore(era, c, k, j) == 400 * era + 100 * c + 4 * k + j

\* Counting the leap years before year y + 1 adds the leap day of year y.
LEMMA LeapsStep ==
  ASSUME NEW y \in Nat
  PROVE  LeapsBefore(y + 1) = LeapsBefore(y) + (IF Leap(y) THEN 1 ELSE 0)
<1>1. PICK q \in Int, r \in Int : y = 400 * q + r /\ r \in 0 .. 399
  <2>1. y \div 400 \in Int /\ y % 400 \in Int /\ y = 400 * (y \div 400) + (y % 400) /\ y % 400 \in 0 .. 399
    BY SMT
  <2> QED BY <2>1
<1> QED BY <1>1, SMT DEF LeapsBefore, Leap

\* January and February belong to the year after.
YearOf(Y, mp) == IF mp < 10 THEN Y ELSE Y + 1
MonthOf(mp) == IF mp < 10 THEN mp + 3 ELSE mp - 9

\* Day number days is day d of month mp of year Y, both counted from March.
DayParts(days, era, doe, c, k, s, j, mp, d) ==
  /\ era \in Nat /\ doe \in EraDay /\ Parts(doe, c, k, s, j)
  /\ MonthIs(s - 365 * j, mp, d)
  /\ days + 719468 = 146097 * era + doe

\* The algorithm of format_time computes the date of these parts.
LEMMA CivilIs ==
  ASSUME NEW days \in Nat
  PROVE  \E era, doe, c, k, s, j, mp, d \in Int :
            /\ DayParts(days, era, doe, c, k, s, j, mp, d)
            /\ civil(days) = [y |-> YearOf(YearsBefore(era, c, k, j), mp),
                              m |-> MonthOf(mp), d |-> d]
<1>1. PICK z \in Nat : z = days + 719468
  BY SMT
<1>2. PICK era \in Nat : era = era_of(z)
  BY SMT DEF era_of
<1>3. PICK doe \in EraDay : doe = day_of_era(z) /\ z = 146097 * era + doe
  BY <1>2, SMT DEF day_of_era, era_of, EraDay
<1>4. PICK c \in Int, k \in Int, s \in Int, j \in Int : Parts(doe, c, k, s, j)
  BY PartsOfDay, Zenon
<1>5. year_of_era(doe) = 100 * c + 4 * k + j
  <2>1. YearIs(doe, c, k, s, j)
    BY <1>4, YearOfParts, Zenon
  <2> QED BY <2>1, Zenon DEF YearIs
<1>6. PICK doy \in 0 .. 365 : doy = day_of_year(doe) /\ doy = s - 365 * j
  <2>1. DayIs(doe, c, k, s, j)
    BY <1>4, DayOfParts, Zenon
  <2>2. day_of_year(doe) = s - 365 * j
    BY <2>1, Zenon DEF DayIs
  <2>3. s - 365 * j \in 0 .. 365
    BY <1>4, SMT DEF Parts
  <2> QED BY <2>2, <2>3, Zenon
<1>7. PICK mp \in Int, d \in Int : mp = march_month(doy) /\ d = doy - Before(mp) + 1 /\ MonthIs(doy, mp, d)
  <2>1. MonthIs(doy, march_month(doy), doy - Before(march_month(doy)) + 1)
    BY MonthOfDay, Zenon
  <2>2. march_month(doy) \in Int /\ doy - Before(march_month(doy)) + 1 \in Int
    BY SMT DEF march_month, Before
  <2> QED BY <2>1, <2>2, Zenon
<1>8. DayParts(days, era, doe, c, k, s, j, mp, d)
  <2>1. days + 719468 = 146097 * era + doe
    BY <1>1, <1>3, SMT
  <2>2. MonthIs(s - 365 * j, mp, d)
    BY <1>6, <1>7, SMT
  <2> QED BY <1>4, <2>1, <2>2, SMT DEF DayParts
<1>9. civil(days) = [y |-> YearOf(YearsBefore(era, c, k, j), mp), m |-> MonthOf(mp), d |-> d]
  <2>1. PICK m \in Int : m = MonthOf(mp) /\ m = (IF mp < 10 THEN mp + 3 ELSE mp - 9)
    BY SMT DEF MonthOf
  <2>2. civil(days) = [y |-> year_of_era(doe) + era * 400 + (IF m <= 2 THEN 1 ELSE 0),
                       m |-> m, d |-> doy - (153 * mp + 2) \div 5 + 1]
    BY <1>1, <1>2, <1>3, <1>6, <1>7, <2>1, SMT DEF civil
  <2>3. year_of_era(doe) + era * 400 + (IF m <= 2 THEN 1 ELSE 0)
          = YearOf(YearsBefore(era, c, k, j), mp)
    <3>1. mp \in 0 .. 11
      BY <1>7, SMT DEF MonthIs
    <3> QED BY <1>5, <2>1, <3>1, SMT DEF YearOf, YearsBefore
  <2>4. doy - (153 * mp + 2) \div 5 + 1 = d
    BY <1>7, SMT DEF Before
  <2> QED BY <2>1, <2>2, <2>3, <2>4, SMT
<1>10. doe \in Int /\ era \in Int
  BY SMT DEF EraDay
<1> QED BY <1>8, <1>9, <1>10, Zenon

-----------------------------------------------------------------------------
(* The parts are the Gregorian date, and its weekday.                      *)

\* A day in February's end exists: the 29th only in a leap year.
LEMMA PartsAreValid ==
  ASSUME NEW days \in Nat, NEW era \in Int, NEW doe \in Int, NEW c \in Int, NEW k \in Int,
         NEW s \in Int, NEW j \in Int, NEW mp \in Int, NEW d \in Int,
         DayParts(days, era, doe, c, k, s, j, mp, d), NEW Y \in Int, Y = YearsBefore(era, c, k, j)
  PROVE  /\ MonthOf(mp) \in 1 .. 12 /\ mp \in 0 .. 11
         /\ d \in 1 .. MonthDays(YearOf(Y, mp), MonthOf(mp))
<1>1. mp \in 0 .. 11 /\ d \in 1 .. 31
  BY SMT DEF DayParts, MonthIs
<1>2. MonthOf(mp) \in 1 .. 12
  BY <1>1, SMT DEF MonthOf
<1>3. CASE mp = 11
  <2>1. MonthOf(mp) = 2 /\ YearOf(Y, mp) = Y + 1
    BY <1>3, SMT DEF MonthOf, YearOf
  <2>2. d <= 29 /\ (d = 29 => s - 365 * j = 365)
    BY <1>3, SMT DEF DayParts, MonthIs
  <2>3. ASSUME d = 29 PROVE Leap(Y + 1)
    <3>1. s = 1460 /\ j = 3 /\ (k = 24 => c = 3) /\ k \in 0 .. 24 /\ c \in 0 .. 3 /\ era \in Nat
      BY <2>2, <2>3, SMT DEF DayParts, Parts
    <3>2. Y + 1 = 400 * era + 100 * c + 4 * k + 4
      BY <3>1, SMT DEF YearsBefore
    <3> QED BY <3>1, <3>2, SMT DEF Leap
  <2>4. d <= (IF Leap(Y + 1) THEN 29 ELSE 28)
    BY <1>1, <2>2, <2>3, SMT
  <2>5. MonthDays(YearOf(Y, mp), MonthOf(mp)) = (IF Leap(Y + 1) THEN 29 ELSE 28)
    BY <2>1, SMT DEF MonthDays
  <2> QED BY <1>1, <1>2, <2>4, <2>5, SMT
<1>4. CASE mp # 11
  <2>1. MonthDays(YearOf(Y, mp), MonthOf(mp)) = (IF mp \in {1, 3, 6, 8} THEN 30 ELSE 31)
    BY <1>1, <1>4, SMT DEF MonthDays, MonthOf
  <2>2. mp \in {1, 3, 6, 8} => d <= 30
    BY SMT DEF DayParts, MonthIs
  <2> QED BY <1>1, <1>2, <2>1, <2>2, SMT
<1> QED BY <1>3, <1>4

\* The days before the months of a common year, counted from March.
LEMMA CommonDays ==
  ASSUME NEW mp \in 0 .. 11
  PROVE  CommonDaysBefore[MonthOf(mp)] = IF mp < 10 THEN Before(mp) + 59 ELSE Before(mp) - 306
BY Beginnings, SMT DEF CommonDaysBefore, MonthOf

\* The date of the parts.
DateOf(Y, mp, d) == [y |-> YearOf(Y, mp), m |-> MonthOf(mp), d |-> d]
NumberIs(Y, mp, d, days) == DayNumber(DateOf(Y, mp, d)) = days
WeekdayIs(Y, mp, d, days) == dow(DateOf(Y, mp, d)) = Weekday(days)

\* The day number of the parts is the day they are the parts of.
LEMMA PartsNumber ==
  ASSUME NEW days \in Nat, NEW era \in Int, NEW doe \in Int, NEW c \in Int, NEW k \in Int,
         NEW s \in Int, NEW j \in Int, NEW mp \in Int, NEW d \in Int,
         DayParts(days, era, doe, c, k, s, j, mp, d), NEW Y \in Int, Y = YearsBefore(era, c, k, j)
  PROVE  NumberIs(Y, mp, d, days)
<1> SUFFICES DayNumber([y |-> YearOf(Y, mp), m |-> MonthOf(mp), d |-> d]) = days
  BY Zenon DEF NumberIs, DateOf
<1>1. /\ mp \in 0 .. 11 /\ Before(mp) \in Int /\ s - 365 * j = Before(mp) + d - 1 /\ era \in Nat
      /\ Parts(doe, c, k, s, j) /\ days + 719468 = 146097 * era + doe /\ doe \in EraDay
  BY SMT DEF DayParts, MonthIs, Before
<1>2. doe = 36524 * c + 1461 * k + s
  BY <1>1, SMT DEF Parts
<1>3. LeapsBefore(Y + 1) = 97 * era + 24 * c + k /\ Y \in Nat
  <2>1. Y \in Nat
    BY <1>1, SMT DEF YearsBefore, Parts
  <2>2. Y \div 4 = 100 * era + 25 * c + k /\ Y \div 100 = 4 * era + c /\ Y \div 400 = era
    BY <1>1, SMT DEF Parts, YearsBefore
  <2> QED BY <2>1, <2>2, SMT DEF LeapsBefore
<1>4. LeapsBefore(1970) = 477
  BY SMT DEF LeapsBefore
<1>5. Y = 400 * era + 100 * c + 4 * k + j
  BY DEF YearsBefore
<1>6. CommonDaysBefore[MonthOf(mp)] = IF mp < 10 THEN Before(mp) + 59 ELSE Before(mp) - 306
  BY <1>1, CommonDays, SMT
<1>7. CASE mp < 10
  <2>1. YearOf(Y, mp) = Y /\ MonthOf(mp) > 2
    BY <1>1, <1>7, SMT DEF YearOf, MonthOf
  <2>2. LeapsBefore(Y) + DaysBeforeMonth(Y, MonthOf(mp)) = 97 * era + 24 * c + k + Before(mp) + 59
    <3>1. LeapsBefore(Y + 1) = LeapsBefore(Y) + (IF Leap(Y) THEN 1 ELSE 0) /\ LeapsBefore(Y) \in Int
      <4>1. LeapsBefore(Y) \in Int
        BY <1>3, SMT DEF LeapsBefore
      <4>2. LeapsBefore(Y + 1) = LeapsBefore(Y) + (IF Leap(Y) THEN 1 ELSE 0)
        BY <1>3, LeapsStep, SMT
      <4> QED BY <4>1, <4>2, SMT
    <3>2. DaysBeforeMonth(Y, MonthOf(mp)) = Before(mp) + 59 + (IF Leap(Y) THEN 1 ELSE 0)
      BY <1>6, <1>7, <2>1, SMT DEF DaysBeforeMonth
    <3> QED BY <1>1, <1>3, <3>1, <3>2, SMT
  <2>3. DayNumber([y |-> YearOf(Y, mp), m |-> MonthOf(mp), d |-> d])
          = 365 * (Y - 1970) + LeapsBefore(Y) - 477 + DaysBeforeMonth(Y, MonthOf(mp)) + d - 1
    BY <1>4, <2>1, SMT DEF DayNumber
  <2>4. PICK a \in Int, b \in Int : a = LeapsBefore(Y) /\ b = DaysBeforeMonth(Y, MonthOf(mp))
    <3>1. LeapsBefore(Y) \in Int
      BY SMT DEF LeapsBefore
    <3>2. DaysBeforeMonth(Y, MonthOf(mp)) \in Int
      BY <1>1, <1>6, <1>7, SMT DEF DaysBeforeMonth
    <3> QED BY <3>1, <3>2
  <2> QED BY <1>1, <1>2, <1>5, <2>2, <2>3, <2>4, SMT
<1>8. CASE mp >= 10
  <2>1. YearOf(Y, mp) = Y + 1 /\ MonthOf(mp) <= 2 /\ MonthOf(mp) \in Int
    BY <1>1, <1>8, SMT DEF YearOf, MonthOf
  <2>2. DaysBeforeMonth(Y + 1, MonthOf(mp)) = Before(mp) - 306
    BY <1>1, <1>6, <1>8, <2>1, SMT DEF DaysBeforeMonth
  <2>3. DayNumber([y |-> YearOf(Y, mp), m |-> MonthOf(mp), d |-> d])
          = 365 * (Y + 1 - 1970) + (97 * era + 24 * c + k) - 477 + (Before(mp) - 306) + d - 1
    BY <1>3, <1>4, <2>1, <2>2, SMT DEF DayNumber
  <2> QED BY <1>1, <1>2, <1>5, <2>3, SMT
<1> QED BY <1>1, <1>7, <1>8, SMT

\* The shifts of Sakamoto's table are the days before the months, modulo 7.
LEMMA Shift ==
  ASSUME NEW mp \in 0 .. 11
  PROVE  \E q, t \in Int : t = MonthShift[MonthOf(mp)] /\ t + 7 * q = Before(mp) + 2
<1>1. PICK x \in Int : x = Before(mp) + 2
  BY SMT DEF Before
<1>2. PICK t \in Int : t = MonthShift[MonthOf(mp)] /\ (x - t) % 7 = 0
  BY <1>1, Beginnings, SMT DEF MonthShift, MonthOf
<1>3. PICK w \in Int : w = x - t /\ w % 7 = 0
  BY <1>2, SMT
<1>4. PICK q \in Int : w = 7 * q
  <2>1. w = 7 * (w \div 7) /\ w \div 7 \in Int
    BY <1>3, SMT
  <2> QED BY <2>1, Zenon
<1>5. t + 7 * q = x
  BY <1>3, <1>4, SMT
<1> QED BY <1>1, <1>2, <1>5, Zenon

\* The weekday of the parts.
LEMMA PartsWeekday ==
  ASSUME NEW days \in Nat, NEW era \in Int, NEW doe \in Int, NEW c \in Int, NEW k \in Int,
         NEW s \in Int, NEW j \in Int, NEW mp \in Int, NEW d \in Int,
         DayParts(days, era, doe, c, k, s, j, mp, d), NEW Y \in Int, Y = YearsBefore(era, c, k, j)
  PROVE  WeekdayIs(Y, mp, d, days)
<1>1. /\ mp \in 0 .. 11 /\ Before(mp) \in Int /\ s - 365 * j = Before(mp) + d - 1 /\ era \in Nat
      /\ Parts(doe, c, k, s, j) /\ days + 719468 = 146097 * era + doe /\ doe \in EraDay
  BY SMT DEF DayParts, MonthIs, Before
<1>2. doe = 36524 * c + 1461 * k + s
  BY <1>1, SMT DEF Parts
<1>3. Y \div 4 = 100 * era + 25 * c + k /\ Y \div 100 = 4 * era + c /\ Y \div 400 = era
  BY <1>1, SMT DEF Parts, YearsBefore
<1>4. Y = 400 * era + 100 * c + 4 * k + j
  BY DEF YearsBefore
<1>5. PICK q \in Int, t \in Int : t = MonthShift[MonthOf(mp)] /\ t + 7 * q = Before(mp) + 2
  <2>1. mp \in 0 .. 11
    BY <1>1, SMT
  <2> QED BY <2>1, Shift, Zenon
<1>6. YearOf(Y, mp) - (IF MonthOf(mp) < 3 THEN 1 ELSE 0) = Y
  BY <1>1, SMT DEF YearOf, MonthOf
<1>7. dow([y |-> YearOf(Y, mp), m |-> MonthOf(mp), d |-> d])
        = (497 * era + 124 * c + 5 * k + j + t + d) % 7
  <2>1. dow([y |-> YearOf(Y, mp), m |-> MonthOf(mp), d |-> d])
          = (Y + (Y \div 4) - (Y \div 100) + (Y \div 400) + t + d) % 7
    BY <1>5, <1>6, SMT DEF dow
  <2>2. Y + (Y \div 4) - (Y \div 100) + (Y \div 400) + t + d
          = 497 * era + 124 * c + 5 * k + j + t + d
    BY <1>3, <1>4, SMT
  <2> QED BY <2>1, <2>2, SMT
<1>8. PICK x \in Int : x = 497 * era + 124 * c + 5 * k + j + t + d
  BY SMT
<1>9. PICK w \in Int : w = 20800 * era + 5200 * c + 208 * k + 52 * j + q - 102781
  BY SMT
<1>10. days + 4 = x + 7 * w
  BY <1>1, <1>2, <1>5, <1>8, <1>9, SMT
<1>11. (days + 4) % 7 = x % 7
  BY <1>10, SMT
<1> QED BY <1>7, <1>8, <1>11, SMT DEF Weekday, WeekdayIs, DateOf

\* The date and the weekday computed for a day number are those of that day.
DateIsRight(date, days) ==
  ValidDate(date) /\ DayNumber(date) = days /\ dow(date) = Weekday(days)

LEMMA CivilIsRight ==
  ASSUME NEW days \in Nat
  PROVE  DateIsRight(civil(days), days)
<1>1. PICK era, doe, c, k, s, j, mp, d \in Int :
         /\ DayParts(days, era, doe, c, k, s, j, mp, d)
         /\ civil(days) = [y |-> YearOf(YearsBefore(era, c, k, j), mp),
                           m |-> MonthOf(mp), d |-> d]
  BY CivilIs, Zenon
<1>2. PICK Y \in Int : Y = YearsBefore(era, c, k, j)
  BY SMT DEF YearsBefore
<1> DEFINE date == DateOf(Y, mp, d)
<1>3. civil(days) = date
  BY <1>1, <1>2, Zenon DEF DateOf
<1>4. ValidDate(date)
  <2>1. MonthOf(mp) \in 1 .. 12 /\ d \in 1 .. MonthDays(YearOf(Y, mp), MonthOf(mp))
    BY <1>1, <1>2, PartsAreValid, Zenon
  <2>2. date.y = YearOf(Y, mp) /\ date.m = MonthOf(mp) /\ date.d = d
    BY DEF DateOf
  <2> QED BY <2>1, <2>2, Zenon DEF ValidDate
<1>5. DayNumber(date) = days
  <2>1. NumberIs(Y, mp, d, days)
    BY <1>1, <1>2, PartsNumber, Zenon
  <2> QED BY <2>1, Zenon DEF NumberIs
<1>6. dow(date) = Weekday(days)
  <2>1. WeekdayIs(Y, mp, d, days)
    BY <1>1, <1>2, PartsWeekday, Zenon
  <2> QED BY <2>1, Zenon DEF WeekdayIs
<1> HIDE DEF date
<1> QED BY <1>3, <1>4, <1>5, <1>6, Zenon DEF DateIsRight

\* Hours, minutes and seconds are those of the milliseconds of the day.
LEMMA ClockIsRight ==
  ASSUME NEW ms \in Nat
  PROVE  ClockMs(clock(ms)) = ms - (ms % 1000)
<1>1. PICK secs \in Nat : secs = ms \div 1000 /\ ms - (ms % 1000) = 1000 * secs
  BY SMT
<1>2. clock(ms) = [hh |-> secs \div 3600, mm |-> (secs % 3600) \div 60, ss |-> secs % 60]
  BY <1>1, SMT DEF clock
<1>3. ClockMs(clock(ms)) = (((secs \div 3600) * 60 + ((secs % 3600) \div 60)) * 60 + (secs % 60)) * 1000
  BY <1>2, SMT DEF ClockMs
<1>4. ((secs \div 3600) * 60 + ((secs % 3600) \div 60)) * 60 + (secs % 60) = secs
  BY SMT
<1> QED BY <1>1, <1>3, <1>4, SMT

\* Three digits of a fraction are its milliseconds.
LEMMA FractionIsRight ==
  ASSUME NEW n \in Nat, n < 1000
  PROVE  FractionMs(PaddedDigits(n)) = n
<1>1. FractionMs(PaddedDigits(n)) = (n \div 100) * 100 + ((n \div 10) % 10) * 10 + (n % 10)
  BY SMT DEF FractionMs, PaddedDigits
<1>2. (n \div 100) * 100 + ((n \div 10) % 10) * 10 + (n % 10) = n
  BY SMT
<1> QED BY <1>1, <1>2, SMT

-----------------------------------------------------------------------------
(* The program.                                                            *)

\* The inductive invariant: past the argument loop the format is one of the
\* four, nothing is printed before the program ends, and a time that was
\* printed is format_time's of the ULID given.
PrintedIsFormatted ==
  /\ pc = "done" /\ format \in Formats /\ given \in Times
  /\ shown = format_time(given, format)

CInv ==
  /\ pc \in {"args", "run", "print", "done"}
  /\ pc \in {"run", "print"} => format \in Formats
  /\ pc = "print" => given \in Times
  /\ pc # "done" => out = Nothing
  /\ out.what = "time" => PrintedIsFormatted

\* A step that ends the program with anything else than a time.
LEMMA ExitKeeps ==
  ASSUME NEW code, NEW to, NEW what, what # "time", Exit(code, [to |-> to, what |-> what])
  PROVE  CInv'
<1>1. pc' = "done" /\ out' = [to |-> to, what |-> what]
  BY Zenon DEF Exit
<1>2. out'.what = what
  BY <1>1
<1> QED BY <1>1, <1>2, Zenon DEF CInv

LEMMA MessageKeeps ==
  ASSUME NEW code, Exit(code, Message)
  PROVE  CInv'
BY ExitKeeps DEF Message

\* A step of the argument loop.
LEMMA GoOnKeeps ==
  ASSUME CInv, pc = "args", NEW n, GoOn(n)
  PROVE  CInv'
<1>1. pc' = "args" /\ out' = out /\ out = Nothing
  BY Zenon DEF GoOn, CInv
<1>2. out.what # "time"
  BY <1>1 DEF Nothing
<1> QED BY <1>1, <1>2 DEF CInv

LEMMA CliInitHolds == Init => CInv
<1> SUFFICES ASSUME Init PROVE CInv
  OBVIOUS
<1>1. pc = "args" /\ out = Nothing
  BY DEF Init
<1>2. out.what # "time"
  BY <1>1 DEF Nothing
<1> QED BY <1>1, <1>2 DEF CInv

LEMMA CliNextKeeps == CInv /\ [Next]_vars => CInv'
<1> SUFFICES ASSUME CInv, [Next]_vars PROVE CInv'
  OBVIOUS
<1>1. CASE Flag \/ FormatValue \/ FormatEquals \/ Dashes \/ Positional
  <2>1. pc = "args"
    BY <1>1 DEF Flag, FormatValue, FormatEquals, Dashes, Positional, Reading
  <2>2. \E n : GoOn(n)
    BY <1>1, Zenon DEF Flag, FormatValue, FormatEquals, Dashes, Positional
  <2> QED BY <2>1, <2>2, GoOnKeeps
<1>2. CASE FormatMissing \/ UnknownOption \/ BadFormat \/ GenerateFails \/ TooMany \/ ParseFails
  <2>1. \E code : Exit(code, Message)
    BY <1>2, Zenon DEF FormatMissing, UnknownOption, BadFormat, GenerateFails, TooMany, ParseFails
  <2> QED BY <2>1, MessageKeeps
<1>3. CASE Help
  BY <1>3, ExitKeeps DEF Help
<1>4. CASE Generate
  <2>1. Entropy # "time"
    BY DEF Entropy
  <2>2. Exit(0, [to |-> "stdout", what |-> Entropy])
    BY <1>4 DEF Generate
  <2> QED BY <2>1, <2>2, ExitKeeps
<1>5. CASE Dispatch
  <2>1. pc' = "run" /\ format' = format /\ out' = out /\ format \in Formats /\ out = Nothing
    BY <1>5, Zenon DEF Dispatch, ValidFormat, options, CInv
  <2>2. out.what # "time"
    BY <2>1 DEF Nothing
  <2> QED BY <2>1, <2>2 DEF CInv
<1>6. CASE ParseOk
  <2>1. /\ pc' = "print" /\ format' = format /\ out' = out /\ format \in Formats /\ out = Nothing
        /\ given' \in Times
    BY <1>6, Zenon DEF ParseOk, options, CInv
  <2>2. out.what # "time"
    BY <2>1 DEF Nothing
  <2> QED BY <2>1, <2>2 DEF CInv
<1>7. CASE PrintTime
  <2>1. /\ pc' = "done" /\ format' = format /\ given' = given
        /\ format \in Formats /\ given \in Times /\ shown' = format_time(given, format)
    BY <1>7, Zenon DEF PrintTime, Exit, options, CInv
  <2>2. PrintedIsFormatted'
    BY <2>1, Zenon DEF PrintedIsFormatted
  <2> QED BY <2>1, <2>2, Zenon DEF CInv
<1>8. CASE UNCHANGED vars
  BY <1>8, Zenon DEF vars, CInv, PrintedIsFormatted
<1> QED BY <1>1, <1>2, <1>3, <1>4, <1>5, <1>6, <1>7, <1>8, Zenon DEF Next

\* The invariant holds in every state.
THEOREM CliInvariance == Spec => []CInv
BY CliInitHolds, CliNextKeeps, PTL DEF Spec

\* What format_time returns for a ULID's time, in the two layouts with a date.
LEMMA FormattedIsRight ==
  ASSUME NEW t \in Times
  PROVE  /\ DateIsRight(civil(t.day), t.day)
         /\ ClockMs(clock(t.ms)) = t.ms - (t.ms % 1000)
         /\ FractionMs(PaddedDigits(t.ms % 1000)) = t.ms % 1000
<1>1. t.day \in Nat /\ t.ms \in Nat
  BY CliAssumption, SMT
<1>2. t.ms % 1000 \in Nat /\ t.ms % 1000 < 1000
  BY <1>1, SMT
<1> QED BY <1>1, <1>2, CivilIsRight, ClockIsRight, FractionIsRight

\* The printed date is a date of the Gregorian calendar and, with the weekday
\* and the time of day, that of the ULID given, for every time of a ULID: civil
\* from days, Sakamoto's weekday and the divisions of the time of day.
THEOREM PrintedTimesAreRight == Spec => []PrintedTimeIsGiven
<1>1. CInv => PrintedTimeIsGiven
  <2> SUFFICES ASSUME CInv, out.what = "time", format \in {"default", "rfc3339"}
               PROVE  /\ ValidDate(shown.date) /\ DayNumber(shown.date) = given.day
                      /\ ClockMs(shown.clock) = given.ms - (given.ms % 1000)
                      /\ format = "default" => shown.dow = Weekday(given.day)
                      /\ format = "rfc3339" => FractionMs(shown.frac) = given.ms % 1000
    BY Zenon DEF PrintedTimeIsGiven
  <2>1. given \in Times /\ shown = format_time(given, format)
    BY Zenon DEF CInv, PrintedIsFormatted
  <2>2. /\ DateIsRight(civil(given.day), given.day)
        /\ ClockMs(clock(given.ms)) = given.ms - (given.ms % 1000)
        /\ FractionMs(PaddedDigits(given.ms % 1000)) = given.ms % 1000
    BY <2>1, FormattedIsRight
  <2>3. CASE format = "default"
    <3>1. shown = [date |-> civil(given.day), dow |-> dow(civil(given.day)),
                   clock |-> clock(given.ms), frac |-> TrimmedDigits(given.ms % 1000)]
      BY <2>1, <2>3, SMT DEF format_time
    <3>2. shown.date = civil(given.day) /\ shown.dow = dow(civil(given.day)) /\ shown.clock = clock(given.ms)
      BY <3>1
    <3> QED BY <2>2, <2>3, <3>2 DEF DateIsRight
  <2>4. CASE format = "rfc3339"
    <3>1. shown = [date |-> civil(given.day), clock |-> clock(given.ms),
                   frac |-> PaddedDigits(given.ms % 1000)]
      BY <2>1, <2>4, SMT DEF format_time
    <3>2. shown.date = civil(given.day) /\ shown.clock = clock(given.ms)
          /\ shown.frac = PaddedDigits(given.ms % 1000)
      BY <3>1
    <3> QED BY <2>2, <2>4, <3>2 DEF DateIsRight
  <2> QED BY <2>3, <2>4
<1> QED BY <1>1, CliInvariance, PTL

-----------------------------------------------------------------------------
(* The arguments: which ones are values of a -f.                           *)

\* A non-empty set of numbers has a least one.
LEMMA LeastNumber ==
  ASSUME NEW S, S \subseteq Nat, S # {}
  PROVE  \E m \in S : \A i \in S : m <= i
<1>1. PICK m \in S : \A i \in S : ~ (<<i, m>> \in OpToRel(<, Nat))
  BY NatLessThanWellFounded, WFMin
<1>2. OpToRel(<, Nat) = {ss \in Nat \X Nat : ss[1] < ss[2]}
  BY DEF OpToRel
<1>3. ASSUME NEW i \in S PROVE m <= i
  <2>1. ~ (<<i, m>> \in {ss \in Nat \X Nat : ss[1] < ss[2]})
    BY <1>1, <1>2, Zenon
  <2>2. i \in Nat /\ m \in Nat
    OBVIOUS
  <2> QED BY <2>1, <2>2
<1> QED BY <1>3

\* The run of -f's that ends with argument i begins with argument k.
RunStart(a, k, i) ==
  /\ k \in 1 .. i
  /\ \A j \in k .. i : a[j].kind = "format"
  /\ k = 1 \/ a[k-1].kind # "format"

\* A run has one beginning.
LEMMA OneStart ==
  ASSUME NEW a, NEW i \in Nat, NEW k, NEW l, RunStart(a, k, i), RunStart(a, l, i)
  PROVE  k = l
<1>1. ASSUME NEW p \in 1 .. i, NEW q \in 1 .. i, RunStart(a, p, i), RunStart(a, q, i) PROVE ~(p < q)
  <2>1. ASSUME p < q PROVE FALSE
    <3>1. q - 1 \in p .. i /\ q # 1
      BY <2>1
    <3> QED BY <1>1, <3>1, Zenon DEF RunStart
  <2> QED BY <2>1
<1>2. k \in 1 .. i /\ l \in 1 .. i
  BY DEF RunStart
<1>3. ~(k < l) /\ ~(l < k)
  BY <1>1, <1>2, Zenon
<1> QED BY <1>2, <1>3

\* A -f is in a run.
LEMMA SomeStart ==
  ASSUME NEW a, NEW i \in Nat, i >= 1, a[i].kind = "format"
  PROVE  \E k \in 1 .. i : RunStart(a, k, i)
<1> DEFINE S == {k \in 1 .. i : \A j \in k .. i : a[j].kind = "format"}
<1>1. i \in S /\ S \subseteq Nat
  OBVIOUS
<1>2. PICK k \in S : \A l \in S : k <= l
  BY <1>1, LeastNumber
<1>3. k \in 1 .. i /\ \A j \in k .. i : a[j].kind = "format"
  OBVIOUS
<1>4. ASSUME k # 1, a[k-1].kind = "format" PROVE FALSE
  <2>1. k - 1 \in 1 .. i
    BY <1>3, <1>4
  <2>2. ASSUME NEW j \in k - 1 .. i PROVE a[j].kind = "format"
    <3>1. j \in k .. i \/ j = k - 1
      BY <1>3
    <3> QED BY <1>3, <1>4, <3>1, Zenon
  <2>3. k - 1 \in S
    BY <2>1, <2>2
  <2>4. k <= k - 1
    BY <1>2, <2>3
  <2> QED BY <1>3, <2>4
<1> QED BY <1>3, <1>4, Zenon DEF RunStart

\* A value ends an odd number of arguments of a run.
ValueAfter(a, n, m) == \E k \in 1 .. m : (n - k) % 2 = 1 /\ RunStart(a, k, m)

LEMMA ValueIs ==
  ASSUME NEW a, NEW i \in Nat
  PROVE  IsValue(a, i + 1) <=> ValueAfter(a, i + 1, i)
<1>1. IsValue(a, i + 1) <=> ValueAfter(a, i + 1, i + 1 - 1)
  BY DEF IsValue, ValueAfter, RunStart
<1>2. i + 1 - 1 = i
  OBVIOUS
<1> QED BY <1>1, <1>2, Zenon

\* After a run, parity decides.
LEMMA ValueAfterRun ==
  ASSUME NEW a, NEW i \in Nat, NEW k \in 1 .. i, RunStart(a, k, i)
  PROVE  IsValue(a, i + 1) <=> (i + 1 - k) % 2 = 1
<1>1. IsValue(a, i + 1) <=> \E l \in 1 .. i : (i + 1 - l) % 2 = 1 /\ RunStart(a, l, i)
  BY ValueIs DEF ValueAfter
<1> QED BY <1>1, OneStart, Zenon

\* The first argument is no value; a later one is if it follows a -f that is not
\* a value itself.
LEMMA FirstIsOwn == \A a : ~IsValue(a, 1)
BY DEF IsValue

LEMMA ValueStep ==
  ASSUME NEW a, NEW i \in Nat, i >= 1
  PROVE  IsValue(a, i + 1) <=> (a[i].kind = "format" /\ ~IsValue(a, i))
<1>1. i + 1 - 1 = i /\ (i - 1) + 1 = i
  OBVIOUS
<1>2. ASSUME NEW l \in Nat, l >= 1, IsValue(a, l + 1) PROVE a[l].kind = "format"
  <2>1. \A k \in 1 .. l : l \in k .. l
    BY <1>2
  <2> QED BY <1>2, <2>1, ValueIs, Zenon DEF ValueAfter, RunStart
<1>3. CASE a[i].kind # "format"
  BY <1>2, <1>3
<1>4. CASE a[i].kind = "format" /\ (i = 1 \/ a[i-1].kind # "format")
  <2>1. RunStart(a, i, i)
    <3>1. i \in 1 .. i /\ \A j \in i .. i : j = i
      OBVIOUS
    <3> QED BY <1>4, <3>1, Zenon DEF RunStart
  <2>2. (i + 1 - i) % 2 = 1 /\ i \in 1 .. i
    OBVIOUS
  <2>3. IsValue(a, i + 1)
    BY <2>1, <2>2, ValueAfterRun
  <2>4. CASE i = 1
    BY <1>4, <2>3, <2>4, FirstIsOwn
  <2>5. CASE i # 1
    <3>1. i - 1 \in Nat /\ i - 1 >= 1
      BY <2>5
    <3>2. IsValue(a, i) => a[i-1].kind = "format"
      BY <1>1, <1>2, <3>1
    <3> QED BY <1>4, <2>3, <2>5, <3>2
  <2> QED BY <2>4, <2>5
<1>5. CASE a[i].kind = "format" /\ i # 1 /\ a[i-1].kind = "format"
  <2>1. i - 1 \in Nat /\ i - 1 >= 1
    BY <1>5
  <2>2. PICK k \in 1 .. i - 1 : RunStart(a, k, i - 1)
    BY <1>5, <2>1, SomeStart
  <2>3. RunStart(a, k, i)
    <3>1. k \in 1 .. i /\ \A j \in k .. i : j = i \/ j \in k .. i - 1
      OBVIOUS
    <3> QED BY <1>5, <2>2, <3>1, Zenon DEF RunStart
  <2>4. k \in 1 .. i
    OBVIOUS
  <2>5. IsValue(a, i + 1) <=> (i + 1 - k) % 2 = 1
    BY <2>3, <2>4, ValueAfterRun, Zenon
  <2>6. IsValue(a, i) <=> (i - k) % 2 = 1
    <3>1. IsValue(a, (i - 1) + 1) <=> ((i - 1) + 1 - k) % 2 = 1
      BY <2>1, <2>2, ValueAfterRun, Zenon
    <3> QED BY <1>1, <3>1
  <2>7. (i + 1 - k) % 2 = 1 <=> ~((i - k) % 2 = 1)
    OBVIOUS
  <2> QED BY <1>5, <2>5, <2>6, <2>7, Zenon
<1> QED BY <1>3, <1>4, <1>5

\* After n arguments the loop is at an option or a word, not behind a "--".
Clear(a, n) ==
  /\ \A j \in 1 .. n : a[j].kind = "--" => IsValue(a, j)
  /\ ~IsValue(a, n + 1)

LEMMA ClearStart == \A a : Clear(a, 0)
BY FirstIsOwn DEF Clear

\* The loop reads one argument that is neither -f nor "--".
LEMMA ClearOne ==
  ASSUME NEW a, NEW n \in Nat, Clear(a, n), a[n+1].kind # "format", a[n+1].kind # "--"
  PROVE  Clear(a, n + 1)
<1>1. ~IsValue(a, n + 1 + 1)
  BY ValueStep
<1>2. \A j \in 1 .. n + 1 : j \in 1 .. n \/ j = n + 1
  OBVIOUS
<1> QED BY <1>1, <1>2, Zenon DEF Clear

\* The loop reads -f and its value.
LEMMA ClearTwo ==
  ASSUME NEW a, NEW n \in Nat, Clear(a, n), a[n+1].kind = "format"
  PROVE  Clear(a, n + 2) /\ IsValue(a, n + 2)
<1>1. n + 1 + 1 = n + 2 /\ n + 2 + 1 = n + 1 + 1 + 1
  OBVIOUS
<1>2. IsValue(a, n + 2)
  <2>1. IsValue(a, n + 1 + 1)
    <3>1. n + 1 \in Nat /\ n + 1 >= 1
      OBVIOUS
    <3> QED BY <3>1, ValueStep DEF Clear
  <2> QED BY <1>1, <2>1
<1>3. ~IsValue(a, n + 2 + 1)
  <2>1. n + 2 \in Nat /\ n + 2 >= 1
    OBVIOUS
  <2> QED BY <1>2, <2>1, ValueStep
<1>4. \A j \in 1 .. n + 2 : j \in 1 .. n \/ j = n + 1 \/ j = n + 2
  OBVIOUS
<1> QED BY <1>2, <1>3, <1>4, Zenon DEF Clear

-----------------------------------------------------------------------------
(* What the loop knows after n arguments.                                  *)

UpTo(S, n) == {i \in S : i <= n}

\* The positions behind a "--" are words and no options.
LEMMA PositionsAre ==
  ASSUME NEW a \in Seq(Tokens)
  PROVE  /\ Plain(a) \subseteq 1 .. Len(a) /\ Own(a) \subseteq 1 .. Len(a)
         /\ Words(a) \subseteq 1 .. Len(a) /\ Len(a) \in Nat
         /\ UpTo(Own(a), 0) = {} /\ UpTo(Words(a), 0) = {}
         /\ UpTo(Own(a), Len(a)) = Own(a) /\ UpTo(Words(a), Len(a)) = Words(a)
<1>1. /\ Plain(a) \subseteq 1 .. Len(a) /\ Own(a) \subseteq 1 .. Len(a)
      /\ Words(a) \subseteq 1 .. Len(a)
  BY Zenon DEF Plain, Own, Words
<1>2. Len(a) \in Nat
  OBVIOUS
<1>3. \A i \in 1 .. Len(a) : i <= Len(a) /\ ~(i <= 0)
  BY <1>2
<1> QED BY <1>1, <1>2, <1>3, Zenon DEF UpTo

\* The arguments up to a clear position.
LEMMA ClearPositions ==
  ASSUME NEW a \in Seq(Tokens), NEW n \in Nat, Clear(a, n), n < Len(a)
  PROVE  /\ \A i \in 1 .. n : i \in Plain(a)
         /\ n + 1 \in Words(a) <=> a[n+1].kind = "word"
         /\ a[n+1].kind # "--" => n + 1 \in Own(a)
         /\ a[n+1].kind = "--" => \A i \in n + 1 .. Len(a) : i \notin Plain(a)
<1>1. Len(a) \in Nat /\ \A i \in 1 .. n + 1 : i \in 1 .. Len(a)
  OBVIOUS
<1>2. \A i \in 1 .. n : \A j \in 1 .. i : j \in 1 .. n
  OBVIOUS
<1>3. \A i \in 1 .. n : i \in Plain(a)
  <2>1. \A i \in 1 .. n : i \in 1 .. Len(a)
    BY <1>1
  <2> QED BY <1>2, <2>1, Zenon DEF Plain, Clear
<1>4. n + 1 \in 1 .. Len(a) /\ \A j \in 1 .. n + 1 : j \in 1 .. n \/ j = n + 1
  BY <1>1
<1>5. a[n+1].kind # "--" => n + 1 \in Own(a)
  BY <1>4, Zenon DEF Own, Plain, Clear
<1>6. n + 1 \in Words(a) <=> a[n+1].kind = "word"
  <2>1. n + 1 \in Words(a) <=>
          \/ n + 1 \in Own(a) /\ a[n+1].kind = "word"
          \/ \E j \in 1 .. n + 1 - 1 : j \notin Plain(a)
    BY <1>4 DEF Words
  <2>2. 1 .. n + 1 - 1 = 1 .. n
    OBVIOUS
  <2>3. n + 1 \in Words(a) <=> (n + 1 \in Own(a) /\ a[n+1].kind = "word")
    BY <1>3, <2>1, <2>2, Zenon
  <2> QED BY <1>5, <2>3
<1>7. ASSUME a[n+1].kind = "--", NEW i \in n + 1 .. Len(a) PROVE i \notin Plain(a)
  <2>1. n + 1 \in 1 .. i
    OBVIOUS
  <2> QED BY <1>7, <2>1, Zenon DEF Plain, Clear
<1> QED BY <1>3, <1>5, <1>6, <1>7, Zenon

\* Reading an argument that is neither -f nor "--", -f with its value, and "--".
LEMMA ReadOne ==
  ASSUME NEW a \in Seq(Tokens), NEW n \in Nat, Clear(a, n), n < Len(a), a[n+1].kind # "--"
  PROVE  /\ UpTo(Own(a), n + 1) = UpTo(Own(a), n) \cup {n + 1} /\ n + 1 \in Own(a)
         /\ a[n+1].kind = "word" => UpTo(Words(a), n + 1) = UpTo(Words(a), n) \cup {n + 1}
         /\ a[n+1].kind # "word" => UpTo(Words(a), n + 1) = UpTo(Words(a), n)
<1>1. \A i \in 1 .. Len(a) : i <= n + 1 <=> (i <= n \/ i = n + 1)
  OBVIOUS
<1>2. Own(a) \subseteq 1 .. Len(a) /\ Words(a) \subseteq 1 .. Len(a)
  BY PositionsAre
<1>3. n + 1 \in Own(a) /\ (n + 1 \in Words(a) <=> a[n+1].kind = "word")
  BY ClearPositions
<1>4. n + 1 <= n + 1
  OBVIOUS
<1> QED BY <1>1, <1>2, <1>3, <1>4, Zenon DEF UpTo

LEMMA ReadTwo ==
  ASSUME NEW a \in Seq(Tokens), NEW n \in Nat, Clear(a, n), n + 1 < Len(a), a[n+1].kind = "format"
  PROVE  /\ UpTo(Own(a), n + 2) = UpTo(Own(a), n) \cup {n + 1} /\ n + 1 \in Own(a)
         /\ UpTo(Words(a), n + 2) = UpTo(Words(a), n)
<1>1. Len(a) \in Nat /\ n < Len(a) /\ n + 2 \in 1 .. Len(a)
  OBVIOUS
<1>2. /\ UpTo(Own(a), n + 1) = UpTo(Own(a), n) \cup {n + 1} /\ n + 1 \in Own(a)
      /\ UpTo(Words(a), n + 1) = UpTo(Words(a), n)
  BY <1>1, ReadOne
<1>3. IsValue(a, n + 2)
  BY ClearTwo
<1>4. n + 2 \notin Own(a)
  BY <1>3, Zenon DEF Own
<1>5. n + 2 \notin Words(a)
  <2>1. \A i \in 1 .. n : i \in Plain(a)
    BY <1>1, ClearPositions
  <2>2. n + 1 \in Plain(a)
    BY <1>2, Zenon DEF Own
  <2>3. \A j \in 1 .. n + 2 - 1 : j \in 1 .. n \/ j = n + 1
    OBVIOUS
  <2> QED BY <1>4, <2>1, <2>2, <2>3 DEF Words
<1>6. \A i \in 1 .. Len(a) : i # n + 2 => (i <= n + 2 <=> i <= n + 1)
  OBVIOUS
<1>7. UpTo(Own(a), n + 2) = UpTo(Own(a), n + 1) /\ UpTo(Words(a), n + 2) = UpTo(Words(a), n + 1)
  BY <1>4, <1>5, <1>6, PositionsAre, Zenon DEF UpTo
<1> QED BY <1>2, <1>7, Zenon

LEMMA ReadDashes ==
  ASSUME NEW a \in Seq(Tokens), NEW n \in Nat, Clear(a, n), n < Len(a), a[n+1].kind = "--"
  PROVE  /\ UpTo(Own(a), Len(a)) = UpTo(Own(a), n)
         /\ UpTo(Words(a), Len(a)) = UpTo(Words(a), n) \cup n + 2 .. Len(a)
<1>1. \A i \in 1 .. Len(a) : i <= Len(a) /\ (i <= n \/ i \in n + 1 .. Len(a))
  OBVIOUS
<1>2. Own(a) \subseteq 1 .. Len(a) /\ Words(a) \subseteq 1 .. Len(a)
  BY PositionsAre
<1>3. \A i \in n + 1 .. Len(a) : i \notin Plain(a)
  BY ClearPositions
<1>4. \A i \in n + 1 .. Len(a) : i \notin Own(a)
  BY <1>3, Zenon DEF Own
<1>5. UpTo(Own(a), Len(a)) = UpTo(Own(a), n)
  BY <1>1, <1>2, <1>4, Zenon DEF UpTo
<1>6. n + 1 \notin Words(a)
  BY ClearPositions
<1>7. ASSUME NEW i \in n + 2 .. Len(a) PROVE i \in Words(a)
  <2>1. i \in 1 .. Len(a) /\ n + 1 \in 1 .. i - 1 /\ n + 1 \in n + 1 .. Len(a)
    OBVIOUS
  <2> QED BY <1>3, <2>1, Zenon DEF Words
<1>8. \A i \in n + 1 .. Len(a) : i = n + 1 \/ i \in n + 2 .. Len(a)
  OBVIOUS
<1>9. \A i \in n + 2 .. Len(a) : i <= Len(a)
  OBVIOUS
<1>10. UpTo(Words(a), Len(a)) = UpTo(Words(a), n) \cup n + 2 .. Len(a)
  BY <1>1, <1>2, <1>6, <1>7, <1>8, <1>9, Zenon DEF UpTo
<1> QED BY <1>5, <1>10

\* The loop's variables, for the own arguments S and the words W read so far.
SetsFormat(a, i) == a[i].kind \in {"format", "format="}
FormatBy(a, i) == IF a[i].kind = "format" THEN TextOf(a[i+1]) ELSE a[i].text

NoUsageError(a, S) == \A i \in S : a[i].kind # "option" /\ ~(a[i].kind = "format" /\ i = Len(a))

HelpIs(a, S, fs) == "help" \in fs <=> \E i \in S : a[i].kind = "flag" /\ a[i].text = "help"

FormatIs(a, S, fm) ==
  \/ fm = "default" /\ \A i \in S : ~SetsFormat(a, i)
  \/ \E i \in S : /\ SetsFormat(a, i) /\ fm = FormatBy(a, i)
                  /\ \A j \in S : SetsFormat(a, j) => j <= i

WordsAre(a, W, ps) ==
  \/ W = {} /\ ps = <<>>
  \/ \E i \in W : W = {i} /\ ps = <<a[i]>>
  \/ (\E i, j \in W : i # j) /\ Len(ps) > 1

\* One more argument of its own, p.
LEMMA OneMore ==
  ASSUME NEW a, NEW S, NEW p \in Nat, \A i \in S : i \in Nat /\ i < p, NEW fs, NEW fm,
         NoUsageError(a, S), HelpIs(a, S, fs), FormatIs(a, S, fm)
  PROVE  /\ a[p].kind # "option" /\ ~(a[p].kind = "format" /\ p = Len(a))
              => NoUsageError(a, S \cup {p})
         /\ a[p].kind = "flag" => HelpIs(a, S \cup {p}, fs \cup {a[p].text})
         /\ a[p].kind # "flag" => HelpIs(a, S \cup {p}, fs)
         /\ SetsFormat(a, p) => FormatIs(a, S \cup {p}, FormatBy(a, p))
         /\ ~SetsFormat(a, p) => FormatIs(a, S \cup {p}, fm)
<1>1. \A i \in S \cup {p} : i <= p
  OBVIOUS
<1>2. a[p].kind # "option" /\ ~(a[p].kind = "format" /\ p = Len(a)) => NoUsageError(a, S \cup {p})
  BY Zenon DEF NoUsageError
<1>3. a[p].kind = "flag" => HelpIs(a, S \cup {p}, fs \cup {a[p].text})
  BY Zenon DEF HelpIs
<1>4. a[p].kind # "flag" => HelpIs(a, S \cup {p}, fs)
  BY Zenon DEF HelpIs
<1>5. SetsFormat(a, p) => FormatIs(a, S \cup {p}, FormatBy(a, p))
  BY <1>1, Zenon DEF FormatIs
<1>6. ~SetsFormat(a, p) => FormatIs(a, S \cup {p}, fm)
  BY Zenon DEF FormatIs
<1> QED BY <1>2, <1>3, <1>4, <1>5, <1>6

\* One more word, and the words behind "--".
LEMMA OneMoreWord ==
  ASSUME NEW a, NEW W, NEW p, p \notin W, NEW ps \in Seq(Tokens), a[p] \in Tokens, WordsAre(a, W, ps)
  PROVE  WordsAre(a, W \cup {p}, Append(ps, a[p]))
<1>1. Len(Append(ps, a[p])) = Len(ps) + 1 /\ Len(ps) \in Nat
  OBVIOUS
<1>2. CASE W = {} /\ ps = <<>>
  BY <1>2 DEF WordsAre
<1>3. CASE \E i \in W : W = {i} /\ ps = <<a[i]>>
  <2>1. Len(ps) = 1
    BY <1>3
  <2>2. Len(Append(ps, a[p])) > 1
    BY <1>1, <2>1
  <2>3. \E i, j \in W \cup {p} : i # j
    <3>1. PICK i \in W : W = {i}
      BY <1>3, Zenon
    <3>2. i \in W \cup {p} /\ p \in W \cup {p} /\ i # p
      OBVIOUS
    <3> QED BY <3>2, Zenon
  <2> QED BY <2>2, <2>3, Zenon DEF WordsAre
<1>4. CASE (\E i, j \in W : i # j) /\ Len(ps) > 1
  <2>1. Len(Append(ps, a[p])) > 1
    BY <1>1, <1>4
  <2>2. \E i, j \in W \cup {p} : i # j
    BY <1>4, Zenon
  <2> QED BY <2>1, <2>2, Zenon DEF WordsAre
<1> QED BY <1>2, <1>3, <1>4 DEF WordsAre

LEMMA MoreWords ==
  ASSUME NEW a \in Seq(Tokens), NEW W, NEW m \in Nat, \A i \in W : i \in Nat /\ i <= m,
         NEW ps \in Seq(Tokens), NEW r \in Seq(Tokens), Len(a) = m + Len(r),
         \A i \in 1 .. Len(r) : r[i] = a[m + i], WordsAre(a, W, ps)
  PROVE  WordsAre(a, W \cup m + 1 .. Len(a), ps \o r)
<1>1. PICK k \in Nat : k = Len(r)
  OBVIOUS
<1>2. Len(ps \o r) = Len(ps) + k /\ Len(ps) \in Nat
  BY <1>1
<1>3. CASE k = 0
  <2>1. m + 1 .. Len(a) = {}
    <3>1. Len(a) = m /\ m + 1 .. m = {}
      BY <1>1, <1>3
    <3> QED BY <3>1, Zenon
  <2>2. r = <<>>
    BY <1>1, <1>3, EmptySeq
  <2>3. ps \o r = ps
    BY <2>2, ConcatEmptySeq, Zenon
  <2>4. W \cup m + 1 .. Len(a) = W
    BY <2>1
  <2> QED BY <2>3, <2>4
<1>4. CASE k = 1
  <2>1. m + 1 .. Len(a) = {m + 1}
    <3>1. Len(a) = m + 1 /\ m + 1 .. m + 1 = {m + 1}
      BY <1>1, <1>4
    <3> QED BY <3>1, Zenon
  <2>2. r[1] = a[m + 1] /\ a[m + 1] \in Tokens
    BY <1>1, <1>4
  <2>3. ps \o r = Append(ps, a[m + 1])
    <3>1. ps \o r \in Seq(Tokens) /\ Append(ps, a[m + 1]) \in Seq(Tokens)
      BY <2>2
    <3>2. Len(ps \o r) = Len(Append(ps, a[m + 1])) /\ Len(ps \o r) = Len(ps) + 1
      BY <1>2, <1>4, <2>2
    <3>3. ASSUME NEW i \in 1 .. Len(ps) + 1 PROVE (ps \o r)[i] = Append(ps, a[m + 1])[i]
      BY <1>1, <1>2, <1>4, <2>2
    <3> QED BY <3>1, <3>2, <3>3, SeqEqual
  <2>4. m + 1 \notin W /\ a[m + 1] \in Tokens
    BY <2>2
  <2>5. WordsAre(a, W \cup {m + 1}, Append(ps, a[m + 1]))
    BY <2>4, OneMoreWord
  <2> QED BY <2>1, <2>3, <2>5
<1>5. CASE k > 1
  <2>1. Len(ps \o r) > 1
    BY <1>2, <1>5
  <2>2. m + 1 \in m + 1 .. Len(a) /\ m + 2 \in m + 1 .. Len(a) /\ m + 1 # m + 2
    BY <1>1, <1>5
  <2>3. \E i, j \in W \cup m + 1 .. Len(a) : i # j
    BY <2>2, Zenon
  <2> QED BY <2>1, <2>3, Zenon DEF WordsAre
<1> QED BY <1>3, <1>4, <1>5

-----------------------------------------------------------------------------
(* What the whole list calls for.                                          *)

\* The loop's variables after the whole list are what the list asks for.
LEMMA WholeList ==
  ASSUME NEW a \in Seq(Tokens), NEW fs, NEW fm,
         NoUsageError(a, Own(a)), HelpIs(a, Own(a), fs), FormatIs(a, Own(a), fm)
  PROVE  ~UsageError(a) /\ ("help" \in fs <=> WantsHelp(a)) /\ fm = WantedFormat(a)
<1>1. ~UsageError(a)
  BY Zenon DEF NoUsageError, UsageError
<1>2. "help" \in fs <=> WantsHelp(a)
  BY Zenon DEF HelpIs, WantsHelp
<1>3. Setters(a) = {i \in Own(a) : SetsFormat(a, i)}
  BY Zenon DEF Setters, SetsFormat
<1>4. CASE fm = "default" /\ \A i \in Own(a) : ~SetsFormat(a, i)
  <2>1. Setters(a) = {}
    BY <1>3, <1>4, Zenon
  <2>2. fm = WantedFormat(a)
    BY <1>4, <2>1, Zenon DEF WantedFormat
  <2> QED BY <1>1, <1>2, <2>2
<1>5. ASSUME NEW i \in Own(a), SetsFormat(a, i), fm = FormatBy(a, i),
             \A j \in Own(a) : SetsFormat(a, j) => j <= i
      PROVE  fm = WantedFormat(a)
  <2>1. i \in Setters(a) /\ \A j \in Setters(a) : j <= i
    BY <1>3, <1>5, Zenon
  <2>2. PICK l : l = CHOOSE k \in Setters(a) : \A j \in Setters(a) : j <= k
    OBVIOUS
  <2>3. l \in Setters(a) /\ \A j \in Setters(a) : j <= l
    BY <2>1, <2>2, Zenon
  <2>4. l = i
    <3>1. l <= i /\ i <= l
      BY <2>1, <2>3, Zenon
    <3>2. l \in Nat /\ i \in Nat
      BY <1>3, <2>1, <2>3, PositionsAre
    <3> QED BY <3>1, <3>2
  <2>5. WantedFormat(a) = FormatBy(a, l)
    BY <2>1, <2>2 DEF WantedFormat, FormatBy
  <2> QED BY <1>5, <2>4, <2>5, Zenon
<1> QED BY <1>1, <1>2, <1>4, <1>5, Zenon DEF FormatIs

\* The exit codes, case by case.
LEMMA CodesOf ==
  ASSUME NEW a
  PROVE  /\ UsageError(a) => ExitCodes(a) = {2}
         /\ ~UsageError(a) /\ WantsHelp(a) => ExitCodes(a) = {0}
         /\ ~UsageError(a) /\ ~WantsHelp(a) /\ WantedFormat(a) \notin Formats => ExitCodes(a) = {1, 2}
<1>1. UsageError(a) => ExitCodes(a) = {2}
  BY DEF ExitCodes, FormatError
<1>2. ~UsageError(a) /\ WantsHelp(a) => ExitCodes(a) = {0}
  BY DEF ExitCodes, FormatError
<1>3. ~UsageError(a) /\ ~WantsHelp(a) /\ WantedFormat(a) \notin Formats => ExitCodes(a) = {1, 2}
  BY DEF ExitCodes, FormatError
<1> QED BY <1>1, <1>2, <1>3

LEMMA CodesOfWords ==
  ASSUME NEW a, NEW ps, ~UsageError(a), ~WantsHelp(a), WantedFormat(a) \in Formats,
         WordsAre(a, Words(a), ps)
  PROVE  /\ ps = <<>> => ExitCodes(a) = {0, 1} /\ Words(a) = {}
         /\ Len(ps) = 1 => /\ Words(a) # {}
                           /\ ExitCodes(a) = IF TextOf(ps[1]) = "ulid" THEN {0} ELSE {1}
         /\ Len(ps) > 1 => ExitCodes(a) = {2} /\ Words(a) # {}
<1> DEFINE C == CASE Words(a) = {} -> {0, 1}
                  [] \E i \in Words(a) : Words(a) = {i} ->
                       IF TextOf(a[CHOOSE i \in Words(a) : TRUE]) = "ulid" THEN {0} ELSE {1}
                  [] OTHER -> {2}
<1>1. ExitCodes(a) = C
  BY DEF ExitCodes, FormatError
<1>2. CASE Words(a) = {} /\ ps = <<>>
  <2>1. ~(\E i \in Words(a) : Words(a) = {i})
    BY <1>2
  <2>2. C = {0, 1}
    BY <1>2, <2>1
  <2> QED BY <1>1, <1>2, <2>2
<1>3. ASSUME NEW i \in Words(a), Words(a) = {i}, ps = <<a[i]>>
      PROVE  /\ Len(ps) = 1 /\ Words(a) # {} /\ ps # <<>>
             /\ ExitCodes(a) = IF TextOf(ps[1]) = "ulid" THEN {0} ELSE {1}
  <2>1. (CHOOSE j \in Words(a) : TRUE) = i
    BY <1>3
  <2>2. C = IF TextOf(a[i]) = "ulid" THEN {0} ELSE {1}
    <3>1. Words(a) # {} /\ \E j \in Words(a) : Words(a) = {j}
      BY <1>3
    <3>2. C = IF TextOf(a[CHOOSE j \in Words(a) : TRUE]) = "ulid" THEN {0} ELSE {1}
      BY <3>1
    <3> QED BY <2>1, <3>2
  <2> QED BY <1>1, <1>3, <2>2
<1>4. CASE (\E i, j \in Words(a) : i # j) /\ Len(ps) > 1
  <2>1. Words(a) # {} /\ ~(\E i \in Words(a) : Words(a) = {i})
    BY <1>4
  <2>2. C = {2}
    BY <2>1
  <2>3. ps # <<>>
    BY <1>4
  <2>4. ExitCodes(a) = {2}
    BY <1>1, <2>2, Zenon
  <2> HIDE DEF C
  <2>5. Len(ps) # 1
    <3>1. ~(1 > 1)
      OBVIOUS
    <3> QED BY <1>4, <3>1, Zenon
  <2> QED BY <1>4, <2>1, <2>3, <2>4, <2>5, Zenon
<1>5. CASE \E i \in Words(a) : Words(a) = {i} /\ ps = <<a[i]>>
  <2>1. /\ Len(ps) = 1 /\ Words(a) # {} /\ ps # <<>>
        /\ ExitCodes(a) = IF TextOf(ps[1]) = "ulid" THEN {0} ELSE {1}
    BY <1>3, <1>5, Zenon
  <2>2. ~(Len(ps) > 1)
    BY <2>1
  <2> QED BY <2>1, <2>2, Zenon
<1> QED BY <1>2, <1>4, <1>5, Zenon DEF WordsAre

-----------------------------------------------------------------------------
(* The argument loop.                                                      *)

\* r is what is left of the list a.
Suffix(a, r) ==
  /\ a \in Seq(Tokens) /\ r \in Seq(Tokens) /\ Len(r) <= Len(a)
  /\ \A i \in 1 .. Len(r) : r[i] = a[Len(a) - Len(r) + i]

\* The loop's variables after n arguments.
Loop(a, n, fs, fm, ps) ==
  /\ NoUsageError(a, UpTo(Own(a), n)) /\ HelpIs(a, UpTo(Own(a), n), fs)
  /\ FormatIs(a, UpTo(Own(a), n), fm) /\ WordsAre(a, UpTo(Words(a), n), ps)

ArgsRead(a, r, fs, fm, ps) ==
  /\ Suffix(a, r) /\ ps \in Seq(Tokens)
  /\ r # <<>> => Clear(a, Len(a) - Len(r))
  /\ Loop(a, Len(a) - Len(r), fs, fm, ps)

\* Leaving out the first k of the arguments that are left.
RestIs(a, r, k) ==
  /\ Suffix(a, SubSeq(r, k + 1, Len(r)))
  /\ Len(a) - Len(SubSeq(r, k + 1, Len(r))) = Len(a) - Len(r) + k

LEMMA Skipped ==
  ASSUME NEW a, NEW r, Suffix(a, r), NEW k \in 1 .. Len(r)
  PROVE  RestIs(a, r, k)
<1> DEFINE q == SubSeq(r, k + 1, Len(r))
<1>1. PICK m \in Nat, l \in Nat : m = Len(r) /\ l = Len(a) /\ m <= l /\ k \in 1 .. m
  <2>1. Len(r) \in Nat /\ Len(a) \in Nat
    BY LenProperties DEF Suffix
  <2> QED BY <2>1 DEF Suffix
<1>2. \A i \in k + 1 .. m : r[i] \in Tokens
  <2>1. \A i \in 1 .. m : r[i] \in Tokens
    BY <1>1, ElementOfSeq DEF Suffix
  <2> QED BY <1>1, <2>1
<1>3. q = SubSeq(r, k + 1, m)
  BY <1>1
<1> HIDE DEF q
<1>4. /\ q \in Seq(Tokens) /\ Len(q) = IF k + 1 <= m THEN m - (k + 1) + 1 ELSE 0
      /\ \A i \in 1 .. m - (k + 1) + 1 : q[i] = r[k + 1 + i - 1]
  <2>1. k + 1 \in Int /\ m \in Int
    BY <1>1
  <2> QED BY <1>2, <1>3, <2>1, SubSeqProperties
<1>5. Len(q) = m - k
  BY <1>1, <1>4
<1>6. \A i \in 1 .. m - k : q[i] = a[l - (m - k) + i]
  <2>1. ASSUME NEW i \in 1 .. m - k PROVE q[i] = a[l - (m - k) + i]
    <3>1. /\ k + 1 + i - 1 = k + i /\ k + i \in 1 .. m /\ l - m + (k + i) = l - (m - k) + i
          /\ i \in 1 .. m - (k + 1) + 1
      BY <1>1
    <3>2. r[k + i] = a[l - m + (k + i)]
      BY <1>1, <3>1 DEF Suffix
    <3>3. q[i] = r[k + i]
      BY <1>4, <3>1
    <3> QED BY <3>1, <3>2, <3>3
  <2> QED BY <2>1
<1>7. Suffix(a, q)
  <2>1. Len(q) <= l
    BY <1>1, <1>5
  <2> QED BY <1>1, <1>4, <1>5, <1>6, <2>1 DEF Suffix
<1>8. l - Len(q) = l - m + k
  BY <1>1, <1>5
<1> QED BY <1>1, <1>7, <1>8 DEF q, RestIs

\* The loop is at argument n + 1.
At(a, r, n, fs, fm, ps) ==
  /\ n = Len(a) - Len(r) /\ n < Len(a) /\ Len(r) = Len(a) - n
  /\ Head(r) = a[n+1] /\ Clear(a, n) /\ Loop(a, n, fs, fm, ps)
  /\ \A i \in 1 .. Len(r) : r[i] = a[n+i]

LEMMA AtArgument ==
  ASSUME NEW a, NEW r, NEW fs, NEW fm, NEW ps, ArgsRead(a, r, fs, fm, ps), r # <<>>
  PROVE  \E n \in Nat : At(a, r, n, fs, fm, ps)
<1>1. /\ a \in Seq(Tokens) /\ r \in Seq(Tokens) /\ Len(r) <= Len(a)
      /\ \A i \in 1 .. Len(r) : r[i] = a[Len(a) - Len(r) + i]
  BY Zenon DEF ArgsRead, Suffix
<1>2. PICK l \in Nat, m \in Nat : l = Len(a) /\ m = Len(r) /\ m <= l /\ m # 0
  <2>1. Len(a) \in Nat /\ Len(r) \in Nat /\ Len(r) # 0
    BY <1>1, EmptySeq, LenProperties
  <2> QED BY <1>1, <2>1
<1>3. PICK n \in Nat : n = l - m
  BY <1>2
<1>4. n < l /\ m = l - n /\ 1 \in 1 .. m
  BY <1>2, <1>3
<1>5. n = Len(a) - Len(r) /\ n < Len(a) /\ Len(r) = Len(a) - n
  BY <1>2, <1>3, <1>4
<1>6. \A i \in 1 .. Len(r) : r[i] = a[n+i]
  BY <1>1, <1>5
<1>7. Head(r) = a[n+1]
  <2>1. r[1] = a[n+1]
    BY <1>2, <1>4, <1>6
  <2>2. Head(r) = r[1]
    BY <1>1
  <2> QED BY <2>1, <2>2
<1>8. Clear(a, n) /\ Loop(a, n, fs, fm, ps)
  BY <1>5, Zenon DEF ArgsRead
<1> QED BY <1>5, <1>6, <1>7, <1>8, Zenon DEF At

\* The positions read so far are before the one the loop is at.
LEMMA SoFar ==
  ASSUME NEW a \in Seq(Tokens), NEW n \in Nat
  PROVE  /\ \A i \in UpTo(Own(a), n) : i \in Nat /\ i < n + 1
         /\ \A i \in UpTo(Words(a), n) : i \in Nat /\ i < n + 1
<1>1. \A i \in 1 .. Len(a) : i <= n => i \in Nat /\ i < n + 1
  OBVIOUS
<1> QED BY <1>1, PositionsAre, Zenon DEF UpTo

\* A flag, --format=... or a word is read.
LEMMA OneArgument ==
  ASSUME NEW a, NEW r, NEW fs, NEW fm, NEW ps, ArgsRead(a, r, fs, fm, ps), r # <<>>,
         Head(r).kind # "format", Head(r).kind # "--", Head(r).kind # "option",
         NEW fs2, fs2 = IF Head(r).kind = "flag" THEN fs \cup {Head(r).text} ELSE fs,
         NEW fm2, fm2 = IF Head(r).kind = "format=" THEN Head(r).text ELSE fm,
         NEW ps2, ps2 = IF Head(r).kind = "word" THEN Append(ps, Head(r)) ELSE ps
  PROVE  ArgsRead(a, SubSeq(r, 1 + 1, Len(r)), fs2, fm2, ps2)
<1>0. PICK n \in Nat : At(a, r, n, fs, fm, ps)
  BY AtArgument, Zenon
<1>1. /\ n = Len(a) - Len(r) /\ n < Len(a) /\ Len(r) = Len(a) - n
      /\ Head(r) = a[n+1] /\ Clear(a, n) /\ Loop(a, n, fs, fm, ps)
      /\ \A i \in 1 .. Len(r) : r[i] = a[n+i]
  BY <1>0, Zenon DEF At
<1>2. a \in Seq(Tokens) /\ r \in Seq(Tokens) /\ ps \in Seq(Tokens) /\ Suffix(a, r)
  BY Zenon DEF ArgsRead, Suffix
<1> DEFINE q == SubSeq(r, 1 + 1, Len(r))
           S == UpTo(Own(a), n)
           W == UpTo(Words(a), n)
<1>3. Suffix(a, q) /\ Len(a) - Len(q) = n + 1
  <2>1. 1 \in 1 .. Len(r)
    BY <1>1, <1>2
  <2>2. Suffix(a, q) /\ Len(a) - Len(q) = Len(a) - Len(r) + 1
    <3>1. RestIs(a, r, 1)
      BY <1>2, <2>1, Skipped, Zenon
    <3> QED BY <3>1, Zenon DEF RestIs
  <2> QED BY <1>1, <2>2
<1>4. Clear(a, n + 1)
  BY <1>1, ClearOne, Zenon
<1>5. /\ UpTo(Own(a), n + 1) = S \cup {n + 1}
      /\ a[n+1].kind = "word" => UpTo(Words(a), n + 1) = W \cup {n + 1}
      /\ a[n+1].kind # "word" => UpTo(Words(a), n + 1) = W
  <2>1. a[n+1].kind # "--"
    BY <1>1
  <2> QED BY <1>1, <1>2, <2>1, ReadOne, Zenon
<1>6. /\ \A i \in S : i \in Nat /\ i < n + 1
      /\ \A i \in W : i \in Nat /\ i < n + 1
      /\ n + 1 \in Nat /\ a[n+1] \in Tokens
  <2>1. n + 1 \in Nat /\ n + 1 \in 1 .. Len(a)
    BY <1>1, <1>2
  <2> QED BY <1>2, <2>1, SoFar, ElementOfSeq
<1>7. NoUsageError(a, S) /\ HelpIs(a, S, fs) /\ FormatIs(a, S, fm) /\ WordsAre(a, W, ps)
  BY <1>1, Zenon DEF Loop
<1> HIDE DEF q, S, W
<1>8. NoUsageError(a, S \cup {n + 1}) /\ HelpIs(a, S \cup {n + 1}, fs2) /\ FormatIs(a, S \cup {n + 1}, fm2)
  <2>1. SetsFormat(a, n + 1) <=> a[n+1].kind = "format="
    BY <1>1, Zenon DEF SetsFormat
  <2>2. a[n+1].kind = "format=" => FormatBy(a, n + 1) = a[n+1].text
    BY <1>1, Zenon DEF FormatBy
  <2>3. NoUsageError(a, S \cup {n + 1})
    BY <1>1, <1>6, <1>7, OneMore, Zenon
  <2>4. HelpIs(a, S \cup {n + 1}, fs2)
    <3>1. CASE a[n+1].kind = "flag"
      BY <1>1, <1>6, <1>7, <3>1, OneMore, Zenon
    <3>2. CASE a[n+1].kind # "flag"
      BY <1>1, <1>6, <1>7, <3>2, OneMore, Zenon
    <3> QED BY <3>1, <3>2
  <2>5. FormatIs(a, S \cup {n + 1}, fm2)
    <3>1. CASE a[n+1].kind = "format="
      <4>1. SetsFormat(a, n + 1) => FormatIs(a, S \cup {n + 1}, FormatBy(a, n + 1))
        BY <1>6, <1>7, OneMore, Zenon
      <4>2. fm2 = FormatBy(a, n + 1)
        BY <1>1, <2>2, <3>1, Zenon
      <4> QED BY <2>1, <3>1, <4>1, <4>2, Zenon
    <3>2. CASE a[n+1].kind # "format="
      BY <1>1, <1>6, <1>7, <2>1, <3>2, OneMore, Zenon
    <3> QED BY <3>1, <3>2
  <2> QED BY <2>3, <2>4, <2>5
<1>9. ps2 \in Seq(Tokens) /\ WordsAre(a, UpTo(Words(a), n + 1), ps2)
  <2>1. CASE a[n+1].kind = "word"
    <3>1. n + 1 \notin W
      BY <1>6
    <3>2. ps2 = Append(ps, a[n+1])
      BY <1>1, <2>1, Zenon
    <3>3. WordsAre(a, W \cup {n + 1}, ps2)
      BY <1>2, <1>6, <1>7, <3>1, <3>2, OneMoreWord, Zenon
    <3>4. ps2 \in Seq(Tokens)
      BY <1>2, <1>6, <3>2
    <3> QED BY <1>5, <2>1, <3>3, <3>4, Zenon
  <2>2. CASE a[n+1].kind # "word"
    BY <1>1, <1>2, <1>5, <1>7, <2>2, Zenon
  <2> QED BY <2>1, <2>2
<1>10. Loop(a, n + 1, fs2, fm2, ps2)
  BY <1>5, <1>8, <1>9, Zenon DEF Loop
<1>11. ArgsRead(a, q, fs2, fm2, ps2)
  BY <1>3, <1>4, <1>9, <1>10, Zenon DEF ArgsRead
<1> QED BY <1>11 DEF q

\* -f and its value are read.
LEMMA TwoArguments ==
  ASSUME NEW a, NEW r, NEW fs, NEW fm, NEW ps, ArgsRead(a, r, fs, fm, ps), r # <<>>,
         Head(r).kind = "format", Len(r) > 1
  PROVE  ArgsRead(a, SubSeq(r, 2 + 1, Len(r)), fs, TextOf(r[2]), ps)
<1>0. PICK n \in Nat : At(a, r, n, fs, fm, ps)
  BY AtArgument, Zenon
<1>1. /\ n = Len(a) - Len(r) /\ n < Len(a) /\ Len(r) = Len(a) - n
      /\ Head(r) = a[n+1] /\ Clear(a, n) /\ Loop(a, n, fs, fm, ps)
      /\ \A i \in 1 .. Len(r) : r[i] = a[n+i]
  BY <1>0, Zenon DEF At
<1>2. a \in Seq(Tokens) /\ r \in Seq(Tokens) /\ ps \in Seq(Tokens) /\ Suffix(a, r)
  BY Zenon DEF ArgsRead, Suffix
<1> DEFINE q == SubSeq(r, 2 + 1, Len(r))
           S == UpTo(Own(a), n)
<1>3. 2 \in 1 .. Len(r) /\ n + 1 < Len(a) /\ n + 1 # Len(a) /\ n + 1 \in Nat
  BY <1>1, <1>2
<1>4. Suffix(a, q) /\ Len(a) - Len(q) = n + 2
  <2>1. Suffix(a, q) /\ Len(a) - Len(q) = Len(a) - Len(r) + 2
    <3>1. RestIs(a, r, 2)
      BY <1>2, <1>3, Skipped, Zenon
    <3> QED BY <3>1, Zenon DEF RestIs
  <2> QED BY <1>1, <2>1
<1>5. Clear(a, n + 2)
  BY <1>1, ClearTwo, Zenon
<1>6. UpTo(Own(a), n + 2) = S \cup {n + 1} /\ UpTo(Words(a), n + 2) = UpTo(Words(a), n)
  BY <1>1, <1>2, <1>3, ReadTwo
<1>7. \A i \in S : i \in Nat /\ i < n + 1
  BY <1>2, SoFar
<1>8. NoUsageError(a, S) /\ HelpIs(a, S, fs) /\ FormatIs(a, S, fm) /\ WordsAre(a, UpTo(Words(a), n), ps)
  BY <1>1, Zenon DEF Loop
<1> HIDE DEF q, S
<1>9. FormatBy(a, n + 1) = TextOf(r[2]) /\ SetsFormat(a, n + 1)
  <2>1. r[2] = a[n + 2] /\ n + 1 + 1 = n + 2
    BY <1>1, <1>3
  <2> QED BY <1>1, <2>1, Zenon DEF FormatBy, SetsFormat
<1>10. /\ NoUsageError(a, S \cup {n + 1}) /\ HelpIs(a, S \cup {n + 1}, fs)
       /\ FormatIs(a, S \cup {n + 1}, TextOf(r[2]))
  <2>1. a[n+1].kind = "format" /\ a[n+1].kind # "option" /\ a[n+1].kind # "flag"
    BY <1>1
  <2> QED BY <1>3, <1>7, <1>8, <1>9, <2>1, OneMore, Zenon
<1>11. Loop(a, n + 2, fs, TextOf(r[2]), ps)
  BY <1>6, <1>8, <1>10, Zenon DEF Loop
<1>12. ArgsRead(a, q, fs, TextOf(r[2]), ps)
  BY <1>2, <1>4, <1>5, <1>11, Zenon DEF ArgsRead
<1> QED BY <1>12 DEF q

\* "--" and everything after it are read.
LEMMA DashesArgument ==
  ASSUME NEW a, NEW r, NEW fs, NEW fm, NEW ps, ArgsRead(a, r, fs, fm, ps), r # <<>>,
         Head(r).kind = "--"
  PROVE  ArgsRead(a, SubSeq(r, Len(r) + 1, Len(r)), fs, fm, ps \o Tail(r))
<1>0. PICK n \in Nat : At(a, r, n, fs, fm, ps)
  BY AtArgument, Zenon
<1>1. /\ n = Len(a) - Len(r) /\ n < Len(a) /\ Len(r) = Len(a) - n
      /\ Head(r) = a[n+1] /\ Clear(a, n) /\ Loop(a, n, fs, fm, ps)
      /\ \A i \in 1 .. Len(r) : r[i] = a[n+i]
  BY <1>0, Zenon DEF At
<1>2. a \in Seq(Tokens) /\ r \in Seq(Tokens) /\ ps \in Seq(Tokens) /\ Suffix(a, r)
  BY Zenon DEF ArgsRead, Suffix
<1> DEFINE q == SubSeq(r, Len(r) + 1, Len(r))
           t == Tail(r)
<1>3. Len(r) \in 1 .. Len(r) /\ Len(a) \in Nat /\ Len(r) \in Nat
  BY <1>1, <1>2
<1>4. Suffix(a, q) /\ Len(a) - Len(q) = Len(a)
  <2>1. Suffix(a, q) /\ Len(a) - Len(q) = Len(a) - Len(r) + Len(r)
    <3>1. RestIs(a, r, Len(r))
      BY <1>2, <1>3, Skipped, Zenon
    <3> QED BY <3>1, Zenon DEF RestIs
  <2> QED BY <1>3, <2>1
<1>5. q = <<>>
  <2>1. Len(r) < Len(r) + 1 /\ Len(r) \in Int /\ Len(r) + 1 \in Int
    BY <1>3
  <2> QED BY <2>1, SubSeqEmpty
<1>6. /\ t \in Seq(Tokens) /\ Len(t) = Len(r) - 1
      /\ \A i \in 1 .. Len(t) : t[i] = r[i + 1]
  BY <1>2, HeadTailProperties
<1> HIDE DEF q, t
<1>7. Len(a) = n + 1 + Len(t) /\ \A i \in 1 .. Len(t) : t[i] = a[n + 1 + i]
  <2>1. Len(a) = n + 1 + Len(t)
    BY <1>1, <1>3, <1>6
  <2>2. ASSUME NEW i \in 1 .. Len(t) PROVE t[i] = a[n + 1 + i]
    <3>1. i + 1 \in 1 .. Len(r) /\ n + (i + 1) = n + 1 + i
      BY <1>3, <1>6
    <3> QED BY <1>1, <1>6, <3>1
  <2> QED BY <2>1, <2>2
<1>8. /\ UpTo(Own(a), Len(a)) = UpTo(Own(a), n)
      /\ UpTo(Words(a), Len(a)) = UpTo(Words(a), n) \cup n + 2 .. Len(a)
  BY <1>1, <1>2, ReadDashes
<1>9. WordsAre(a, UpTo(Words(a), n) \cup n + 2 .. Len(a), ps \o t)
  <2>1. \A i \in UpTo(Words(a), n) : i \in Nat /\ i <= n + 1
    BY <1>2, SoFar
  <2>2. n + 1 \in Nat /\ n + 1 + 1 = n + 2
    OBVIOUS
  <2>3. WordsAre(a, UpTo(Words(a), n), ps)
    BY <1>1, Zenon DEF Loop
  <2>4. WordsAre(a, UpTo(Words(a), n) \cup n + 1 + 1 .. Len(a), ps \o t)
    BY <1>2, <1>6, <1>7, <2>1, <2>2, <2>3, MoreWords
  <2> QED BY <2>2, <2>4, Zenon
<1>10. Loop(a, Len(a), fs, fm, ps \o t)
  BY <1>1, <1>8, <1>9, Zenon DEF Loop
<1>11. ps \o t \in Seq(Tokens)
  BY <1>2, <1>6
<1>12. ArgsRead(a, q, fs, fm, ps \o t)
  BY <1>4, <1>5, <1>10, <1>11, Zenon DEF ArgsRead
<1> QED BY <1>12 DEF q, t

\* What the loop has found out when no argument is left.
AllRead(a, fs, fm, ps) ==
  /\ ~UsageError(a) /\ ("help" \in fs <=> WantsHelp(a)) /\ fm = WantedFormat(a)
  /\ WordsAre(a, Words(a), ps)

LEMMA AtEnd ==
  ASSUME NEW a, NEW r, NEW fs, NEW fm, NEW ps, ArgsRead(a, r, fs, fm, ps), r = <<>>
  PROVE  AllRead(a, fs, fm, ps)
<1>1. a \in Seq(Tokens)
  BY Zenon DEF ArgsRead, Suffix
<1>2. Len(a) - Len(r) = Len(a)
  <2>1. Len(r) = 0 /\ Len(a) \in Nat
    BY <1>1, EmptySeq, LenProperties
  <2> QED BY <2>1
<1>3. Loop(a, Len(a), fs, fm, ps)
  BY <1>2, Zenon DEF ArgsRead
<1>4. UpTo(Own(a), Len(a)) = Own(a) /\ UpTo(Words(a), Len(a)) = Words(a)
  BY <1>1, PositionsAre
<1>5. /\ NoUsageError(a, Own(a)) /\ HelpIs(a, Own(a), fs) /\ FormatIs(a, Own(a), fm)
      /\ WordsAre(a, Words(a), ps)
  BY <1>3, <1>4, Zenon DEF Loop
<1>6. ~UsageError(a) /\ ("help" \in fs <=> WantsHelp(a)) /\ fm = WantedFormat(a)
  BY <1>1, <1>5, WholeList, Zenon
<1> QED BY <1>5, <1>6, Zenon DEF AllRead

\* Nothing is read yet.
LEMMA AtStart ==
  ASSUME NEW a \in Seq(Tokens)
  PROVE  ArgsRead(a, a, {}, "default", <<>>)
<1>1. Len(a) \in Nat /\ Len(a) - Len(a) = 0 /\ \A i \in 1 .. Len(a) : 0 + i = i
  BY LenProperties
<1>2. Suffix(a, a)
  <2>1. Len(a) <= Len(a)
    BY <1>1
  <2> QED BY <1>1, <2>1, Zenon DEF Suffix
<1>3. Loop(a, 0, {}, "default", <<>>)
  <2>1. UpTo(Own(a), 0) = {} /\ UpTo(Words(a), 0) = {}
    BY PositionsAre
  <2>2. /\ NoUsageError(a, {}) /\ HelpIs(a, {}, {}) /\ FormatIs(a, {}, "default")
        /\ WordsAre(a, {}, <<>>)
    BY Zenon DEF NoUsageError, HelpIs, FormatIs, WordsAre
  <2> QED BY <2>1, <2>2, Zenon DEF Loop
<1>4. <<>> \in Seq(Tokens)
  OBVIOUS
<1> QED BY <1>1, <1>2, <1>3, <1>4, ClearStart, Zenon DEF ArgsRead

\* An option the loop does not know, or a -f at the end, is a usage error.
LEMMA BadArgument ==
  ASSUME NEW a, NEW r, NEW fs, NEW fm, NEW ps, ArgsRead(a, r, fs, fm, ps), r # <<>>,
         Head(r).kind = "option" \/ (Head(r).kind = "format" /\ Len(r) = 1)
  PROVE  UsageError(a)
<1>1. PICK n \in Nat : At(a, r, n, fs, fm, ps)
  BY AtArgument, Zenon
<1>2. a \in Seq(Tokens)
  BY Zenon DEF ArgsRead, Suffix
<1>3. /\ n < Len(a) /\ Len(r) = Len(a) - n /\ Head(r) = a[n+1] /\ Clear(a, n)
  BY <1>1, Zenon DEF At
<1>4. a[n+1].kind # "--"
  BY <1>3
<1>5. n + 1 \in Own(a)
  BY <1>2, <1>3, <1>4, ClearPositions, Zenon
<1>6. Len(r) = 1 => n + 1 = Len(a)
  BY <1>2, <1>3, LenProperties
<1> QED BY <1>3, <1>5, <1>6, Zenon DEF UsageError

-----------------------------------------------------------------------------
(* The inductive invariant: until the end the loop's variables are what    *)
(* the arguments read so far mean.                                         *)

EInv ==
  /\ pc \in {"args", "run", "print", "done"}
  /\ pc # "done" => ArgsRead(argv, args, flags, format, positionals)
  /\ pc \in {"run", "print"} => args = <<>> /\ "help" \notin flags /\ format \in Formats
  /\ pc = "print" => Len(positionals) = 1 /\ TextOf(positionals[1]) = "ulid"
  /\ ExitIsCalledFor

\* The program may end on the list a with code e and output o.
Result(a, e, o) ==
  e \in ExitCodes(a) /\ (o.to = "stdout" <=> e = 0 /\ ~WantsHelp(a) /\ Words(a) = {})

LEMMA Ends ==
  ASSUME NEW e, NEW o, Exit(e, o), Result(argv, e, o)
  PROVE  EInv'
<1>1. pc' = "done" /\ exit' = e /\ out' = o /\ argv' = argv
  BY Zenon DEF Exit
<1>2. ExitIsCalledFor'
  BY <1>1, Zenon DEF ExitIsCalledFor, Result
<1> QED BY <1>1, <1>2 DEF EInv

LEMMA UsageEnds ==
  ASSUME UsageError(argv), Exit(2, Message)
  PROVE  EInv'
<1>1. 2 \in ExitCodes(argv)
  BY CodesOf
<1>2. Message.to # "stdout" /\ 2 # 0
  BY DEF Message
<1>3. Result(argv, 2, Message)
  BY <1>1, <1>2, Zenon DEF Result
<1> QED BY <1>3, Ends, Zenon

\* The loop goes on.
LEMMA GoesOn ==
  ASSUME NEW k, GoOn(k), pc = "args",
         ArgsRead(argv, SubSeq(args, k + 1, Len(args)), flags', format', positionals')
  PROVE  EInv'
<1>1. pc' = "args" /\ argv' = argv /\ args' = SubSeq(args, k + 1, Len(args))
  BY Zenon DEF GoOn, Skip
<1>2. ArgsRead(argv', args', flags', format', positionals')
  BY <1>1, Zenon
<1>3. ExitIsCalledFor'
  BY <1>1 DEF ExitIsCalledFor
<1> QED BY <1>1, <1>2, <1>3 DEF EInv

LEMMA ExitInit == Init => EInv
<1> SUFFICES ASSUME Init PROVE EInv
  OBVIOUS
<1>1. argv \in Seq(Tokens)
  BY DEF Init
<1>2. ArgsRead(argv, args, flags, format, positionals)
  BY <1>1, AtStart, Zenon DEF Init
<1>3. pc = "args"
  BY DEF Init
<1> QED BY <1>2, <1>3 DEF EInv, ExitIsCalledFor

LEMMA ExitNext == EInv /\ [Next]_vars => EInv'
<1> SUFFICES ASSUME EInv, [Next]_vars PROVE EInv'
  OBVIOUS
<1> DEFINE A == ArgsRead(argv, args, flags, format, positionals)
<1>0. /\ pc = "args" => A
      /\ pc = "run" => A /\ args = <<>> /\ "help" \notin flags /\ format \in Formats
      /\ pc = "print" => /\ A /\ args = <<>> /\ "help" \notin flags /\ format \in Formats
                         /\ Len(positionals) = 1 /\ TextOf(positionals[1]) = "ulid"
  BY DEF EInv
<1> HIDE DEF A
<1>100. A /\ args = <<>> => AllRead(argv, flags, format, positionals)
  BY AtEnd, Zenon DEF A
<1>101. AllRead(argv, flags, format, positionals) /\ "help" \notin flags /\ format \in Formats =>
          /\ ~WantsHelp(argv)
          /\ positionals = <<>> => ExitCodes(argv) = {0, 1} /\ Words(argv) = {}
          /\ Len(positionals) = 1 =>
               /\ Words(argv) # {}
               /\ ExitCodes(argv) = IF TextOf(positionals[1]) = "ulid" THEN {0} ELSE {1}
          /\ Len(positionals) > 1 => ExitCodes(argv) = {2} /\ Words(argv) # {}
  BY CodesOfWords, Zenon DEF AllRead
<1>102. Message.to # "stdout"
  BY DEF Message
<1>1. CASE Flag
  <2>1. /\ pc = "args" /\ args # <<>> /\ Head(args).kind = "flag" /\ GoOn(1)
        /\ flags' = flags \cup {Head(args).text} /\ format' = format /\ positionals' = positionals
    BY <1>1, Zenon DEF Flag, Reading
  <2>2. A /\ Head(args).kind \notin {"format", "--", "option", "format=", "word"}
    BY <1>0, <2>1
  <2>3. ArgsRead(argv, SubSeq(args, 1 + 1, Len(args)), flags', format', positionals')
    BY <2>1, <2>2, OneArgument, Zenon DEF A
  <2> QED BY <2>1, <2>3, GoesOn, Zenon
<1>2. CASE FormatValue
  <2>1. /\ pc = "args" /\ args # <<>> /\ Head(args).kind = "format" /\ Len(args) > 1 /\ GoOn(2)
        /\ format' = TextOf(args[2]) /\ flags' = flags /\ positionals' = positionals
    BY <1>2, Zenon DEF FormatValue, Reading
  <2>2. A
    BY <1>0, <2>1
  <2>3. ArgsRead(argv, SubSeq(args, 2 + 1, Len(args)), flags', format', positionals')
    BY <2>1, <2>2, TwoArguments, Zenon DEF A
  <2> QED BY <2>1, <2>3, GoesOn, Zenon
<1>3. CASE FormatMissing
  <2>1. /\ pc = "args" /\ args # <<>> /\ Head(args).kind = "format" /\ Len(args) = 1
        /\ Exit(2, Message)
    BY <1>3, Zenon DEF FormatMissing, Reading
  <2>2. A
    BY <1>0, <2>1
  <2>3. UsageError(argv)
    BY <2>1, <2>2, BadArgument, Zenon DEF A
  <2> QED BY <2>1, <2>3, UsageEnds, Zenon
<1>4. CASE FormatEquals
  <2>1. /\ pc = "args" /\ args # <<>> /\ Head(args).kind = "format=" /\ GoOn(1)
        /\ format' = Head(args).text /\ flags' = flags /\ positionals' = positionals
    BY <1>4, Zenon DEF FormatEquals, Reading
  <2>2. A /\ Head(args).kind \notin {"format", "--", "option", "flag", "word"}
    BY <1>0, <2>1
  <2>3. ArgsRead(argv, SubSeq(args, 1 + 1, Len(args)), flags', format', positionals')
    BY <2>1, <2>2, OneArgument, Zenon DEF A
  <2> QED BY <2>1, <2>3, GoesOn, Zenon
<1>5. CASE Dashes
  <2>1. /\ pc = "args" /\ args # <<>> /\ Head(args).kind = "--" /\ GoOn(Len(args))
        /\ positionals' = positionals \o Tail(args) /\ flags' = flags /\ format' = format
    BY <1>5, Zenon DEF Dashes, Reading, AfterDashes
  <2>2. A
    BY <1>0, <2>1
  <2>3. ArgsRead(argv, SubSeq(args, Len(args) + 1, Len(args)), flags', format', positionals')
    BY <2>1, <2>2, DashesArgument, Zenon DEF A
  <2> QED BY <2>1, <2>3, GoesOn, Zenon
<1>6. CASE UnknownOption
  <2>1. /\ pc = "args" /\ args # <<>> /\ Head(args).kind = "option" /\ Exit(2, Message)
    BY <1>6, Zenon DEF UnknownOption, Reading
  <2>2. A
    BY <1>0, <2>1
  <2>3. UsageError(argv)
    BY <2>1, <2>2, BadArgument, Zenon DEF A
  <2> QED BY <2>1, <2>3, UsageEnds, Zenon
<1>7. CASE Positional
  <2>1. /\ pc = "args" /\ args # <<>> /\ Head(args).kind = "word" /\ GoOn(1)
        /\ positionals' = Append(positionals, Head(args)) /\ flags' = flags /\ format' = format
    BY <1>7, Zenon DEF Positional, Reading
  <2>2. A /\ Head(args).kind \notin {"format", "--", "option", "flag", "format="}
    BY <1>0, <2>1
  <2>3. ArgsRead(argv, SubSeq(args, 1 + 1, Len(args)), flags', format', positionals')
    BY <2>1, <2>2, OneArgument, Zenon DEF A
  <2> QED BY <2>1, <2>3, GoesOn, Zenon
<1>8. CASE Help
  <2> DEFINE o == [to |-> "stderr", what |-> "help"]
  <2>1. pc = "args" /\ args = <<>> /\ "help" \in flags /\ Exit(0, o)
    BY <1>8, Zenon DEF Help
  <2>2. o.to # "stdout"
    OBVIOUS
  <2> HIDE DEF o
  <2>3. ~UsageError(argv) /\ WantsHelp(argv)
    BY <1>0, <1>100, <2>1, Zenon DEF AllRead
  <2>4. 0 \in ExitCodes(argv)
    BY <2>3, CodesOf
  <2>5. Result(argv, 0, o)
    BY <2>2, <2>3, <2>4, Zenon DEF Result
  <2> QED BY <2>1, <2>5, Ends, Zenon
<1>9. CASE BadFormat
  <2>1. pc = "args" /\ args = <<>> /\ "help" \notin flags /\ format \notin Formats /\ Exit(1, Message)
    BY <1>9, Zenon DEF BadFormat, ValidFormat
  <2>2. ~UsageError(argv) /\ ~WantsHelp(argv) /\ WantedFormat(argv) \notin Formats
    BY <1>0, <1>100, <2>1, Zenon DEF AllRead
  <2>3. 1 \in ExitCodes(argv) /\ 1 # 0
    BY <2>2, CodesOf
  <2>4. Result(argv, 1, Message)
    BY <1>102, <2>3, Zenon DEF Result
  <2> QED BY <2>1, <2>4, Ends, Zenon
<1>10. CASE Dispatch
  <2>1. /\ pc = "args" /\ args = <<>> /\ "help" \notin flags /\ format \in Formats /\ pc' = "run"
        /\ args' = args /\ flags' = flags /\ format' = format /\ positionals' = positionals
        /\ argv' = argv
    BY <1>10 DEF Dispatch, ValidFormat, options
  <2>2. ArgsRead(argv', args', flags', format', positionals')
    BY <1>0, <2>1, Zenon DEF A
  <2> QED BY <2>1, <2>2 DEF EInv, ExitIsCalledFor, Formats
<1>11. CASE Generate
  <2> DEFINE o == [to |-> "stdout", what |-> Entropy]
  <2>1. pc = "run" /\ positionals = <<>> /\ Exit(0, o)
    BY <1>11, Zenon DEF Generate
  <2>2. o.to = "stdout"
    OBVIOUS
  <2> HIDE DEF o
  <2>3. ~WantsHelp(argv) /\ ExitCodes(argv) = {0, 1} /\ Words(argv) = {}
    BY <1>0, <1>100, <1>101, <2>1, Zenon
  <2>4. 0 \in ExitCodes(argv)
    BY <2>3
  <2>5. Result(argv, 0, o)
    BY <2>2, <2>3, <2>4, Zenon DEF Result
  <2> QED BY <2>1, <2>5, Ends, Zenon
<1>12. CASE GenerateFails
  <2>1. pc = "run" /\ positionals = <<>> /\ Exit(1, Message)
    BY <1>12, Zenon DEF GenerateFails
  <2>2. ExitCodes(argv) = {0, 1}
    BY <1>0, <1>100, <1>101, <2>1, Zenon
  <2>3. 1 \in ExitCodes(argv) /\ 1 # 0
    BY <2>2
  <2>4. Result(argv, 1, Message)
    BY <1>102, <2>3, Zenon DEF Result
  <2> QED BY <2>1, <2>4, Ends, Zenon
<1>13. CASE TooMany
  <2>1. pc = "run" /\ Len(positionals) > 1 /\ Exit(2, Message)
    BY <1>13, Zenon DEF TooMany
  <2>2. ExitCodes(argv) = {2}
    BY <1>0, <1>100, <1>101, <2>1, Zenon
  <2>3. 2 \in ExitCodes(argv) /\ 2 # 0
    BY <2>2
  <2>4. Result(argv, 2, Message)
    BY <1>102, <2>3, Zenon DEF Result
  <2> QED BY <2>1, <2>4, Ends, Zenon
<1>14. CASE ParseFails
  <2>1. /\ pc = "run" /\ Len(positionals) = 1 /\ TextOf(positionals[1]) # "ulid"
        /\ Exit(1, Message)
    BY <1>14, Zenon DEF ParseFails
  <2>2. ExitCodes(argv) = {1}
    BY <1>0, <1>100, <1>101, <2>1, Zenon
  <2>3. 1 \in ExitCodes(argv) /\ 1 # 0
    BY <2>2
  <2>4. Result(argv, 1, Message)
    BY <1>102, <2>3, Zenon DEF Result
  <2> QED BY <2>1, <2>4, Ends, Zenon
<1>15. CASE ParseOk
  <2>1. /\ pc = "run" /\ pc' = "print" /\ Len(positionals) = 1 /\ TextOf(positionals[1]) = "ulid"
        /\ args' = args /\ flags' = flags /\ format' = format /\ positionals' = positionals
        /\ argv' = argv
    BY <1>15 DEF ParseOk, options
  <2>2. ArgsRead(argv', args', flags', format', positionals')
    BY <1>0, <2>1, Zenon DEF A
  <2>3. args' = <<>> /\ "help" \notin flags' /\ format' \in Formats
    BY <1>0, <2>1
  <2>4. Len(positionals') = 1 /\ TextOf(positionals'[1]) = "ulid"
    BY <2>1
  <2> QED BY <2>1, <2>2, <2>3, <2>4 DEF EInv, ExitIsCalledFor, Formats
<1>16. CASE PrintTime
  <2> DEFINE o == [to |-> "stderr", what |-> "time"]
  <2>1. pc = "print" /\ Exit(0, o)
    BY <1>16, Zenon DEF PrintTime
  <2>2. o.to # "stdout"
    OBVIOUS
  <2> HIDE DEF o
  <2>3. ExitCodes(argv) = {0} /\ Words(argv) # {}
    BY <1>0, <1>100, <1>101, <2>1, Zenon
  <2>4. 0 \in ExitCodes(argv)
    BY <2>3
  <2>5. Result(argv, 0, o)
    BY <2>2, <2>3, <2>4, Zenon DEF Result
  <2> QED BY <2>1, <2>5, Ends, Zenon
<1>17. CASE UNCHANGED vars
  <2>1. /\ pc' = pc /\ args' = args /\ flags' = flags /\ format' = format
        /\ positionals' = positionals /\ argv' = argv /\ exit' = exit /\ out' = out
    BY <1>17 DEF vars
  <2> QED BY <2>1, Zenon DEF EInv, ExitIsCalledFor, Formats, TextOf
<1> QED
  BY <1>1, <1>2, <1>3, <1>4, <1>5, <1>6, <1>7, <1>8, <1>9, <1>10, <1>11, <1>12, <1>13,
     <1>14, <1>15, <1>16, <1>17, Zenon DEF Next

\* The program ends with the exit code that its argument list as a whole calls
\* for, for lists of every length and every set of arguments, and a ULID goes to
\* stdout exactly when one was asked for and made (run, bin/ulid.rs).
THEOREM ExitCodesAreCalledFor == Spec => []ExitIsCalledFor
<1>1. EInv => ExitIsCalledFor
  BY Zenon DEF EInv
<1> QED BY <1>1, ExitInit, ExitNext, PTL DEF Spec
=============================================================================
