------------------------------- MODULE Calendar -------------------------------
(***************************************************************************)
(* The dates that `dns-ligase stats` prints: days_to_ymd (stats.rs), next  *)
(* to a calendar that goes on day by day.                                  *)
(***************************************************************************)
EXTENDS Naturals

CONSTANT LastYear   \* the calendar ends with this year

ASSUME LastYearAssumption == LastYear \in Nat /\ LastYear >= 1970

VARIABLES
    day,   \* days since 1970-01-01
    date   \* the date, <<year, month, day of the month>>

dateVars == <<day, date>>

-----------------------------------------------------------------------------
(* The Gregorian calendar *)

Leap(y) == y % 4 = 0 /\ (y % 100 = 0 => y % 400 = 0)

MonthLength(y, m) ==
    IF m = 2 THEN IF Leap(y) THEN 29 ELSE 28
    ELSE IF m \in {4, 6, 9, 11} THEN 30 ELSE 31

NextDate(d) ==
    IF d[3] < MonthLength(d[1], d[2]) THEN <<d[1], d[2], d[3] + 1>>
    ELSE IF d[2] < 12 THEN <<d[1], d[2] + 1, 1>>
    ELSE <<d[1] + 1, 1, 1>>

\* Leap years before year y.
LeapsBefore(y) == (y - 1) \div 4 - (y - 1) \div 100 + (y - 1) \div 400

NewYear(y) == 365 * (y - 1970) + LeapsBefore(y) - LeapsBefore(1970)

\* The calendar may be opened at any year.
DateInit ==
    \E y \in 1970..LastYear : day = NewYear(y) /\ date = <<y, 1, 1>>

NextDay ==
    /\ NextDate(date)[1] <= LastYear
    /\ day' = day + 1
    /\ date' = NextDate(date)

DateSpec == DateInit /\ [][NextDay]_dateVars

-----------------------------------------------------------------------------
(* days_to_ymd.  The era begins on 0000-03-01, so that a leap day ends a     *)
(* year; days are not negative here, and neither is z.                       *)

Era(z) == z \div 146097
DayOfEra(z) == z - Era(z) * 146097

\* Mutant of YearOfEra: centuries are leap years.
YearOfEraJulian(doe) == (doe - doe \div 1460) \div 365

YearOfEra(doe) ==
    (doe - doe \div 1460 + doe \div 36524 - doe \div 146096) \div 365

DaysToYmd(days) ==
    LET z == days + 719468
        doe == DayOfEra(z)
        yoe == YearOfEra(doe)
        doy == doe - (365 * yoe + yoe \div 4 - yoe \div 100)
        mp == (5 * doy + 2) \div 153
        d == doy - (153 * mp + 2) \div 5 + 1
        m == IF mp < 10 THEN mp + 3 ELSE mp - 9
        y == yoe + Era(z) * 400
    IN  <<IF m <= 2 THEN y + 1 ELSE y, m, d>>

-----------------------------------------------------------------------------
(* Properties *)

\* The arithmetic of days_to_ymd gives the date of every day, over leap years,
\* centuries and the change of an era (stats.rs:104-119).
DateRight == DaysToYmd(day) = date
=============================================================================
