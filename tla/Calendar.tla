------------------------------- MODULE Calendar -------------------------------
(***************************************************************************)
(* The exchange calendar of utils/helpers: holidays of a year, sessions,   *)
(* and counting in sessions, on which the scheduler, the locks and the     *)
(* digest rely.  A date is its proleptic ordinal, as date.toordinal().     *)
(***************************************************************************)
EXTENDS Integers, FiniteSets

CONSTANTS FirstYear, LastYear   \* the years a date is taken from

ASSUME CalendarAssumption == FirstYear \in Nat /\ LastYear \in Nat /\ 1950 < FirstYear /\ FirstYear <= LastYear

VARIABLE today

calendarVars == <<today>>
-----------------------------------------------------------------------------
(* Dates.                                                                  *)

IsLeap(y) == y % 4 = 0 /\ (y % 100 # 0 \/ y % 400 = 0)
DaysBeforeMonth == <<0, 31, 59, 90, 120, 151, 181, 212, 243, 273, 304, 334>>

Date(y, m, d) ==
    365 * (y - 1) + ((y - 1) \div 4) - ((y - 1) \div 100) + ((y - 1) \div 400)
        + DaysBeforeMonth[m] + (IF m > 2 /\ IsLeap(y) THEN 1 ELSE 0) + d

Monday == 0
Thursday == 3
Saturday == 5
Sunday == 6
Weekday(day) == (day + 6) % 7

\* date.year, for the years the model looks at and their neighbours.
Year(day) == CHOOSE y \in FirstYear - 1 .. LastYear + 1 : Date(y, 1, 1) <= day /\ day < Date(y + 1, 1, 1)
-----------------------------------------------------------------------------
(* Holidays.                                                               *)

\* easter_sunday(): the anonymous Gregorian algorithm.
EasterSunday(y) ==
    LET a == y % 19
        b == y \div 100
        c == y % 100
        g == (b - ((b + 8) \div 25) + 1) \div 3
        h == (19 * a + b - (b \div 4) - g + 15) % 30
        l == (32 + 2 * (b % 4) + 2 * (c \div 4) - h - (c % 4)) % 7
        n == h + l - (7 * ((a + 11 * h + 22 * l) \div 451)) + 114
    IN Date(y, n \div 31, (n % 31) + 1)

\* A fixed holiday moves from Saturday to Friday and from Sunday to Monday.
Observed(day) ==
    CASE Weekday(day) = Saturday -> day - 1
      [] Weekday(day) = Sunday -> day + 1
      [] OTHER -> day

NthWeekday(y, m, weekday, n) ==
    LET first == Date(y, m, 1) IN first + ((weekday - Weekday(first)) % 7) + 7 * (n - 1)

LastWeekday(y, m, weekday) ==
    LET last == (IF m = 12 THEN Date(y + 1, 1, 1) ELSE Date(y, m + 1, 1)) - 1
    IN last - ((Weekday(last) - weekday) % 7)

\* New Year's Day, Juneteenth, Independence Day and Christmas.
FixedHolidays(y) ==
    {Date(y, 1, 1), Date(y, 7, 4), Date(y, 12, 25)} \cup (IF y >= 2022 THEN {Date(y, 6, 19)} ELSE {})

MovingHolidays(y) ==
    {NthWeekday(y, 1, Monday, 3), NthWeekday(y, 2, Monday, 3), EasterSunday(y) - 2,
     LastWeekday(y, 5, Monday), NthWeekday(y, 9, Monday, 1), NthWeekday(y, 11, Thursday, 4)}

\* Mutant of MarketHolidays: the new year observed in the old one is forgotten.
MarketHolidaysOfTheYear(y) ==
    {day \in {Observed(h) : h \in FixedHolidays(y)} \cup MovingHolidays(y) :
        Date(y, 1, 1) <= day /\ day < Date(y + 1, 1, 1)}

\* us_market_holidays(): what is observed within the year, the next new year included.
MarketHolidays(y) ==
    {day \in {Observed(h) : h \in FixedHolidays(y) \cup {Date(y + 1, 1, 1)}} \cup MovingHolidays(y) :
        Date(y, 1, 1) <= day /\ day < Date(y + 1, 1, 1)}

Holidays == [y \in FirstYear - 1 .. LastYear + 1 |-> MarketHolidays(y)]
-----------------------------------------------------------------------------
(* Sessions.                                                               *)

IsTradingDay(day) == Weekday(day) < 5 /\ day \notin Holidays[Year(day)]

\* The loops of next_ and previous_trading_day() look no further than this.
LongestClosure == 7

NextTradingDay(day, include) ==
    LET from == IF include THEN day ELSE day + 1
    IN CHOOSE s \in from .. from + LongestClosure :
        IsTradingDay(s) /\ \A d \in from .. s - 1 : ~IsTradingDay(d)

PreviousTradingDay(day, include) ==
    LET upTo == IF include THEN day ELSE day - 1
    IN CHOOSE s \in upTo - LongestClosure .. upTo :
        IsTradingDay(s) /\ \A d \in s + 1 .. upTo : ~IsTradingDay(d)

\* add_trading_days(): n moves, forwards or backwards.
AddTradingDays(day, n) ==
    LET moved[k \in Nat] ==
            IF k = 0 THEN day
            ELSE IF n > 0 THEN NextTradingDay(moved[k - 1], FALSE)
            ELSE PreviousTradingDay(moved[k - 1], FALSE)
    IN moved[IF n < 0 THEN -n ELSE n]

TradingDaysBetween(start, end) == Cardinality({d \in start .. end : IsTradingDay(d)})

\* The day a digest written today is about.
DigestDay(day) ==
    IF IsTradingDay(day) THEN PreviousTradingDay(day, TRUE) ELSE PreviousTradingDay(day, FALSE)
-----------------------------------------------------------------------------
CalendarInit == today \in {Date(y, 1, 1) : y \in FirstYear .. LastYear}

\* The day turns; every year is walked from its first day to its last.
DayTurns ==
    /\ Year(today + 1) = Year(today)
    /\ today' = today + 1

CalendarSpec == CalendarInit /\ [][DayTurns]_calendarVars
-----------------------------------------------------------------------------
(* Properties.                                                             *)

\* Easter by the tables it is defined by: the Sunday after the full moon that follows
\* the 21st of March, the moon's age taken from the golden number and the century.
PaschalEaster(y) ==
    LET century == y \div 100 + 1
        gregorian == ((3 * century) \div 4) - 12
        lunar == ((8 * century + 5) \div 25) - 5
        rawEpact == (11 * ((y % 19) + 1) + 20 + lunar - gregorian) % 30
        epact == IF rawEpact = 24 \/ (rawEpact = 25 /\ (y % 19) + 1 > 11) THEN rawEpact + 1 ELSE rawEpact
        fullMoon == Date(y, 3, 1) + (IF 44 - epact < 21 THEN 74 - epact ELSE 44 - epact) - 1
    IN fullMoon + 7 - ((Weekday(fullMoon) + 1) % 7)

\* Counting in sessions can be undone and agrees with counting the days, whatever holidays
\* and turns of the year lie between; from any day the next session is five days away at
\* most, the exchange is shut on every fixed holiday or, at the weekend, on the weekday
\* beside it, and for a hundred years from today Easter is where its tables
\* put it.
CalendarIsSound ==
    /\ \E s \in today + 1 .. today + 5 : IsTradingDay(s)
    /\ IsTradingDay(today) => \A n \in -2 .. 3 :
        /\ AddTradingDays(AddTradingDays(today, n), -n) = today
        /\ n >= 0 => TradingDaysBetween(today, AddTradingDays(today, n)) = n + 1
    /\ \A h \in FixedHolidays(Year(today)) : h = today => ~IsTradingDay(Observed(today))
    /\ Date(Year(today), 1, 1) = today =>
        \A y \in Year(today) .. Year(today) + 99 : EasterSunday(y) = PaschalEaster(y)
=============================================================================
