------------------------------- MODULE Periods -------------------------------
(***************************************************************************)
(* analytics/periods.py: the keys one moment counts under.  A moment is    *)
(* its day, numbered in UTC as datetime.toordinal() does: day 1 is Monday, *)
(* 1 January of year 1.  A key is the tuple of the numbers strftime() puts *)
(* into it.                                                                *)
(***************************************************************************)
EXTENDS Integers

Total == <<"total">>

\* Days before 1 January of year y.
DaysBefore(y) ==
  LET p == y - 1 IN 365 * p + p \div 4 - p \div 100 + p \div 400

YearOf(n) ==
  CHOOSE y \in (n \div 366)..(n \div 365 + 1) :
    DaysBefore(y) < n /\ n <= DaysBefore(y + 1)

\* Days of year y before the first of month m, month 13 being the next year.
DaysBeforeMonth(y, m) ==
  LET leap == DaysBefore(y + 1) - DaysBefore(y) = 366
  IN  <<0, 31, 59, 90, 120, 151, 181, 212, 243, 273, 304, 334, 365>>[m]
        + (IF leap /\ m > 2 THEN 1 ELSE 0)

MonthOf(n) ==
  LET y == YearOf(n)
  IN  CHOOSE m \in 1..12 :
        n - DaysBefore(y) \in DaysBeforeMonth(y, m) + 1..DaysBeforeMonth(y, m + 1)

\* Mutant: the ISO week under the year of the calendar.
CalendarYearWeek(n) ==
  LET thursday == 7 * ((n - 1) \div 7) + 4
  IN  <<"week", YearOf(n), (thursday - DaysBefore(YearOf(thursday)) + 6) \div 7>>

\* %G-W%V: weeks run from Monday, and belong to the year of their Thursday.
WeekKey(n) ==
  LET thursday == 7 * ((n - 1) \div 7) + 4
      year == YearOf(thursday)
  IN  <<"week", year, (thursday - DaysBefore(year) + 6) \div 7>>

DayKey(n) == <<"day", n>>

period_keys(n) ==
  {DayKey(n), WeekKey(n), <<"month", YearOf(n), MonthOf(n)>>,
   <<"year", YearOf(n)>>, Total}
=============================================================================
