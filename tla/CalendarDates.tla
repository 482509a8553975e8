--------------------------- MODULE CalendarDates ---------------------------
(***************************************************************************)
(* Dates as the admin site's scripts reckon them: calendar.js and the      *)
(* extensions of Date and String in core.js, over the Gregorian calendar   *)
(* of JavaScript's Date.                                                   *)
(***************************************************************************)
EXTENDS Integers

Months == 1..12
WeekDays == 0..6            \* 0 is Sunday

-----------------------------------------------------------------------------
(* JavaScript's Date.                                                      *)

Leaps(y) == y \div 4 - y \div 100 + y \div 400
MonthLength(y, m) ==
    IF m = 2 THEN 28 + Leaps(y) - Leaps(y - 1) ELSE 31 - (((m - 1) % 7) % 2)
DaysBefore == <<0, 31, 59, 90, 120, 151, 181, 212, 243, 273, 304, 334>>

(* The days from the year 1 on, of which the first was a Monday.           *)
DayNumber(y, m, d) ==
    365 * (y - 1) + Leaps(y - 1) + DaysBefore[m] + d
        + (IF m > 2 THEN Leaps(y) - Leaps(y - 1) ELSE 0)
GetDay(y, m, d) == DayNumber(y, m, d) % 7

(* A date whose day is out of its month belongs to the month beside it.    *)
MonthBefore(y, m) == IF m = 1 THEN [y |-> y - 1, m |-> 12] ELSE [y |-> y, m |-> m - 1]
MonthAfter(y, m) == IF m = 12 THEN [y |-> y + 1, m |-> 1] ELSE [y |-> y, m |-> m + 1]
DateOf(month, d) == [y |-> month.y, m |-> month.m, d |-> d]
Rolled(y, m, d) ==
    LET before == MonthBefore(y, m)
    IN  IF d < 1 THEN DateOf(before, MonthLength(before.y, before.m) + d)
        ELSE IF d > MonthLength(y, m) THEN DateOf(MonthAfter(y, m), d - MonthLength(y, m))
        ELSE [y |-> y, m |-> m, d |-> d]

(* new Date and Date.UTC take a year below 100 for one of the 1900s.   *)
FullYear(y) == IF y \in 0..99 THEN 1900 + y ELSE y

(* Is there such a date?                                                   *)
IsDate(date) == date.d \in 1..MonthLength(date.y, date.m)

-----------------------------------------------------------------------------
(* calendar.js                                                             *)

IsLeapYear(year) == (year % 4 = 0 /\ year % 100 # 0) \/ year % 400 = 0

GetDaysInMonth(month, year) ==
    IF month \in {1, 3, 5, 7, 8, 10, 12} THEN 31
    ELSE IF month \in {4, 6, 9, 11} THEN 30
    ELSE IF month = 2 /\ IsLeapYear(year) THEN 29
    ELSE 28

(* Mutant: the blanks are counted to the other side.                       *)
BlanksAfter(month, year, firstDayOfWeek) ==
    GetDay(FullYear(year), month, 1 + firstDayOfWeek)

(* draw: the blanks before the first day, where the weeks begin on some    *)
(* day, the day each column is headed with, and the column of a day.       *)
StartingPos(month, year, firstDayOfWeek) ==
    GetDay(FullYear(year), month, 1 - firstDayOfWeek)
Heading(column, firstDayOfWeek) == (column + firstDayOfWeek) % 7
ColumnOf(d, month, year, firstDayOfWeek) ==
    (StartingPos(month, year, firstDayOfWeek) + d - 1) % 7

-----------------------------------------------------------------------------
(* core.js                                                                 *)

(* getMonth counts from 0, and so does Date.UTC.                           *)
GetMonth(date) == date.m - 1

(* Mutant: it is written as JavaScript counts it.                          *)
StrftimeFrom0(date) == [y |-> date.y, m |-> GetMonth(date), d |-> date.d]

(* strftime with "%Y-%m-%d" (getTwoDigitMonth, getTwoDigitDate), as the    *)
(* three numbers of the text.                                              *)
Strftime(date) == [y |-> date.y, m |-> GetMonth(date) + 1, d |-> date.d]

(* strptime with "%Y-%m-%d": Date.UTC moves a date that does not exist.    *)
Strptime(text) ==
    LET month == text.m - 1
    IN  Rolled(FullYear(text.y), month + 1, text.d)

=============================================================================
