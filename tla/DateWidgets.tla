---------------------------- MODULE DateWidgets ----------------------------
(***************************************************************************)
(* The calendar and the clock beside the two inputs of a date and time (a  *)
(* cart's pending_expires_at): DateTimeShortcuts.js over calendar.js. Each *)
(* has a box at the end of the page, which its icon opens and a click      *)
(* anywhere else, or Escape, closes. When a row is added to an inline      *)
(* formset of the page (inlines.js, reinitDateTimeShortCuts) the icons are *)
(* removed and every widget is set up again, beside what is left of it.    *)
(***************************************************************************)
EXTENDS CalendarDates, Sequences

CONSTANTS
    FirstDayOfWeek,     \* the locale's
    Clock,              \* the moment, by UTC: a date and a minute of that day
    BrowserZones,       \* the time zones a browser may be in
    ServerOffset,       \* the minutes the server is ahead of UTC
    TypedDates,         \* what may be typed: records of y, m, d
    PickDays,           \* the days of a month that are clicked on (bound)
    MaxAway,            \* how many months one leafs from today or from a date
                        \* that may be typed (bound)
    MaxWidgets          \* how often the widgets are set up (bound)

VARIABLES
    browserZone,        \* the time zone of the page's browser
    calendars, clocks,  \* the boxes: the last of each is the one in use
    shown,              \* what the calendar in use has drawn; the others, whose
                        \* icons are gone, are not drawn again
    warnings,           \* how many warnings of another time zone stand beside them
    dateInput,          \* the text, as the numbers it has when they are three
    timeInput

vars == <<browserZone, calendars, clocks, shown, warnings, dateInput, timeInput>>

(* An input without text, one whose text is no date, a calendar without a  *)
(* date to highlight; and the choices of a clock, "now" or one of          *)
(* clockHours.default_.                                                    *)
Empty == [y |-> 0, m |-> 0, d |-> 0]
Garbage == [y |-> 0, m |-> 0, d |-> 1]
NoDate == Empty
NoTime == "none"
Hours == {"now", "on the hour"}

(* A zone has one offset before, and another after, the minute at which    *)
(* its clocks are changed, counted like Clock.minute from the date's start *)
(* by UTC; where no clocks are changed the two are the same.               *)
AlwaysAt(offset) == [before |-> offset, after |-> offset, change |-> 0]
OffsetAt(zone, minute) == IF minute < zone.change THEN zone.before ELSE zone.after

(* The date on a wall clock at that minute, so far ahead of UTC.           *)
WallDate(minute, offset) ==
    Rolled(Clock.date.y, Clock.date.m, Clock.date.d + (minute + offset) \div 1440)

(* getTimezoneOffset of the present.                                       *)
LocalOffset == OffsetAt(browserZone, Clock.minute)

BrowserToday == WallDate(Clock.minute, LocalOffset)
ServerToday == WallDate(Clock.minute, ServerOffset)

(* Mutant: the clock is moved the wrong way.                               *)
NowBackwards ==
    LET moved == Clock.minute - (ServerOffset - LocalOffset)
    IN  WallDate(moved, OffsetAt(browserZone, moved))

(* now: the present, moved by what the server is ahead of the browser; its *)
(* date is read on the browser's clock as that is at the moved minute.     *)
Moved == Clock.minute + (ServerOffset - LocalOffset)
Now == WallDate(Moved, OffsetAt(browserZone, Moved))

MonthsFrom(a, y, m) == 12 * (y - a.y) + m - a.m
Near(y, m) ==
    \E a \in {BrowserToday} \cup {Strptime(t) : t \in TypedDates} :
        MonthsFrom(a, y, m) \in -MaxAway..MaxAway

NewCalendar == [month |-> BrowserToday.m, year |-> BrowserToday.y, selected |-> NoDate]
NewBox == [open |-> FALSE, listening |-> FALSE]

Dates == [y : Int, m : Months, d : 1..31]
TypeOK ==
    /\ browserZone \in BrowserZones \cup {AlwaysAt(ServerOffset)}
    /\ calendars \in Seq([open : BOOLEAN, listening : BOOLEAN])
    /\ clocks \in Seq([open : BOOLEAN, listening : BOOLEAN])
    /\ shown \in [month : Months, year : Int, selected : Dates \cup {NoDate}]
    /\ warnings \in Nat
    /\ dateInput \in Dates \cup {Empty, Garbage}
    /\ timeInput \in Hours \cup {NoTime}

(* addTimezoneWarning, for an input beside which there are some warnings:  *)
(* both inputs are in one paragraph, and so are their warnings.            *)
Warn(warned) ==
    IF LocalOffset = ServerOffset \/ warned > 0 THEN warned ELSE warned + 1

(* init sets up the calendar and then the clock.                           *)
WarnBoth(warned) == Warn(Warn(warned))

Init ==
    /\ browserZone = AlwaysAt(ServerOffset)
    /\ calendars = <<NewBox>> /\ clocks = <<NewBox>> /\ shown = NewCalendar
    /\ warnings = 0
    /\ dateInput = Empty /\ timeInput = NoTime

(* The page is loaded, in a browser somewhere.                             *)
Load(zone) ==
    /\ browserZone' = zone
    /\ calendars' = <<NewBox>> /\ clocks' = <<NewBox>> /\ shown' = NewCalendar'
    /\ warnings' = WarnBoth(0)'
    /\ dateInput' = Empty /\ timeInput' = NoTime

num == Len(calendars)
CalendarOpen == calendars[num].open

(* dismissCalendar and dismissClock, by Cancel, a choice or a listener.    *)
Dismissed == NewBox

(* A click that reaches the document calls the listeners there are.        *)
AfterClick(boxes) ==
    [k \in DOMAIN boxes |-> IF boxes[k].listening THEN Dismissed ELSE boxes[k]]

-----------------------------------------------------------------------------
(* The calendar is drawn for the date of the input, if it is one.          *)
Readable == dateInput \notin {Empty, Garbage}
Drawn ==
    LET selected == Strptime(dateInput)
    IN  IF Readable /\ selected.y >= 1000
        THEN [month |-> selected.m, year |-> selected.y, selected |-> selected]
        ELSE shown

(* Mutant: the page's clicks are listened to only when there is a date.    *)
OpenDeaf ==
    /\ shown' = Drawn
    /\ calendars' = [calendars EXCEPT ![num] =
                        [open |-> TRUE, listening |-> @.listening \/ Readable]]
    /\ UNCHANGED <<browserZone, warnings, clocks, dateInput, timeInput>>

(* The icon's click does not reach the document: other boxes stay open.    *)
OpenCalendar ==
    /\ shown' = Drawn
    /\ calendars' = [calendars EXCEPT ![num] = [open |-> TRUE, listening |-> TRUE]]
    /\ UNCHANGED <<browserZone, warnings, clocks, dateInput, timeInput>>

OpenClock ==
    /\ clocks' = [clocks EXCEPT ![num] = [open |-> TRUE, listening |-> TRUE]]
    /\ UNCHANGED <<browserZone, warnings, shown, calendars, dateInput, timeInput>>

CancelCalendar ==
    /\ CalendarOpen
    /\ calendars' = [calendars EXCEPT ![num] = Dismissed]
    /\ UNCHANGED <<browserZone, warnings, shown, clocks, dateInput, timeInput>>

CancelClock ==
    /\ clocks[num].open
    /\ clocks' = [clocks EXCEPT ![num] = Dismissed]
    /\ UNCHANGED <<browserZone, warnings, shown, calendars, dateInput, timeInput>>

(* Escape: every widget there ever was listens to it.                      *)
Escape ==
    /\ calendars' = [k \in DOMAIN calendars |-> Dismissed]
    /\ clocks' = [k \in DOMAIN clocks |-> Dismissed]
    /\ UNCHANGED <<browserZone, warnings, shown, dateInput, timeInput>>

ClickElsewhere ==
    /\ calendars' = AfterClick(calendars) /\ clocks' = AfterClick(clocks)
    /\ UNCHANGED <<browserZone, warnings, shown, dateInput, timeInput>>

(* drawPreviousMonth, drawNextMonth                                        *)
Leaf(month) ==
    /\ CalendarOpen /\ Near(month.y, month.m)
    /\ shown' = [shown EXCEPT !.month = month.m, !.year = month.y]
    /\ UNCHANGED <<browserZone, warnings, calendars, clocks, dateInput, timeInput>>

DrawPrev ==
    Leaf(IF shown.month = 1 THEN [m |-> 12, y |-> shown.year - 1]
         ELSE [m |-> shown.month - 1, y |-> shown.year])
DrawNext ==
    Leaf(IF shown.month = 12 THEN [m |-> 1, y |-> shown.year + 1]
         ELSE [m |-> shown.month + 1, y |-> shown.year])

(* handleCalendarCallback, for a day of the month that is shown: the box   *)
(* is hidden, and the listener stays.                                      *)
PickDay(d) ==
    /\ CalendarOpen /\ d \in 1..GetDaysInMonth(shown.month, shown.year)
    /\ dateInput' = Strftime(Rolled(FullYear(shown.year), shown.month, d))
    /\ calendars' = [calendars EXCEPT ![num].open = FALSE]
    /\ UNCHANGED <<browserZone, warnings, shown, clocks, timeInput>>

(* handleCalendarQuickLink: Yesterday, Today and Tomorrow in the box.      *)
QuickLink(offset) ==
    /\ CalendarOpen
    /\ dateInput' = Strftime(Rolled(Now.y, Now.m, Now.d + offset))
    /\ calendars' = [calendars EXCEPT ![num] = Dismissed]
    /\ UNCHANGED <<browserZone, warnings, shown, clocks, timeInput>>

(* "Today" beside the input: the click goes on to the document.            *)
TodayLink ==
    /\ dateInput' = Strftime(Now)
    /\ calendars' = AfterClick([calendars EXCEPT ![num] = Dismissed])
    /\ clocks' = AfterClick(clocks)
    /\ UNCHANGED <<browserZone, warnings, shown, timeInput>>

(* handleClockQuicklink, in the box and beside the input.                  *)
PickHour(h) ==
    /\ clocks[num].open
    /\ timeInput' = h
    /\ clocks' = [clocks EXCEPT ![num] = Dismissed]
    /\ UNCHANGED <<browserZone, warnings, shown, calendars, dateInput>>

NowLink ==
    /\ timeInput' = "now"
    /\ clocks' = AfterClick([clocks EXCEPT ![num] = Dismissed])
    /\ calendars' = AfterClick(calendars)
    /\ UNCHANGED <<browserZone, warnings, shown, dateInput>>

Type(text) ==
    /\ dateInput' = text
    /\ UNCHANGED <<browserZone, warnings, shown, calendars, clocks, timeInput>>

(* "Add another" in a formset of the page: new widgets for the same        *)
(* inputs, and then the click reaches the document.                        *)
AddRow ==
    /\ num < MaxWidgets
    /\ calendars' = AfterClick(Append(calendars, NewBox))
    /\ clocks' = AfterClick(Append(clocks, NewBox))
    /\ shown' = NewCalendar
    /\ warnings' = WarnBoth(warnings)
    /\ UNCHANGED <<browserZone, dateInput, timeInput>>

Next ==
    \/ \E zone \in BrowserZones : Load(zone)
    \/ OpenCalendar \/ CancelCalendar \/ DrawPrev \/ DrawNext
    \/ OpenClock \/ CancelClock
    \/ Escape \/ ClickElsewhere
    \/ \E d \in PickDays : PickDay(d)
    \/ \E offset \in {-1, 0, 1} : QuickLink(offset)
    \/ TodayLink
    \/ \E h \in Hours : PickHour(h)
    \/ NowLink
    \/ \E text \in TypedDates \cup {Empty, Garbage} : Type(text)
    \/ AddRow

Spec == Init /\ [][Next]_vars

-----------------------------------------------------------------------------
(* Every box that is open can be closed by a click elsewhere, and has an   *)
(* icon on the page: two boxes may be open at once, a listener may outlive *)
(* its box, widgets are set up again under an open one.                    *)
OpenBoxesClose ==
    \A k \in 1..num :
        /\ calendars[k].open => calendars[k].listening /\ k = num
        /\ clocks[k].open => clocks[k].listening /\ k = num

(* The days of the month that is shown are all there, each under the day   *)
(* of the week it falls on, but for years that new Date takes for others.  *)
GridIsTheMonth ==
    LET y == shown.year
        m == shown.month
    IN  /\ GetDaysInMonth(m, y) = MonthLength(y, m)
        /\ y = FullYear(y) => \A d \in 1..GetDaysInMonth(m, y) :
            Heading(ColumnOf(d, m, y, FirstDayOfWeek), FirstDayOfWeek) = GetDay(y, m, d)

(* The browser's clocks are not changed between the present and the minute *)
(* it is moved to.                                                         *)
NoChangeMeanwhile == OffsetAt(browserZone, Moved) = LocalOffset

(* The calendar opens at the date that is in the input, whatever it showed *)
(* before; a day that is clicked is that day of the month in the caption;  *)
(* and the links are about the server's days for a browser of any zone,    *)
(* unless its clocks are changed in the hours between the two.             *)
DatesGoRound ==
    [][ /\ OpenCalendar /\ Readable /\ IsDate(dateInput) /\ dateInput.y >= 1000 =>
            shown'.selected = dateInput /\ shown'.month = dateInput.m /\ shown'.year = dateInput.y
        /\ \A d \in PickDays : PickDay(d) /\ shown.year = FullYear(shown.year) =>
            dateInput' = [y |-> shown.year, m |-> shown.month, d |-> d]
        /\ \A offset \in {-1, 0, 1} : QuickLink(offset) /\ NoChangeMeanwhile =>
            DayNumber(dateInput'.y, dateInput'.m, dateInput'.d)
                = DayNumber(ServerToday.y, ServerToday.m, ServerToday.d) + offset
      ]_vars

=============================================================================
