----------------------------- MODULE AdminPages -----------------------------
(***************************************************************************)
(* The pages of the admin site, each with the scripts it loads: a change   *)
(* list, or a change form with boxes to choose from, with inline rows,     *)
(* with dates, or with fields for related objects. A page's widgets share  *)
(* nothing with those of another page, so a behaviour is that of one page; *)
(* what all of them keep in the browser counts as one page more.           *)
(***************************************************************************)
EXTENDS Integers, FiniteSets

CONSTANTS
    RowCount,
    Items, Later, Preselected, Words, Match,
    MinForms, MaxForms, MaxSaved, MaxExtra,
    FirstDayOfWeek, Clock, BrowserZones, ServerOffset, TypedDates, PickDays,
    MaxAway, MaxWidgets,
    DishRows, Plain, Inner, Objects, AtFirst, MaxLabel,
    Tabs, Models, Typed, Lower, Having, Lists, FiltersOf

(* A field has one name on a page, and a window's form has none of the     *)
(* first page's; no object is called as if it were none; the pages exist;  *)
(* what is typed is not empty, in lower case either, and lower case stays  *)
(* as it is.                                                               *)
ASSUME FieldsAreApart == Plain \notin DishRows /\ Inner \cap (DishRows \cup {Plain}) = {}
ASSUME NoneIsNoObject == "none" \notin Objects
ASSUME SomethingThere == Tabs # {} /\ Models # {} /\ Lists # {}
ASSUME LowerIsLower ==
    /\ "" \notin Typed
    /\ \A w \in Typed : Lower[w] \in Typed /\ Lower[Lower[w]] = Lower[w]

(* The choices of a form are rows of a table; what is chosen is there.     *)
ASSUME ChoicesAreRows ==
    IsFiniteSet(Items) /\ Later \subseteq Items /\ Preselected \subseteq Items \ Later

(* The limits of a formset, how many rows the server sends, and how often  *)
(* an object is renamed.                                                   *)
ASSUME LimitsAreNumbers ==
    /\ MinForms \in Nat /\ MaxForms \in Nat /\ MaxSaved \in Nat /\ MaxExtra \in Nat
    /\ MaxLabel \in Nat

(* Dates have a year, a month and a day, although the day may be none of   *)
(* that month, and a clock differs from UTC by whole minutes, by no more   *)
(* than a day, and by others after its zone's clocks are changed.          *)
ASSUME DatesAreNumbers ==
    /\ FirstDayOfWeek \in Int /\ ServerOffset \in -1440..1440
    /\ BrowserZones \subseteq [before : -1440..1440, after : -1440..1440, change : Int]
    /\ Clock \in [date : [y : Int, m : 1..12, d : 1..31], minute : 0..1439]
    /\ TypedDates \subseteq [y : Int, m : 1..12, d : 1..31]

VARIABLES
    page,
    checked, allToggle, across, spans, lastChecked, sent,
    cache, selected, text, enabled, warned, known, form,
    body, totalForms, nextIndex, templateEditors, addShown, deleteShown,
    browserZone, calendars, clocks, shown, warnings, dateInput, timeInput,
    here, opener, task, related, label, option, chosen, linked, select2, rendered,
    prefersDark, storedTheme, theme, storedOpen, expanded, shifted,
    box, modelsHidden, noResults, keptText, listed, folded, keptFolds

List == INSTANCE ChangeList
Boxes == INSTANCE SelectFilter
Inlines == INSTANCE Formset
Dates == INSTANCE DateWidgets
Popups == INSTANCE RelatedPopups
Stored == INSTANCE Preferences

listVars == <<checked, allToggle, across, spans, lastChecked, sent>>
boxesVars == <<cache, selected, text, enabled, warned, known, form>>
inlinesVars == <<body, totalForms, nextIndex, templateEditors, addShown, deleteShown>>
datesVars == <<browserZone, calendars, clocks, shown, warnings, dateInput, timeInput>>
popupsVars == <<here, opener, task, related, label, option, chosen, linked, select2,
                rendered>>
storedVars == <<prefersDark, storedTheme, theme, storedOpen, expanded, shifted,
                box, modelsHidden, noResults, keptText, listed, folded, keptFolds>>
vars == <<page, listVars, boxesVars, inlinesVars, datesVars, popupsVars, storedVars>>

Pages == {"list", "boxes", "inlines", "dates", "popups", "stored"}

TypeOK ==
    /\ page \in Pages
    /\ List!TypeOK /\ Boxes!TypeOK /\ Inlines!TypeOK /\ Dates!TypeOK /\ Popups!TypeOK
    /\ Stored!TypeOK

Init ==
    /\ page \in Pages
    /\ List!Init /\ Boxes!Init /\ Inlines!Init /\ Dates!Init /\ Popups!Init
    /\ Stored!Init

OnList ==
    /\ page = "list" /\ List!Next
    /\ UNCHANGED <<page, boxesVars, inlinesVars, datesVars, popupsVars, storedVars>>

OnBoxes ==
    /\ page = "boxes" /\ Boxes!Next
    /\ UNCHANGED <<page, listVars, inlinesVars, datesVars, popupsVars, storedVars>>

OnInlines ==
    /\ page = "inlines" /\ Inlines!Next
    /\ UNCHANGED <<page, listVars, boxesVars, datesVars, popupsVars, storedVars>>

OnDates ==
    /\ page = "dates" /\ Dates!Next
    /\ UNCHANGED <<page, listVars, boxesVars, inlinesVars, popupsVars, storedVars>>

OnPopups ==
    /\ page = "popups" /\ Popups!Next
    /\ UNCHANGED <<page, listVars, boxesVars, inlinesVars, datesVars, storedVars>>

OnStored ==
    /\ page = "stored" /\ Stored!Next
    /\ UNCHANGED <<page, listVars, boxesVars, inlinesVars, datesVars, popupsVars>>

Next == OnList \/ OnBoxes \/ OnInlines \/ OnDates \/ OnPopups \/ OnStored

Spec == Init /\ [][Next]_vars

-----------------------------------------------------------------------------
(* What the widgets promise, each stated in its own module: an action is   *)
(* for more than the page only while all of it is ticked (actions.js),     *)
AcrossNeedsAllRows == List!AcrossNeedsAllRows

(* no choice is lost or doubled between two boxes (SelectBox.js),          *)
ChoicesConserved == Boxes!ChoicesConserved

(* and what a filter hides of them is told and sent (SelectFilter2.js),    *)
HiddenAreChosen == Boxes!HiddenAreChosen

(* inline forms are numbered as the server counts them (inlines.js),       *)
FormsInSequence == Inlines!FormsInSequence

(* and a row comes and goes with its errors and its select2,               *)
RowsAreWhole == Inlines!RowsAreWhole

(* an open calendar or clock can be closed (DateTimeShortcuts.js),         *)
OpenBoxesClose == Dates!OpenBoxesClose

(* a drawn month is the month of the Gregorian calendar (calendar.js),     *)
GridIsTheMonth == Dates!GridIsTheMonth

(* dates survive the way from calendar to input and back (core.js),        *)
DatesGoRound == Dates!DatesGoRound

(* a window has a page to answer to (RelatedObjectLookups.js),             *)
WindowsHaveOpeners == Popups!WindowsHaveOpeners

(* what the page's fields offer and show has that name, and links follow,  *)
SelectsAreSound == Popups!SelectsAreSound

(* and a tab shows what the browser keeps (nav_sidebar.js, filters.js).    *)
ShownAsKept == Stored!ShownAsKept

=============================================================================
