-------------------------- MODULE AdminPagesProofs --------------------------
(***************************************************************************)
(* What the widgets of the admin site's pages promise, proved for any page *)
(* sizes, fields, windows, tabs and texts. A step of the pages is a step   *)
(* of one widget, and leaves the others alone: each theorem has an         *)
(* invariant of its widget's variables, kept by that widget's actions. The *)
(* calendars come last, with the types of every widget's variables.        *)
(***************************************************************************)
EXTENDS FormWidgetsProofs

-----------------------------------------------------------------------------
(* The change list. The bar asks "Select all?" only while every row is     *)
(* ticked: that is why select_across can only be set then, and             *)
(* UpdateCounter resets it as soon as it is not so any more.               *)
QuestionNeedsAllRows == "question" \in spans => checked = List!Rows

ListInv == QuestionNeedsAllRows /\ List!AcrossNeedsAllRows

LEMMA CounterKeeps ==
    ASSUME NEW ticked, NEW bar, List!UpdateCounter(ticked, bar)
    PROVE  QuestionNeedsAllRows' /\ (across' => checked' = List!Rows)
<1>1. CASE ticked = List!Rows
    BY <1>1 DEF List!UpdateCounter, QuestionNeedsAllRows, List!Rows
<1>2. CASE ticked # List!Rows
    BY <1>2 DEF List!UpdateCounter, List!Reset, QuestionNeedsAllRows
<1> QED
    BY <1>1, <1>2

LEMMA ListKeeps == ListInv /\ [List!Next]_listVars => ListInv'
<1> SUFFICES ASSUME ListInv, [List!Next]_listVars PROVE ListInv'
    OBVIOUS
<1> USE DEF ListInv, List!AcrossNeedsAllRows
<1>1. ASSUME NEW ticked, NEW bar, List!UpdateCounter(ticked, bar), UNCHANGED sent
      PROVE  ListInv'
    BY <1>1, CounterKeeps DEF List!Rows
<1>2. CASE List!ToggleAll
    BY <1>1, <1>2 DEF List!ToggleAll
<1>3. ASSUME NEW r \in List!Rows, NEW shift \in BOOLEAN, List!SelectRow(r, shift)
      PROVE  ListInv'
    BY <1>1, <1>3 DEF List!SelectRow
<1>4. CASE List!SelectAcross
    BY <1>4 DEF List!SelectAcross, List!ShowClear, QuestionNeedsAllRows, List!Rows
<1>5. CASE List!ClearSelection
    BY <1>1, <1>5 DEF List!ClearSelection
<1>6. CASE List!RunAction
    BY <1>6 DEF List!RunAction, QuestionNeedsAllRows, List!Rows
<1>7. CASE List!Reload
    BY <1>7 DEF List!Reload, QuestionNeedsAllRows, List!Nothing
<1>8. CASE List!PageShow
    BY <1>1, <1>8 DEF List!PageShow
<1>9. CASE List!Cancel
    BY <1>8, <1>9 DEF List!Cancel
<1>10. CASE UNCHANGED listVars
    BY <1>10 DEF listVars, QuestionNeedsAllRows, List!Rows
<1> QED
    BY <1>2, <1>3, <1>4, <1>5, <1>6, <1>7, <1>8, <1>9, <1>10 DEF List!Next

(* Whatever was ticked and unticked since "Select all" was clicked, on a   *)
(* page of any number of rows, an action reaches objects of other pages    *)
(* only with all rows of this one.                                         *)
THEOREM AcrossIsForAllRows == Spec => []AcrossNeedsAllRows
<1>1. Init => ListInv
    BY
       DEF Init, List!Init, ListInv, QuestionNeedsAllRows, List!AcrossNeedsAllRows,
           List!Nothing
<1>2. [Next]_vars => [List!Next]_listVars
    BY OneWidgetMoves
<1>3. ListInv => AcrossNeedsAllRows
    BY DEF ListInv, AcrossNeedsAllRows
<1> QED
    BY <1>1, <1>2, <1>3, ListKeeps, PTL DEF Spec

-----------------------------------------------------------------------------
(* The popup windows.                                                      *)

WindowTypes ==
    /\ opener \in [Popups!Names -> Popups!Pages \cup {Popups!NoPage}]
    /\ related \in [Popups!Pages -> SUBSET Popups!Names]
    /\ here \subseteq Popups!Selects

(* A page remembers windows of the next index only, so that it is never    *)
(* below itself.                                                           *)
RelatedAreDeeper ==
    \A under \in Popups!Pages : \A w \in related[under] : w.index = under.index + 1

PopupsInv == WindowTypes /\ RelatedAreDeeper /\ Popups!WindowsHaveOpeners

(* A window is one or two pages away from the first one, and a window of   *)
(* two was opened by a window of one.                                      *)
LEMMA Depths ==
    ASSUME NEW w \in Popups!Names
    PROVE  /\ w.index \in {1, 2} /\ w \in Popups!Pages
           /\ w # Popups!NoPage /\ w # Popups!Main
           /\ w.index = 1 <=> w \in {[field |-> s, index |-> 1] : s \in Popups!Selects}
BY DEF Popups!Names, Popups!Pages, Popups!NoPage, Popups!Main

LEMMA PopupsStart == Popups!Init => PopupsInv
BY Depths
   DEF Popups!Init, PopupsInv, WindowTypes, RelatedAreDeeper, Popups!WindowsHaveOpeners,
       Popups!IsOpen, Popups!Pages,
   Popups!Selects, Popups!FirstPages, Popups!Main

(* Windows that close with all that is below them leave no window without  *)
(* its page.                                                               *)
LEMMA CloseKeeps ==
    ASSUME PopupsInv, NEW windows \in SUBSET Popups!Names, Popups!Close(windows),
           UNCHANGED here,
           \A w \in windows : related[w] \subseteq windows
    PROVE  PopupsInv'
<1>1. /\ \A w \in Popups!Names : opener'[w] =
            IF w \in windows THEN Popups!NoPage ELSE opener[w]
      /\ \A under \in Popups!Pages : related'[under] =
            IF under \in windows THEN {} ELSE related[under] \ windows
      /\ opener' \in [Popups!Names -> Popups!Pages \cup {Popups!NoPage}]
      /\ related' \in [Popups!Pages -> SUBSET Popups!Names]
    BY DEF Popups!Close, Popups!Closed, Popups!Forgotten, PopupsInv, WindowTypes
<1>2. WindowTypes' /\ RelatedAreDeeper'
    BY <1>1 DEF PopupsInv, WindowTypes, RelatedAreDeeper
<1>3. Popups!WindowsHaveOpeners'
    <2> SUFFICES ASSUME NEW w \in Popups!Names, Popups!IsOpen(w)'
                 PROVE  /\ Popups!IsOpen(opener[w])' /\ w \in related'[opener'[w]]
                        /\ Popups!FieldFor(w) \in Popups!FieldsOf(opener[w])'
                        /\ w.index = opener'[w].index + 1
        BY DEF Popups!WindowsHaveOpeners
    <2>1. w \notin windows /\ opener'[w] = opener[w] /\ Popups!IsOpen(w)
        BY <1>1, Depths DEF Popups!IsOpen
    <2>2. /\ Popups!IsOpen(opener[w]) /\ w \in related[opener[w]]
          /\ opener[w] \in Popups!Pages
          /\ Popups!FieldFor(w) \in Popups!FieldsOf(opener[w])
          /\ w.index = opener[w].index + 1
        BY <2>1, Depths DEF PopupsInv, Popups!WindowsHaveOpeners, Popups!IsOpen, WindowTypes
    <2>3. opener[w] \notin windows
        BY <2>1, <2>2
    <2> QED
        BY <1>1, <2>1, <2>2, <2>3 DEF Popups!IsOpen, Popups!FieldsOf
<1> QED
    BY <1>2, <1>3 DEF PopupsInv

(* What is below a page is all there is below it: windows are at most two  *)
(* pages away.                                                             *)
LEMMA BelowIsClosed ==
    ASSUME PopupsInv, NEW under \in Popups!Pages
    PROVE  /\ Popups!Below(under) \subseteq Popups!Names
           /\ \A w \in Popups!Below(under) :
                related[w] \subseteq Popups!Below(under) /\ w.index > under.index
<1>1. /\ related[under] \subseteq Popups!Names
      /\ \A w \in Popups!Names : related[w] \subseteq Popups!Names
      /\ under.index \in {0, 1, 2}
    BY Depths DEF PopupsInv, WindowTypes, Popups!Pages, Popups!Main
<1>2. \A w \in related[under] : w.index = under.index + 1
    BY DEF PopupsInv, RelatedAreDeeper
<1>3. \A w \in related[under] : \A x \in related[w] :
        x.index = under.index + 2 /\ related[x] = {}
    <2> SUFFICES ASSUME NEW w \in related[under], NEW x \in related[w]
                 PROVE  x.index = under.index + 2 /\ related[x] = {}
        OBVIOUS
    <2>1. /\ w \in Popups!Names /\ w.index = under.index + 1
          /\ x \in Popups!Names /\ x.index = w.index + 1
        BY <1>1, <1>2, Depths DEF PopupsInv, RelatedAreDeeper
    <2>2. \A y \in related[x] : y \in Popups!Names /\ y.index = x.index + 1
        BY <1>1, <2>1, Depths DEF PopupsInv, RelatedAreDeeper
    <2> QED
        BY <1>1, <2>1, <2>2, Depths
<1> QED
    BY <1>1, <1>2, <1>3 DEF Popups!Below

LEMMA ShowKeeps ==
    ASSUME PopupsInv, Inner \cap Popups!Selects = {}, UNCHANGED here,
           NEW under \in Popups!Pages, NEW field \in Popups!FieldsOf(under), NEW what,
           Popups!IsOpen(under), Popups!ShowAdminPopup(under, field, what)
    PROVE  PopupsInv'
<1> DEFINE name == Popups!addPopupIndex(under, field)
           closing == IF Popups!IsOpen(name) THEN Popups!Below(name) ELSE {}
<1>1. name \in Popups!Names /\ name.index = under.index + 1 /\ name.field = field
    <2>1. CASE under = Popups!Main
        BY <2>1
           DEF Popups!FieldsOf, Popups!addPopupIndex, Popups!Names, Popups!Main,
               PopupsInv, WindowTypes
    <2>2. CASE under # Popups!Main
        BY <2>2 DEF Popups!FieldsOf, Popups!addPopupIndex, Popups!Names, Popups!Pages
    <2> QED BY <2>1, <2>2
<1> HIDE DEF name
<1>2. /\ closing \subseteq Popups!Names
      /\ name \notin closing /\ under \notin closing /\ under # name
      /\ \A w \in closing : related[w] \subseteq closing
      /\ Popups!IsOpen(name) => related[name] \subseteq closing
    BY <1>1, BelowIsClosed, Depths DEF Popups!Below, Popups!Pages, Popups!Main
<1> HIDE DEF closing
<1>3. /\ \A w \in Popups!Names : opener'[w] =
            IF w = name THEN under ELSE IF w \in closing THEN Popups!NoPage ELSE opener[w]
      /\ \A p \in Popups!Pages : related'[p] =
            IF p = under THEN (related[p] \ closing) \cup {name}
            ELSE IF p = name \/ p \in closing THEN {} ELSE related[p] \ closing
      /\ opener' \in [Popups!Names -> Popups!Pages \cup {Popups!NoPage}]
      /\ related' \in [Popups!Pages -> SUBSET Popups!Names]
    BY <1>1, <1>2, ZenonT(60)
       DEF Popups!ShowAdminPopup, Popups!Closed, Popups!Forgotten, PopupsInv,
           WindowTypes, name, closing
<1>4. WindowTypes' /\ RelatedAreDeeper'
    BY <1>1, <1>3 DEF PopupsInv, WindowTypes, RelatedAreDeeper
<1>5. Popups!WindowsHaveOpeners'
    <2> SUFFICES ASSUME NEW w \in Popups!Names, Popups!IsOpen(w)'
                 PROVE  /\ Popups!IsOpen(opener[w])' /\ w \in related'[opener'[w]]
                        /\ Popups!FieldFor(w) \in Popups!FieldsOf(opener[w])'
                        /\ w.index = opener'[w].index + 1
        BY DEF Popups!WindowsHaveOpeners
    <2>1. \A p \in Popups!Pages : Popups!IsOpen(p) /\ p \notin closing => Popups!IsOpen(p)'
        <3>1. under # Popups!NoPage
            BY Depths DEF Popups!Pages, Popups!Main, Popups!NoPage
        <3>2. \A p \in Popups!Names :
                opener[p] # Popups!NoPage /\ p \notin closing => opener'[p] # Popups!NoPage
            BY <3>1, <1>3
        <3> QED BY <3>2 DEF Popups!IsOpen
    <2>2. CASE w = name
        BY <2>1, <2>2, <1>1, <1>2, <1>3 DEF Popups!FieldFor, Popups!FieldsOf
    <2>3. CASE w # name
        <3>1. w \notin closing /\ opener'[w] = opener[w] /\ Popups!IsOpen(w)
            BY <2>3, <1>3, Depths DEF Popups!IsOpen
        <3>2. /\ Popups!IsOpen(opener[w]) /\ w \in related[opener[w]]
              /\ opener[w] \in Popups!Pages
              /\ Popups!FieldFor(w) \in Popups!FieldsOf(opener[w])
              /\ w.index = opener[w].index + 1
            BY <3>1, Depths
               DEF PopupsInv, Popups!WindowsHaveOpeners, Popups!IsOpen, WindowTypes
        <3>3. opener[w] \notin closing /\ opener[w] # name
            BY <3>1, <3>2, <1>2, <1>1
        <3> QED
            BY <2>1, <3>1, <3>2, <3>3, <1>3 DEF Popups!FieldsOf
    <2> QED BY <2>2, <2>3
<1> QED
    BY <1>4, <1>5 DEF PopupsInv

(* Leaving the first page closes every window there is.                    *)
LEMMA LeftClosesAll ==
    ASSUME PopupsInv, NEW under, Popups!Leave(under)
    PROVE  /\ Popups!Main \in Popups!Pages /\ Popups!Below(Popups!Main) \subseteq Popups!Names
           /\ \A w \in Popups!Names : opener'[w] = Popups!NoPage
<1>1. Popups!Main \in Popups!Pages /\ Popups!Below(Popups!Main) \subseteq Popups!Names
    BY BelowIsClosed DEF Popups!Pages
<1>2. \A w \in Popups!Names : Popups!IsOpen(w) => w \in Popups!Below(Popups!Main)
    <2> SUFFICES ASSUME NEW w \in Popups!Names, Popups!IsOpen(w)
                 PROVE  w \in Popups!Below(Popups!Main)
        OBVIOUS
    <2>1. /\ Popups!IsOpen(opener[w]) /\ w \in related[opener[w]]
          /\ opener[w] \in Popups!Pages
          /\ w.index = opener[w].index + 1
        BY Depths DEF PopupsInv, Popups!WindowsHaveOpeners, Popups!IsOpen, WindowTypes
    <2>2. CASE opener[w] = Popups!Main
        BY <2>1, <2>2 DEF Popups!Below
    <2>3. CASE opener[w] # Popups!Main
        <3> DEFINE p == opener[w]
        <3>1. p \in Popups!Names /\ p.index = 1
            BY <2>1, <2>3, Depths DEF Popups!Pages
        <3>2. /\ opener[p] \in Popups!Pages /\ p \in related[opener[p]]
              /\ p.index = opener[p].index + 1
            BY <2>1, <3>1, Depths
               DEF PopupsInv, Popups!WindowsHaveOpeners, Popups!IsOpen, WindowTypes
        <3>3. opener[p] = Popups!Main
            BY <3>1, <3>2, Depths DEF Popups!Pages
        <3> QED
            BY <2>1, <3>1, <3>2, <3>3 DEF Popups!Below
    <2> QED
        BY <2>2, <2>3
<1>3. \A w \in Popups!Names : opener'[w] = Popups!NoPage
    BY <1>1, <1>2, Depths
       DEF Popups!Leave, Popups!Close, Popups!Closed, Popups!IsOpen
<1> QED
    BY <1>1, <1>3

LEMMA PopupsKeep ==
    Inner \cap Popups!Selects = {} /\ PopupsInv /\ [Popups!Next]_popupsVars => PopupsInv'
<1> SUFFICES ASSUME Inner \cap Popups!Selects = {}, PopupsInv, [Popups!Next]_popupsVars
             PROVE  PopupsInv'
    OBVIOUS
<1>1. ASSUME NEW under \in Popups!Pages, NEW field \in Popups!FieldsOf(under),
             Popups!ClickAdd(under, field)
      PROVE  PopupsInv'
    BY <1>1, ShowKeeps DEF Popups!ClickAdd, Popups!fields
<1>2. ASSUME NEW s \in Popups!Selects, NEW kind \in {"change", "delete"},
             Popups!ClickLink(s, kind)
      PROVE  PopupsInv'
    <2>1. /\ Popups!Main \in Popups!Pages /\ s \in Popups!FieldsOf(Popups!Main)
          /\ Popups!IsOpen(Popups!Main)
        BY <1>2 DEF Popups!ClickLink, Popups!Pages, Popups!FieldsOf, Popups!IsOpen
    <2> QED
        BY <1>2, <2>1, ShowKeeps DEF Popups!ClickLink, Popups!fields
<1>3. ASSUME NEW w \in Popups!Names, Popups!Close({w} \cup Popups!Below(w)),
             UNCHANGED here
      PROVE  PopupsInv'
    <2>1. w \in Popups!Pages /\ related[w] \subseteq Popups!Below(w)
        BY Depths DEF Popups!Below
    <2>2. /\ {w} \cup Popups!Below(w) \subseteq Popups!Names
          /\ \A x \in Popups!Below(w) : related[x] \subseteq Popups!Below(w)
        BY <2>1, BelowIsClosed
    <2> HIDE DEF Popups!Below
    <2> QED
        BY <1>3, <2>1, <2>2, CloseKeeps
<1>4. ASSUME NEW w \in Popups!Names, Popups!Close(Popups!Below(w)), UNCHANGED here
      PROVE  PopupsInv'
    BY <1>4, Depths, BelowIsClosed, CloseKeeps
<1>5. ASSUME NEW under \in Popups!FirstPages, Popups!Leave(under) PROVE PopupsInv'
    <2>1. /\ Popups!Main \in Popups!Pages /\ Popups!Below(Popups!Main) \subseteq Popups!Names
          /\ \A w \in Popups!Names : opener'[w] = Popups!NoPage
        BY <1>5, LeftClosesAll
    <2>4. WindowTypes' /\ RelatedAreDeeper'
        BY <1>5, <2>1
           DEF Popups!Leave, Popups!Close, Popups!Closed, Popups!Forgotten, PopupsInv,
               WindowTypes, RelatedAreDeeper,
           Popups!FirstPages, Popups!Selects
    <2>5. Popups!WindowsHaveOpeners'
        BY <2>1, Depths DEF Popups!WindowsHaveOpeners, Popups!IsOpen
    <2> QED BY <2>4, <2>5 DEF PopupsInv
<1>6. ASSUME UNCHANGED <<here, opener, related>> PROVE PopupsInv'
    BY <1>6
       DEF PopupsInv, WindowTypes, RelatedAreDeeper, Popups!WindowsHaveOpeners,
           Popups!IsOpen, Popups!FieldsOf
<1>7. ASSUME NEW w \in Popups!Names,
             \/ Popups!CloseWindow(w) \/ Popups!FormRefused(w)
             \/ Popups!AnswerChange(w) \/ Popups!AnswerDelete(w) \/ Popups!AnswerInner(w)
             \/ \E o \in Objects : Popups!AnswerAdd(w, o)
      PROVE  PopupsInv'
    BY <1>3, <1>4, <1>7
       DEF Popups!CloseWindow, Popups!FormRefused, Popups!AnswerChange,
           Popups!AnswerDelete, Popups!AnswerInner, Popups!AnswerAdd, Popups!fields
<1>8. ASSUME NEW s \in Popups!Selects, NEW o \in Objects, Popups!Choose(s, o)
      PROVE  PopupsInv'
    BY <1>6, <1>8 DEF Popups!Choose
<1>9. CASE UNCHANGED popupsVars
    BY <1>6, <1>9 DEF popupsVars
<1> QED
    BY <1>1, <1>2, <1>5, <1>7, <1>8, <1>9 DEF Popups!Next

(* A window that is open has a page to answer to.                          *)
THEOREM OpenWindowsAnswer == Spec => []WindowsHaveOpeners
<1>1. Init => PopupsInv
    BY PopupsStart DEF Init
<1>2. [Next]_vars => [Popups!Next]_popupsVars
    BY OneWidgetMoves
<1>3. PopupsInv /\ [Popups!Next]_popupsVars => PopupsInv'
    BY PopupsKeep, FieldsAreApart DEF Popups!Selects
<1>4. PopupsInv => WindowsHaveOpeners
    BY DEF PopupsInv, WindowsHaveOpeners
<1> QED
    BY <1>1, <1>2, <1>3, <1>4, PTL DEF Spec

(* What the fields offer, with what the windows are about: only an object  *)
(* that a link was about can be renamed or deleted.                        *)
SelectTypes ==
    /\ here \in Popups!FirstPages
    /\ label \in [Objects -> Int]
    /\ option \in [Popups!Selects -> [Objects -> Int]]
    /\ chosen \in [Popups!Selects -> Objects \cup {Popups!NoObject}]
    /\ linked \in [Popups!Selects -> Objects \cup {Popups!NoObject}]
    /\ select2 \in [DishRows -> [Objects -> Int]]
    /\ rendered \in [DishRows -> [object : Objects \cup {Popups!NoObject}, text : Int]]
    /\ task \in [Popups!Names -> Popups!Tasks]

WindowsAreAbout ==
    \A w \in Popups!Names : Popups!IsOpen(w) =>
        /\ task[w].kind \in {"change", "delete"} => task[w].object \in Objects
        /\ task[w].kind = "delete" => w.field = Plain /\ w.index = 1

(* What a row's window renames, the row has an option for.                 *)
RenamedAreOffered ==
    \A w \in Popups!Names :
        Popups!IsOpen(w) /\ task[w].kind = "change" /\ w.field \in DishRows =>
            option[w.field][task[w].object] # Popups!Missing

SelectsInv ==
    PopupsInv /\ SelectTypes /\ WindowsAreAbout /\ RenamedAreOffered
    /\ Popups!SelectsAreSound

LEMMA SelectsStart == Init => SelectsInv
<1> SUFFICES ASSUME Init PROVE SelectsInv
    OBVIOUS
<1> USE DEF Init, Popups!Init
<1>1. PopupsInv
    BY PopupsStart
<1>2. SelectTypes
    BY DEF SelectTypes, Popups!FirstPages, Popups!OptionsOf, Popups!Tasks, Popups!Missing,
           Popups!NotYet, Popups!NothingKept, Popups!NothingShown
<1>3. WindowsAreAbout /\ RenamedAreOffered
    BY Depths DEF WindowsAreAbout, RenamedAreOffered, Popups!IsOpen
<1>4. Popups!SelectsAreSound
    BY FieldsAreApart
       DEF Popups!SelectsAreSound, Popups!RowIsSound, Popups!OptionsOf, Popups!Selects,
           Popups!NothingKept, Popups!NothingShown
<1> QED
    BY <1>1, <1>2, <1>3, <1>4 DEF SelectsInv

LEMMA TasksAfterClose ==
    ASSUME WindowTypes, SelectTypes, WindowsAreAbout, NEW windows, Popups!Close(windows)
    PROVE  task' \in [Popups!Names -> Popups!Tasks] /\ WindowsAreAbout'
<1>1. \A w \in Popups!Names :
        /\ task'[w] = IF w \in windows THEN Popups!NoTask ELSE task[w]
        /\ opener'[w] = IF w \in windows THEN Popups!NoPage ELSE opener[w]
    BY DEF Popups!Close, Popups!Closed, Popups!Idle
<1>2. task' \in [Popups!Names -> Popups!Tasks]
    BY DEF Popups!Close, Popups!Idle, Popups!Tasks, SelectTypes
<1>3. WindowsAreAbout'
    BY <1>1, Depths DEF WindowsAreAbout, Popups!IsOpen
<1> QED
    BY <1>2, <1>3

LEMMA TasksAfterShow ==
    ASSUME WindowTypes, SelectTypes, WindowsAreAbout, NEW p, NEW field,
           Popups!addPopupIndex(p, field) \in Popups!Names, p # Popups!NoPage,
           NEW what \in Popups!Tasks, Popups!ShowAdminPopup(p, field, what),
           what.kind \in {"change", "delete"} => what.object \in Objects,
           what.kind = "delete" => field = Plain /\ p = Popups!Main
    PROVE  task' \in [Popups!Names -> Popups!Tasks] /\ WindowsAreAbout'
<1> DEFINE name == Popups!addPopupIndex(p, field)
           closing == IF Popups!IsOpen(name) THEN Popups!Below(name) ELSE {}
<1>1. /\ opener' = [Popups!Closed(closing) EXCEPT ![name] = p]
      /\ task' = [Popups!Idle(closing) EXCEPT ![name] = what]
      /\ name \in Popups!Names
    BY DEF Popups!ShowAdminPopup
<1>2. what.kind = "delete" => name.field = Plain /\ name.index = 1
    BY DEF Popups!addPopupIndex, Popups!Main
<1> HIDE DEF name, closing
<1>3. \A w \in Popups!Names :
        /\ task'[w] = IF w = name THEN what
                      ELSE IF w \in closing THEN Popups!NoTask ELSE task[w]
        /\ w # name => opener'[w] = IF w \in closing THEN Popups!NoPage ELSE opener[w]
    BY <1>1 DEF Popups!Closed, Popups!Idle
<1>4. task' \in [Popups!Names -> Popups!Tasks]
    BY <1>1 DEF Popups!Idle, Popups!Tasks, SelectTypes
<1>5. WindowsAreAbout'
    BY <1>2, <1>3, Depths DEF WindowsAreAbout, Popups!IsOpen
<1> QED
    BY <1>4, <1>5

(* A window of a field of the first page has that page behind it, and one  *)
(* that deletes shows it has the one field that allows it.                 *)
LEMMA AnsweredField ==
    ASSUME PopupsInv, NEW w \in Popups!Names, Popups!IsOpen(w), w.field \in Popups!Selects
    PROVE  w.field \in here
<1>1. w.index = 1
    BY FieldsAreApart DEF Popups!Names, Popups!Selects
<1>2. opener[w] \in Popups!Pages /\ w.index = opener[w].index + 1
      /\ Popups!FieldFor(w) \in Popups!FieldsOf(opener[w])
    BY Depths DEF PopupsInv, WindowTypes, Popups!WindowsHaveOpeners, Popups!IsOpen
<1>3. opener[w] = Popups!Main
    BY <1>1, <1>2, Depths DEF Popups!Pages
<1> QED
    BY <1>2, <1>3 DEF Popups!FieldFor, Popups!FieldsOf

(* The page has rows, or the one field that is none.                       *)
LEMMA RowsOrPlain ==
    /\ Plain \notin DishRows /\ Plain \in Popups!Selects /\ DishRows \subseteq Popups!Selects
    /\ SelectTypes => here = DishRows \/ here = {Plain}
BY FieldsAreApart DEF Popups!Selects, SelectTypes, Popups!FirstPages

(* The one field that is no row; and a row that a step leaves alone, which *)
(* takes no name away from an object the row offers.                       *)
LEMMA PlainByItself ==
    ASSUME here' = {Plain}, linked'[Plain] = chosen'[Plain], Popups!OffersAll(Plain)',
           chosen'[Plain] # Popups!NoObject =>
                option'[Plain][chosen'[Plain]] # Popups!Missing
    PROVE  Popups!SelectsAreSound'
BY RowsOrPlain DEF Popups!SelectsAreSound, Popups!OffersAll

LEMMA RowLeftAlone ==
    ASSUME SelectTypes, NEW x \in DishRows, Popups!RowIsSound(x), label' \in [Objects -> Int],
           option'[x] = option[x], select2'[x] = select2[x], rendered'[x] = rendered[x],
           chosen'[x] = chosen[x],
           \A q \in Objects : option[x][q] # Popups!Missing => label[q] <= label'[q]
    PROVE  Popups!RowIsSound(x)'
<1>1. /\ option[x] \in [Objects -> Int] /\ label \in [Objects -> Int]
      /\ label' \in [Objects -> Int]
    BY RowsOrPlain DEF SelectTypes
<1>2. \A q \in Objects : option[x][q] # Popups!Missing =>
        /\ chosen[x] # Popups!NoObject
        /\ select2[x][q] \in 0..option[x][q] /\ option[x][q] <= label'[q]
    BY <1>1 DEF Popups!RowIsSound
<1> QED
    BY <1>2 DEF Popups!RowIsSound

(* A row that shows an object it has just been given, or that a window of  *)
(* its own has renamed: only that option, and its name, are other ones.    *)
LEMMA RowShowsIt ==
    ASSUME SelectTypes, NEW x \in DishRows, Popups!RowIsSound(x), NEW o \in Objects,
           option'[x] \in [Objects -> Int], select2'[x] \in [Objects -> Int],
           label' \in [Objects -> Int],
           \A q \in Objects \ {o} :
                /\ option'[x][q] = option[x][q] /\ select2'[x][q] = select2[x][q]
                /\ label'[q] = label[q],
           select2'[x][o] \in 0..option'[x][o], option'[x][o] <= label'[o],
           chosen'[x] # Popups!NoObject, rendered'[x].object = o,
           rendered'[x].text \in select2'[x][o]..option'[x][o],
           o # chosen'[x] =>
                /\ rendered'[x].text = option'[x][o]
                /\ rendered'[x].text > select2'[x][o]
    PROVE  Popups!RowIsSound(x)'
<1>1. \A q \in Objects : option'[x][q] # Popups!Missing =>
        select2'[x][q] \in 0..option'[x][q] /\ option'[x][q] <= label'[q]
    BY DEF Popups!RowIsSound
<1>2. option'[x][o] # Popups!Missing /\ o # Popups!NoObject
    BY NoneIsNoObject DEF Popups!Missing, Popups!NoObject
<1> QED
    BY <1>1, <1>2 DEF Popups!RowIsSound

(* What the page's fields offer and show, for each of the steps that       *)
(* change it.                                                              *)
LEMMA AddedIsOffered ==
    ASSUME SelectsInv, NEW w \in Popups!Names, NEW o \in Objects, Popups!AnswerAdd(w, o)
    PROVE  Popups!SelectsAreSound' /\ SelectTypes'
<1> DEFINE s == w.field
<1>1. s \in here /\ s \in Popups!Selects /\ SelectTypes /\ Popups!SelectsAreSound
    BY AnsweredField DEF Popups!AnswerAdd, SelectsInv
<1>2. /\ here' = here /\ label' = [label EXCEPT ![o] = 0] /\ label[o] = Popups!NotYet
      /\ option' = Popups!Relabelled(s, o, 0)
      /\ chosen' = [chosen EXCEPT ![s] = o] /\ linked' = [linked EXCEPT ![s] = o]
      /\ select2' = Popups!Keeps(s, o, 0) /\ rendered' = Popups!Shows(s, o, 0)
    BY DEF Popups!AnswerAdd, Popups!FieldFor
<1>3. task' \in [Popups!Names -> Popups!Tasks]
    BY TasksAfterClose DEF Popups!AnswerAdd, SelectsInv, PopupsInv
<1> HIDE DEF s
<1>4. SelectTypes'
    <2>1. /\ label' \in [Objects -> Int]
          /\ chosen' \in [Popups!Selects -> Objects \cup {Popups!NoObject}]
          /\ linked' \in [Popups!Selects -> Objects \cup {Popups!NoObject}]
        BY <1>1, <1>2 DEF SelectTypes
    <2>2. /\ option' \in [Popups!Selects -> [Objects -> Int]]
          /\ select2' \in [DishRows -> [Objects -> Int]]
        BY <1>1, <1>2 DEF SelectTypes, Popups!Relabelled, Popups!Keeps
    <2>3. rendered' \in [DishRows -> [object : Objects \cup {Popups!NoObject}, text : Int]]
        BY <1>1, <1>2 DEF SelectTypes, Popups!Shows
    <2> QED
        BY <1>1, <1>2, <1>3, <2>1, <2>2, <2>3 DEF SelectTypes
<1>5. \A q \in Objects : label'[q] = IF q = o THEN 0 ELSE label[q]
    BY <1>1, <1>2 DEF SelectTypes
<1>6. \A x \in Popups!Selects :
        /\ chosen'[x] = IF x = s THEN o ELSE chosen[x]
        /\ linked'[x] = IF x = s THEN o ELSE linked[x]
    BY <1>1, <1>2 DEF SelectTypes
<1>7. CASE here = DishRows
    <2> SUFFICES ASSUME NEW x \in DishRows
                 PROVE  /\ linked'[x] = chosen'[x] /\ Popups!RowIsSound(x)'
                        /\ chosen'[x] # Popups!NoObject =>
                            option'[x][chosen'[x]] # Popups!Missing
        BY <1>2, <1>7, <1>4, RowsOrPlain DEF Popups!SelectsAreSound
    <2>1. /\ linked[x] = chosen[x] /\ Popups!RowIsSound(x)
          /\ chosen[x] # Popups!NoObject => option[x][chosen[x]] # Popups!Missing
        BY <1>1, <1>7 DEF Popups!SelectsAreSound
    <2>2. CASE x = s
        <3>1. /\ option'[x] = [option[x] EXCEPT ![o] = 0]
              /\ select2'[x] = [select2[x] EXCEPT ![o] = 0]
              /\ rendered'[x] = [object |-> o, text |-> 0]
            BY <1>1, <1>2, <2>2 DEF Popups!Relabelled, Popups!Keeps, Popups!Shows
        <3>2. chosen'[x] = o /\ linked'[x] = o /\ o # Popups!NoObject
            BY <1>1, <1>6, <2>2, NoneIsNoObject DEF Popups!NoObject
        <3>3. option'[x][o] = 0 /\ label'[o] = 0
            BY <1>1, <1>5, <3>1, RowsOrPlain DEF SelectTypes
        <3>4. Popups!RowIsSound(x)'
            <4>1. /\ option'[x] \in [Objects -> Int] /\ select2'[x] \in [Objects -> Int]
                  /\ label' \in [Objects -> Int] /\ select2'[x][o] = 0
                BY <1>1, <1>4, <2>2, <3>1, RowsOrPlain DEF SelectTypes
            <4>2. \A q \in Objects \ {o} :
                    /\ option'[x][q] = option[x][q] /\ select2'[x][q] = select2[x][q]
                    /\ label'[q] = label[q]
                BY <1>1, <1>5, <3>1, RowsOrPlain DEF SelectTypes
            <4>3. /\ select2'[x][o] \in 0..option'[x][o] /\ option'[x][o] <= label'[o]
                  /\ rendered'[x].object = o
                  /\ rendered'[x].text \in select2'[x][o]..option'[x][o]
                BY <3>1, <3>3, <4>1
            <4> QED
                BY <1>1, <2>1, <3>2, <4>1, <4>2, <4>3, RowShowsIt
        <3> QED
            BY <3>2, <3>3, <3>4 DEF Popups!Missing
    <2>3. CASE x # s
        <3>1. /\ option'[x] = option[x] /\ select2'[x] = select2[x]
              /\ rendered'[x] = rendered[x]
            BY <1>2, <2>3, RowsOrPlain
               DEF Popups!Relabelled, Popups!Keeps, Popups!Shows, Popups!Sources
        <3>2. chosen'[x] = chosen[x] /\ linked'[x] = linked[x]
            BY <1>6, <2>3, RowsOrPlain
        <3>3. \A q \in Objects : label[q] <= label'[q]
            BY <1>1, <1>2, <1>5 DEF SelectTypes, Popups!NotYet
        <3>4. Popups!RowIsSound(x)'
            BY <1>1, <1>4, <2>1, <3>1, <3>2, <3>3, RowLeftAlone DEF SelectTypes
        <3> QED
            BY <2>1, <3>1, <3>2, <3>4
    <2> QED
        BY <2>2, <2>3
<1>8. CASE here = {Plain}
    <2>1. s = Plain /\ here' = {Plain}
        BY <1>1, <1>2, <1>8
    <2>2. \A q \in Objects : option'[Plain][q] = IF q = o THEN 0 ELSE option[Plain][q]
        BY <1>1, <1>2, <2>1, RowsOrPlain DEF Popups!Relabelled, SelectTypes
    <2>3. Popups!OffersAll(Plain)'
        BY <1>1, <1>5, <1>8, <2>2
           DEF Popups!OffersAll, Popups!Exists, Popups!SelectsAreSound
    <2> QED
        BY <1>4, <1>6, <2>1, <2>2, <2>3, RowsOrPlain, PlainByItself DEF Popups!Missing
<1> QED
    BY <1>1, <1>4, <1>7, <1>8, RowsOrPlain

LEMMA RenamedIsShown ==
    ASSUME SelectsInv, NEW w \in Popups!Names, Popups!AnswerChange(w)
    PROVE  Popups!SelectsAreSound' /\ SelectTypes'
<1> DEFINE s == w.field
           o == task[w].object
           name == label[o] + 1
<1>1. /\ SelectTypes /\ Popups!SelectsAreSound
      /\ o \in Objects /\ label[o] \in Int /\ label[o] >= 0 /\ name \in Int /\ name > label[o]
    BY DEF Popups!AnswerChange, SelectsInv, WindowsAreAbout, SelectTypes, Popups!Exists
<1>2. /\ here' = here /\ label' = [label EXCEPT ![o] = name]
      /\ chosen' = chosen /\ linked' = linked /\ select2' = select2
      /\ option' = Popups!Relabelled(s, o, name) /\ rendered' = Popups!Shows(s, o, name)
    BY DEF Popups!AnswerChange, Popups!FieldFor
<1>3. task' \in [Popups!Names -> Popups!Tasks]
    BY TasksAfterClose DEF Popups!AnswerChange, SelectsInv, PopupsInv
<1>4. s \in DishRows => option[s][o] # Popups!Missing
    BY DEF SelectsInv, RenamedAreOffered, Popups!AnswerChange
<1> HIDE DEF o, name, s
<1>5. /\ option' \in [Popups!Selects -> [Objects -> Int]]
      /\ rendered' \in [DishRows -> [object : Objects \cup {Popups!NoObject}, text : Int]]
    BY <1>1, <1>2 DEF Popups!Relabelled, Popups!Shows, SelectTypes
<1>6. SelectTypes'
    BY <1>1, <1>2, <1>3, <1>5 DEF SelectTypes
<1>7. \A q \in Objects : label'[q] = IF q = o THEN name ELSE label[q]
    BY <1>1, <1>2 DEF SelectTypes
<1>8. CASE here = DishRows
    <2> SUFFICES ASSUME NEW x \in DishRows
                 PROVE  /\ linked'[x] = chosen'[x] /\ Popups!RowIsSound(x)'
                        /\ chosen'[x] # Popups!NoObject =>
                            option'[x][chosen'[x]] # Popups!Missing
        BY <1>2, <1>8, <1>6, RowsOrPlain DEF Popups!SelectsAreSound
    <2>1. /\ linked[x] = chosen[x] /\ Popups!RowIsSound(x)
          /\ chosen[x] # Popups!NoObject => option[x][chosen[x]] # Popups!Missing
          /\ chosen[x] \in Objects \cup {Popups!NoObject}
          /\ option[x] \in [Objects -> Int] /\ select2[x] \in [Objects -> Int]
        BY <1>1, <1>8, RowsOrPlain DEF Popups!SelectsAreSound, SelectTypes
    <2>2. CASE x = s
        <3>1. /\ option'[x] = [option[x] EXCEPT ![o] = name]
              /\ rendered'[x] = [object |-> o, text |-> name]
              /\ select2'[x] = [select2[x] EXCEPT ![o] = select2[x][o]]
            BY <1>2, <2>1, <2>2, RowsOrPlain DEF Popups!Relabelled, Popups!Shows
        <3>2. /\ chosen[x] # Popups!NoObject
              /\ select2[x][o] \in 0..option[x][o] /\ option[x][o] <= label[o]
            BY <1>1, <1>4, <2>1, <2>2 DEF Popups!RowIsSound
        <3>3. select2[x][o] \in Int /\ select2[x][o] \in 0..name /\ name > select2[x][o]
            BY <1>1, <2>1, <3>2
        <3>4. Popups!RowIsSound(x)'
            <4>1. /\ option'[x] \in [Objects -> Int] /\ select2'[x] \in [Objects -> Int]
                  /\ label' \in [Objects -> Int]
                BY <1>2, <1>6, <2>1, RowsOrPlain DEF SelectTypes
            <4>2. \A q \in Objects \ {o} :
                    /\ option'[x][q] = option[x][q] /\ select2'[x][q] = select2[x][q]
                    /\ label'[q] = label[q]
                BY <1>2, <1>7, <2>1, <3>1
            <4>3. /\ select2'[x][o] \in 0..option'[x][o] /\ option'[x][o] <= label'[o]
                  /\ rendered'[x].object = o /\ rendered'[x].text = option'[x][o]
                  /\ rendered'[x].text \in select2'[x][o]..option'[x][o]
                  /\ rendered'[x].text > select2'[x][o]
                BY <1>1, <1>2, <1>7, <2>1, <3>1, <3>3
            <4> QED
                BY <1>1, <1>2, <2>1, <3>2, <4>1, <4>2, <4>3, RowShowsIt
        <3>5. name # Popups!Missing
            BY <1>1 DEF Popups!Missing
        <3> QED
            BY <1>1, <1>2, <2>1, <3>1, <3>4, <3>5
    <2>3. CASE x # s
        <3>1. option'[x] = option[x] /\ rendered'[x] = rendered[x]
            BY <1>2, <2>3, RowsOrPlain DEF Popups!Relabelled, Popups!Shows, Popups!Sources
        <3>2. \A q \in Objects : label[q] <= label'[q]
            BY <1>1, <1>7 DEF SelectTypes
        <3>3. Popups!RowIsSound(x)'
            BY <1>1, <1>2, <1>6, <2>1, <3>1, <3>2, RowLeftAlone DEF SelectTypes
        <3> QED
            BY <1>2, <2>1, <3>1, <3>3
    <2> QED
        BY <2>2, <2>3
<1>9. CASE here = {Plain}
    <2>1. \A q \in Objects : option'[Plain][q] = IF q = o THEN name ELSE option[Plain][q]
        BY <1>1, <1>2, <1>9, RowsOrPlain
           DEF Popups!Relabelled, Popups!Sources, SelectTypes
    <2>2. Popups!OffersAll(Plain)'
        BY <1>1, <1>7, <1>9, <2>1
           DEF Popups!OffersAll, Popups!Exists, Popups!SelectsAreSound
    <2>3. /\ linked[Plain] = chosen[Plain]
          /\ chosen[Plain] # Popups!NoObject => option[Plain][chosen[Plain]] # Popups!Missing
          /\ chosen[Plain] \in Objects \cup {Popups!NoObject} /\ name # Popups!Missing
        BY <1>1, <1>9, RowsOrPlain DEF Popups!SelectsAreSound, SelectTypes, Popups!Missing
    <2> QED
        BY <1>1, <1>2, <1>6, <1>9, <2>1, <2>2, <2>3, PlainByItself
<1> QED
    BY <1>1, <1>6, <1>8, <1>9, RowsOrPlain

LEMMA DeletedIsGone ==
    ASSUME SelectsInv, NEW w \in Popups!Names, Popups!AnswerDelete(w)
    PROVE  Popups!SelectsAreSound' /\ SelectTypes' /\ here = {Plain}
<1> DEFINE o == task[w].object
<1>1. o \in Objects /\ w.field = Plain /\ Popups!IsOpen(w)
    BY DEF Popups!AnswerDelete, SelectsInv, WindowsAreAbout
<1>2. here = {Plain} /\ Plain \in Popups!Selects
    BY <1>1, AnsweredField, RowsOrPlain DEF SelectsInv
<1>3. /\ here' = here /\ label' = [label EXCEPT ![o] = Popups!Gone]
      /\ option' = [option EXCEPT ![Plain][o] = Popups!Missing]
      /\ chosen' = [chosen EXCEPT ![Plain] = IF @ = o THEN Popups!NoObject ELSE @]
      /\ linked' = [linked EXCEPT ![Plain] = chosen'[Plain]]
      /\ UNCHANGED <<select2, rendered>>
    BY <1>1 DEF Popups!AnswerDelete, Popups!FieldFor
<1>4. task' \in [Popups!Names -> Popups!Tasks]
    BY TasksAfterClose DEF Popups!AnswerDelete, SelectsInv, PopupsInv
<1> HIDE DEF o
<1>5. SelectTypes'
    <2>1. option' \in [Popups!Selects -> [Objects -> Int]]
        BY <1>1, <1>2, <1>3 DEF SelectsInv, SelectTypes, Popups!Missing
    <2>2. chosen' \in [Popups!Selects -> Objects \cup {Popups!NoObject}]
        BY <1>2, <1>3 DEF SelectsInv, SelectTypes
    <2>3. linked' \in [Popups!Selects -> Objects \cup {Popups!NoObject}]
        BY <1>2, <1>3, <2>2 DEF SelectsInv, SelectTypes
    <2> QED
        BY <1>3, <1>4, <2>1, <2>2, <2>3 DEF SelectsInv, SelectTypes, Popups!Gone
<1>6. Popups!SelectsAreSound'
    <2>1. /\ \A q \in Objects :
                /\ option'[Plain][q] = IF q = o THEN Popups!Missing ELSE option[Plain][q]
                /\ label'[q] = IF q = o THEN Popups!Gone ELSE label[q]
          /\ chosen'[Plain] = IF chosen[Plain] = o THEN Popups!NoObject ELSE chosen[Plain]
          /\ linked'[Plain] = chosen'[Plain]
          /\ chosen[Plain] \in Objects \cup {Popups!NoObject}
        BY <1>1, <1>2, <1>3 DEF SelectsInv, SelectTypes
    <2>2. Popups!OffersAll(Plain)'
        BY <1>2, <2>1
           DEF Popups!OffersAll, Popups!Exists, Popups!SelectsAreSound, SelectsInv, Popups!Gone
    <2> QED
        BY <1>2, <1>3, <2>1, <2>2, RowsOrPlain DEF Popups!SelectsAreSound, SelectsInv
<1> QED
    BY <1>2, <1>5, <1>6

LEMMA ChosenIsOffered ==
    ASSUME SelectsInv, NEW s \in Popups!Selects, NEW o \in Objects, Popups!Choose(s, o)
    PROVE  Popups!SelectsAreSound' /\ SelectTypes'
<1>1. /\ SelectTypes /\ Popups!SelectsAreSound
      /\ s \in here /\ here' = here /\ label' = label /\ task' = task
      /\ chosen' = [chosen EXCEPT ![s] = o] /\ linked' = [linked EXCEPT ![s] = o]
    BY DEF Popups!Choose, SelectsInv
<1> PICK name \in Popups!Offered(s, o) :
        IF option[s][o] = Popups!Missing
        THEN /\ option' = [option EXCEPT ![s][o] = name]
             /\ select2' = Popups!Keeps(s, o, name) /\ rendered' = Popups!Shows(s, o, name)
        ELSE rendered' = Popups!Shows(s, o, select2[s][o]) /\ UNCHANGED <<option, select2>>
    BY DEF Popups!Choose
<1>2. \A x \in Popups!Selects :
        /\ chosen'[x] = IF x = s THEN o ELSE chosen[x]
        /\ linked'[x] = IF x = s THEN o ELSE linked[x]
    BY <1>1 DEF SelectTypes
<1>3. /\ chosen' \in [Popups!Selects -> Objects \cup {Popups!NoObject}]
      /\ linked' \in [Popups!Selects -> Objects \cup {Popups!NoObject}]
    BY <1>1 DEF SelectTypes
<1>4. s = Plain => option[s][o] # Popups!Missing
    BY DEF Popups!Offered
<1>5. s # Plain => name \in 0..label[o] /\ label[o] \in Int /\ name \in Int
    BY <1>1 DEF Popups!Offered, SelectTypes
<1>6. SelectTypes'
    <2>1. CASE option[s][o] = Popups!Missing
        <3>1. /\ option' \in [Popups!Selects -> [Objects -> Int]]
              /\ select2' \in [DishRows -> [Objects -> Int]]
              /\ rendered' \in
                    [DishRows -> [object : Objects \cup {Popups!NoObject}, text : Int]]
            BY <1>1, <1>4, <1>5, <2>1 DEF SelectTypes, Popups!Keeps, Popups!Shows
        <3> QED
            BY <1>1, <1>3, <3>1 DEF SelectTypes
    <2>2. CASE option[s][o] # Popups!Missing
        <3>1. rendered' \in [DishRows -> [object : Objects \cup {Popups!NoObject}, text : Int]]
            BY <1>1, <2>2 DEF SelectTypes, Popups!Shows
        <3> QED
            BY <1>1, <1>3, <2>2, <3>1 DEF SelectTypes
    <2> QED
        BY <2>1, <2>2
<1>7. CASE here = DishRows
    <2> SUFFICES ASSUME NEW x \in DishRows
                 PROVE  /\ linked'[x] = chosen'[x] /\ Popups!RowIsSound(x)'
                        /\ chosen'[x] # Popups!NoObject =>
                            option'[x][chosen'[x]] # Popups!Missing
        BY <1>1, <1>7, <1>6, RowsOrPlain DEF Popups!SelectsAreSound
    <2>1. /\ linked[x] = chosen[x] /\ Popups!RowIsSound(x)
          /\ chosen[x] # Popups!NoObject => option[x][chosen[x]] # Popups!Missing
          /\ option[x] \in [Objects -> Int] /\ select2[x] \in [Objects -> Int]
        BY <1>1, <1>7, RowsOrPlain DEF Popups!SelectsAreSound, SelectTypes
    <2>2. CASE x = s
        <3>1. /\ chosen'[x] = o /\ linked'[x] = o /\ o # Popups!NoObject
              /\ name \in 0..label[o] /\ label[o] \in Int /\ name \in Int
            BY <1>2, <1>5, <2>2, RowsOrPlain, NoneIsNoObject DEF Popups!NoObject
        <3>2. CASE option[x][o] = Popups!Missing
            <4>1. /\ option'[x] = [option[x] EXCEPT ![o] = name]
                  /\ select2'[x] = [select2[x] EXCEPT ![o] = name]
                  /\ rendered'[x] = [object |-> o, text |-> name]
                BY <1>1, <2>2, <3>2 DEF SelectTypes, Popups!Keeps, Popups!Shows
            <4>2. name \in 0..name /\ name \in name..name /\ name <= label[o]
                BY <3>1
            <4>3. Popups!RowIsSound(x)'
                <5>1. /\ option'[x] \in [Objects -> Int] /\ select2'[x] \in [Objects -> Int]
                      /\ label' \in [Objects -> Int]
                      /\ option'[x][o] = name /\ select2'[x][o] = name
                    BY <1>1, <1>6, <2>1, <3>1, <4>1 DEF SelectTypes
                <5>2. \A q \in Objects \ {o} :
                        /\ option'[x][q] = option[x][q] /\ select2'[x][q] = select2[x][q]
                        /\ label'[q] = label[q]
                    BY <1>1, <2>1, <4>1
                <5>3. /\ select2'[x][o] \in 0..option'[x][o] /\ option'[x][o] <= label'[o]
                      /\ rendered'[x].object = o
                      /\ rendered'[x].text \in select2'[x][o]..option'[x][o]
                    BY <1>1, <4>1, <4>2, <5>1
                <5> QED
                    BY <1>1, <2>1, <3>1, <5>1, <5>2, <5>3, RowShowsIt
            <4>4. option'[x][o] = name /\ name # Popups!Missing
                BY <2>1, <3>1, <4>1 DEF Popups!Missing
            <4> QED
                BY <3>1, <4>3, <4>4
        <3>3. CASE option[x][o] # Popups!Missing
            <4>1. option' = option /\ select2' = select2
                BY <2>2, <3>3
            <4>2. /\ option'[x] = [option[x] EXCEPT ![o] = option[x][o]]
                  /\ select2'[x] = [select2[x] EXCEPT ![o] = select2[x][o]]
                  /\ rendered'[x] = [object |-> o, text |-> select2[x][o]]
                BY <2>1, <2>2, <3>3, <4>1 DEF Popups!Shows
            <4>3. /\ select2[x][o] \in Int /\ option[x][o] \in Int
                  /\ select2[x][o] \in 0..option[x][o] /\ option[x][o] <= label[o]
                BY <2>1, <3>3 DEF Popups!RowIsSound
            <4>4. select2[x][o] \in select2[x][o]..option[x][o]
                BY <4>3
            <4>5. Popups!RowIsSound(x)'
                <5>1. /\ option'[x] \in [Objects -> Int] /\ select2'[x] \in [Objects -> Int]
                      /\ label' \in [Objects -> Int]
                    BY <1>1, <2>1, <4>1 DEF SelectTypes
                <5>2. \A q \in Objects \ {o} :
                        /\ option'[x][q] = option[x][q] /\ select2'[x][q] = select2[x][q]
                        /\ label'[q] = label[q]
                    BY <1>1, <4>1
                <5>3. /\ select2'[x][o] \in 0..option'[x][o] /\ option'[x][o] <= label'[o]
                      /\ rendered'[x].object = o
                      /\ rendered'[x].text \in select2'[x][o]..option'[x][o]
                    BY <1>1, <4>1, <4>2, <4>3, <4>4
                <5> QED
                    BY <1>1, <2>1, <3>1, <5>1, <5>2, <5>3, RowShowsIt
            <4> QED
                BY <3>1, <3>3, <4>1, <4>5
        <3> QED
            BY <3>2, <3>3
    <2>3. CASE x # s
        <3>1. /\ option'[x] = option[x] /\ select2'[x] = select2[x]
              /\ rendered'[x] = rendered[x]
            BY <1>1, <2>3, RowsOrPlain DEF SelectTypes, Popups!Keeps, Popups!Shows
        <3>2. chosen'[x] = chosen[x] /\ linked'[x] = linked[x]
            BY <1>2, <2>3, RowsOrPlain
        <3>3. \A q \in Objects : label[q] <= label'[q]
            BY <1>1 DEF SelectTypes
        <3>4. Popups!RowIsSound(x)'
            BY <1>1, <1>6, <2>1, <3>1, <3>2, <3>3, RowLeftAlone DEF SelectTypes
        <3> QED
            BY <2>1, <3>1, <3>2, <3>4
    <2> QED
        BY <2>2, <2>3
<1>8. CASE here = {Plain}
    <2>1. s = Plain /\ option' = option /\ option[Plain][o] # Popups!Missing
        BY <1>1, <1>4, <1>8
    <2>2. chosen'[Plain] = o /\ linked'[Plain] = o
        BY <1>2, <2>1, RowsOrPlain
    <2>3. Popups!OffersAll(Plain)'
        BY <1>1, <1>8, <2>1 DEF Popups!OffersAll, Popups!Exists, Popups!SelectsAreSound
    <2> QED
        BY <1>1, <1>6, <1>8, <2>1, <2>2, <2>3, PlainByItself
<1> QED
    BY <1>1, <1>6, <1>7, <1>8, RowsOrPlain

LEMMA LoadedIsCurrent ==
    ASSUME SelectsInv, NEW p \in Popups!FirstPages, Popups!Leave(p)
    PROVE  Popups!SelectsAreSound' /\ SelectTypes'
<1>1. /\ here' = p /\ label' = label /\ option' = Popups!OptionsOf(label)
      /\ chosen' = [s \in Popups!Selects |-> Popups!NoObject]
      /\ linked' = [s \in Popups!Selects |-> Popups!NoObject]
      /\ select2' = Popups!NothingKept /\ rendered' = Popups!NothingShown
      /\ p = DishRows \/ p = {Plain}
    BY DEF Popups!Leave, Popups!FirstPages
<1>2. task' \in [Popups!Names -> Popups!Tasks]
    BY TasksAfterClose DEF Popups!Leave, SelectsInv, PopupsInv
<1>3. SelectTypes'
    BY <1>1, <1>2
       DEF SelectsInv, SelectTypes, Popups!OptionsOf, Popups!Missing, Popups!NothingKept,
           Popups!NothingShown
<1>4. Popups!SelectsAreSound'
    BY <1>1, RowsOrPlain
       DEF Popups!SelectsAreSound, Popups!OffersAll, Popups!Exists, Popups!RowIsSound,
           Popups!OptionsOf, Popups!NothingKept, Popups!NothingShown
<1> QED
    BY <1>3, <1>4

(* A row keeps the options it has, so that what its windows rename stays   *)
(* offered when others close, and when they are about what it has chosen.  *)
LEMMA OffersStay ==
    ASSUME SelectsInv, NEW windows, Popups!Close(windows),
           \A x \in DishRows : \A q \in Objects :
                option[x][q] # Popups!Missing => option'[x][q] # Popups!Missing
    PROVE  RenamedAreOffered'
<1>1. \A w \in Popups!Names :
        /\ task'[w] = IF w \in windows THEN Popups!NoTask ELSE task[w]
        /\ opener'[w] = IF w \in windows THEN Popups!NoPage ELSE opener[w]
    BY DEF Popups!Close, Popups!Closed, Popups!Idle, SelectsInv
<1> SUFFICES ASSUME NEW w \in Popups!Names, Popups!IsOpen(w)', task'[w].kind = "change",
                    w.field \in DishRows
             PROVE  option'[w.field][task'[w].object] # Popups!Missing
    BY DEF RenamedAreOffered
<1>2. task'[w] = task[w] /\ Popups!IsOpen(w)
    BY <1>1, Depths DEF Popups!IsOpen
<1> QED
    BY <1>2 DEF SelectsInv, RenamedAreOffered, WindowsAreAbout

LEMMA OfferedAfterShow ==
    ASSUME SelectsInv, NEW p, NEW field, NEW what, Popups!ShowAdminPopup(p, field, what),
           Popups!addPopupIndex(p, field) \in Popups!Names, UNCHANGED option,
           what.kind = "change" /\ field \in DishRows =>
                option[field][what.object] # Popups!Missing
    PROVE  RenamedAreOffered'
<1> DEFINE name == Popups!addPopupIndex(p, field)
           closing == IF Popups!IsOpen(name) THEN Popups!Below(name) ELSE {}
<1>1. /\ opener' = [Popups!Closed(closing) EXCEPT ![name] = p]
      /\ task' = [Popups!Idle(closing) EXCEPT ![name] = what]
      /\ name \in Popups!Names
    BY DEF Popups!ShowAdminPopup
<1>2. name.field = field
    BY DEF Popups!addPopupIndex
<1> HIDE DEF name, closing
<1>3. \A w \in Popups!Names :
        /\ task'[w] = IF w = name THEN what
                      ELSE IF w \in closing THEN Popups!NoTask ELSE task[w]
        /\ w # name => opener'[w] = IF w \in closing THEN Popups!NoPage ELSE opener[w]
    BY <1>1 DEF Popups!Closed, Popups!Idle
<1> SUFFICES ASSUME NEW w \in Popups!Names, Popups!IsOpen(w)', task'[w].kind = "change",
                    w.field \in DishRows
             PROVE  option[w.field][task'[w].object] # Popups!Missing
    BY DEF RenamedAreOffered
<1>4. CASE w = name
    BY <1>2, <1>3, <1>4
<1>5. CASE w # name
    <2>1. task'[w] = task[w] /\ Popups!IsOpen(w)
        BY <1>3, <1>5, Depths DEF Popups!IsOpen
    <2> QED
        BY <2>1 DEF SelectsInv, RenamedAreOffered
<1> QED
    BY <1>4, <1>5

LEMMA RowsKeepOptions ==
    ASSUME SelectsInv, NEW x \in DishRows, NEW q \in Objects, option[x][q] # Popups!Missing
    PROVE  /\ \A w \in Popups!Names, o \in Objects :
                Popups!AnswerAdd(w, o) => option'[x][q] # Popups!Missing
           /\ \A w \in Popups!Names :
                Popups!AnswerChange(w) \/ Popups!AnswerDelete(w) =>
                    option'[x][q] # Popups!Missing
           /\ \A s \in Popups!Selects, o \in Objects :
                Popups!Choose(s, o) => option'[x][q] # Popups!Missing
<1>1. option \in [Popups!Selects -> [Objects -> Int]] /\ x \in Popups!Selects
    BY RowsOrPlain DEF SelectsInv, SelectTypes
<1>2. ASSUME NEW s, NEW o, NEW name, name # Popups!Missing,
             option' = Popups!Relabelled(s, o, name)
      PROVE  option'[x][q] # Popups!Missing
    BY <1>1, <1>2 DEF Popups!Relabelled
<1>3. ASSUME NEW w \in Popups!Names, NEW o \in Objects, Popups!AnswerAdd(w, o)
      PROVE  option'[x][q] # Popups!Missing
    BY <1>2, <1>3 DEF Popups!AnswerAdd, Popups!Missing
<1>4. ASSUME NEW w \in Popups!Names, Popups!AnswerChange(w)
      PROVE  option'[x][q] # Popups!Missing
    <2>1. label[task[w].object] \in Int /\ label[task[w].object] >= 0
        BY <1>4
           DEF Popups!AnswerChange, SelectsInv, WindowsAreAbout, SelectTypes, Popups!Exists
    <2>2. label[task[w].object] + 1 # Popups!Missing
        BY <2>1 DEF Popups!Missing
    <2> QED
        BY <1>2, <1>4, <2>2 DEF Popups!AnswerChange
<1>5. ASSUME NEW w \in Popups!Names, Popups!AnswerDelete(w)
      PROVE  option'[x][q] # Popups!Missing
    <2>1. w.field = Plain
        BY <1>5 DEF Popups!AnswerDelete, SelectsInv, WindowsAreAbout
    <2> QED
        BY <1>1, <1>5, <2>1, RowsOrPlain DEF Popups!AnswerDelete, Popups!FieldFor
<1>6. ASSUME NEW s \in Popups!Selects, NEW o \in Objects, Popups!Choose(s, o)
      PROVE  option'[x][q] # Popups!Missing
    BY <1>1, <1>6 DEF Popups!Choose
<1> QED
    BY <1>3, <1>4, <1>5, <1>6

LEMMA SelectsKeep == SelectsInv /\ [Popups!Next]_popupsVars => SelectsInv'
<1> SUFFICES ASSUME SelectsInv, [Popups!Next]_popupsVars PROVE SelectsInv'
    OBVIOUS
<1>1. PopupsInv'
    BY PopupsKeep, FieldsAreApart DEF SelectsInv, Popups!Selects
<1>2. WindowTypes /\ SelectTypes /\ WindowsAreAbout /\ Popups!SelectsAreSound
    BY DEF SelectsInv, PopupsInv
<1>3. ASSUME UNCHANGED Popups!fields
      PROVE  /\ Popups!SelectsAreSound'
             /\ task' \in [Popups!Names -> Popups!Tasks] => SelectTypes'
    BY <1>2, <1>3
       DEF Popups!fields, Popups!SelectsAreSound, Popups!RowIsSound, Popups!OffersAll,
           Popups!Exists, SelectTypes
<1>4. ASSUME NEW p \in Popups!Pages, NEW field \in Popups!FieldsOf(p),
             Popups!ClickAdd(p, field)
      PROVE  SelectsInv'
    <2> DEFINE what == [kind |-> "add", object |-> Popups!NoObject]
    <2>1. what \in Popups!Tasks
        BY DEF Popups!Tasks
    <2>2. Popups!addPopupIndex(p, field) \in Popups!Names /\ p # Popups!NoPage
        <3>1. CASE p = Popups!Main
            BY <1>2, <3>1 DEF Popups!FieldsOf, Popups!addPopupIndex, Popups!Names,
                   Popups!Main, Popups!NoPage, WindowTypes
        <3>2. CASE p # Popups!Main
            BY <3>2, FieldsAreApart, Depths DEF Popups!FieldsOf, Popups!addPopupIndex,
                   Popups!Names, Popups!Pages, Popups!Selects
        <3> QED
            BY <3>1, <3>2
    <2>3. Popups!ShowAdminPopup(p, field, what) /\ UNCHANGED Popups!fields
        BY <1>4 DEF Popups!ClickAdd
    <2>4. task' \in [Popups!Names -> Popups!Tasks] /\ WindowsAreAbout'
        BY <1>2, <2>1, <2>2, <2>3, TasksAfterShow
    <2>5. RenamedAreOffered'
        BY <2>2, <2>3, OfferedAfterShow DEF Popups!fields
    <2> QED
        BY <1>1, <1>3, <2>3, <2>4, <2>5 DEF SelectsInv
<1>5. ASSUME NEW s \in Popups!Selects, NEW kind \in {"change", "delete"},
             Popups!ClickLink(s, kind)
      PROVE  SelectsInv'
    <2> DEFINE what == [kind |-> kind, object |-> linked[s]]
    <2>1. what \in Popups!Tasks /\ what.object \in Objects
        BY <1>2, <1>5 DEF Popups!ClickLink, Popups!Tasks, SelectTypes
    <2>2. /\ Popups!addPopupIndex(Popups!Main, s) \in Popups!Names
          /\ Popups!Main # Popups!NoPage
        BY DEF Popups!addPopupIndex, Popups!Names, Popups!Main, Popups!NoPage
    <2>3. /\ Popups!ShowAdminPopup(Popups!Main, s, what)
          /\ what.kind = "delete" => s = Plain
          /\ UNCHANGED Popups!fields
        BY <1>5 DEF Popups!ClickLink
    <2>4. option[s][what.object] # Popups!Missing
        BY <1>2, <1>5 DEF Popups!ClickLink, Popups!SelectsAreSound
    <2> HIDE DEF what
    <2>5. task' \in [Popups!Names -> Popups!Tasks] /\ WindowsAreAbout'
        BY <1>2, <2>1, <2>2, <2>3, TasksAfterShow
    <2>6. RenamedAreOffered'
        BY <2>2, <2>3, <2>4, OfferedAfterShow DEF Popups!fields
    <2> QED
        BY <1>1, <1>3, <2>3, <2>5, <2>6 DEF SelectsInv
<1>6. ASSUME NEW windows, Popups!Close(windows), UNCHANGED Popups!fields
      PROVE  SelectsInv'
    <2>1. RenamedAreOffered'
        BY <1>6, OffersStay DEF Popups!fields
    <2> QED
        BY <1>1, <1>2, <1>3, <1>6, <2>1, TasksAfterClose DEF SelectsInv
<1>7. ASSUME NEW windows, Popups!Close(windows), RenamedAreOffered',
             Popups!SelectsAreSound' /\ SelectTypes'
      PROVE  SelectsInv'
    BY <1>1, <1>2, <1>7, TasksAfterClose DEF SelectsInv
<1>8. ASSUME NEW w \in Popups!Names,
             Popups!CloseWindow(w) \/ Popups!FormRefused(w) \/ Popups!AnswerInner(w)
      PROVE  SelectsInv'
    BY <1>6, <1>8 DEF Popups!CloseWindow, Popups!FormRefused, Popups!AnswerInner
<1>9. ASSUME NEW w \in Popups!Names, NEW o \in Objects, Popups!AnswerAdd(w, o)
      PROVE  SelectsInv'
    <2>1. RenamedAreOffered'
        BY <1>9, OffersStay, RowsKeepOptions DEF Popups!AnswerAdd
    <2> QED
        BY <1>7, <1>9, <2>1, AddedIsOffered DEF Popups!AnswerAdd
<1>10. ASSUME NEW w \in Popups!Names, Popups!AnswerChange(w) \/ Popups!AnswerDelete(w)
       PROVE  SelectsInv'
    <2>1. RenamedAreOffered'
        BY <1>10, OffersStay, RowsKeepOptions DEF Popups!AnswerChange, Popups!AnswerDelete
    <2> QED
        BY <1>7, <1>10, <2>1, RenamedIsShown, DeletedIsGone
           DEF Popups!AnswerChange, Popups!AnswerDelete
<1>11. ASSUME NEW s \in Popups!Selects, NEW o \in Objects, Popups!Choose(s, o)
       PROVE  SelectsInv'
    <2>1. UNCHANGED <<opener, task>>
        BY <1>11 DEF Popups!Choose
    <2>2. WindowsAreAbout'
        BY <1>2, <2>1 DEF WindowsAreAbout, Popups!IsOpen
    <2>3. \A x \in DishRows : \A q \in Objects :
            option[x][q] # Popups!Missing => option'[x][q] # Popups!Missing
        BY <1>11, RowsKeepOptions
    <2>4. RenamedAreOffered'
        BY <1>2, <2>1, <2>3
           DEF RenamedAreOffered, SelectsInv, WindowsAreAbout, Popups!IsOpen
    <2> QED
        BY <1>1, <1>11, <2>2, <2>4, ChosenIsOffered DEF SelectsInv
<1>12. ASSUME NEW p \in Popups!FirstPages, Popups!Leave(p) PROVE SelectsInv'
    <2>1. \A w \in Popups!Names : ~Popups!IsOpen(w)'
        BY <1>12, LeftClosesAll, Depths DEF SelectsInv, Popups!IsOpen
    <2>2. RenamedAreOffered'
        BY <2>1 DEF RenamedAreOffered
    <2> QED
        BY <1>7, <1>12, <2>2, LoadedIsCurrent DEF Popups!Leave
<1>13. CASE UNCHANGED popupsVars
    <2>1. UNCHANGED <<opener, task, option>> /\ UNCHANGED Popups!fields
        BY <1>13 DEF popupsVars, Popups!fields
    <2>2. WindowsAreAbout' /\ RenamedAreOffered'
        BY <1>2, <2>1 DEF SelectsInv, WindowsAreAbout, RenamedAreOffered, Popups!IsOpen
    <2> QED
        BY <1>1, <1>2, <1>3, <2>1, <2>2 DEF SelectsInv, SelectTypes
<1> QED
    BY <1>4, <1>5, <1>8, <1>9, <1>10, <1>11, <1>12, <1>13 DEF Popups!Next

(* In whatever order the windows of the fields are answered, on a page of  *)
(* any fields and for any objects: the links beside a field are about what *)
(* it has chosen; a plain field offers what there is by the name it has;   *)
(* and a row shows a name that the object it is of has or had, of another  *)
(* object than the one chosen only after a rename of its own.              *)
THEOREM FieldsAnswerForThemselves == Spec => []SelectsAreSound
<1>1. [Next]_vars => [Popups!Next]_popupsVars
    BY OneWidgetMoves
<1>2. SelectsInv => SelectsAreSound
    BY DEF SelectsInv, SelectsAreSound
<1> QED
    BY <1>1, <1>2, SelectsStart, SelectsKeep, PTL DEF Spec

-----------------------------------------------------------------------------
(* What the tabs keep.                                                     *)

StoredTypes ==
    /\ theme \in [Tabs -> Stored!Themes] /\ storedTheme \in Stored!Themes
    /\ storedOpen \in {"none", "true", "false"}
    /\ expanded \in [Tabs -> BOOLEAN] /\ shifted \in [Tabs -> BOOLEAN]
    /\ box \in [Tabs -> Typed \cup {""}] /\ keptText \in [Tabs -> Typed \cup {""}]
    /\ modelsHidden \in [Tabs -> SUBSET Models] /\ noResults \in [Tabs -> BOOLEAN]
    /\ listed \in [Tabs -> Lists] /\ folded \in [Tabs -> SUBSET Stored!Titles]
    /\ keptFolds \in [Tabs -> [Stored!Titles -> {"none", "open", "folded"}]]

(* The text of the filter is kept in lower case, so that it hides as much  *)
(* when it is put back.                                                    *)
KeptInLower == \A t \in Tabs : keptText[t] # "" => Lower[keptText[t]] = keptText[t]

StoredInv == StoredTypes /\ KeptInLower /\ Stored!ShownAsKept

(* The parts of what is shown: of the theme, of the sidebar, of the quick  *)
(* filter, and of the filters of a list.                                   *)
ThemeShown == \E t \in Tabs : theme[t] = storedTheme
SideShown ==
    /\ \E t \in Tabs : expanded[t] = (storedOpen # "false")
    /\ \A t \in Tabs : shifted[t] = expanded[t]
QuickShown ==
    \A t \in Tabs :
        /\ box[t] # "" => Lower[box[t]] = keptText[t]
        /\ modelsHidden[t] = IF box[t] = "" THEN {} ELSE Models \ Having[Lower[box[t]]]
        /\ noResults[t] = (modelsHidden[t] = Models)
FoldsShown ==
    \A t \in Tabs :
        folded[t] = {title \in FiltersOf[listed[t]] : keptFolds[t][title] = "folded"}

LEMMA ShownInParts ==
    Stored!ShownAsKept <=> ThemeShown /\ SideShown /\ QuickShown /\ FoldsShown
BY DEF Stored!ShownAsKept, ThemeShown, SideShown, QuickShown, FoldsShown

LEMMA TitlesOfList ==
    ASSUME NEW l \in Lists
    PROVE  FiltersOf[l] \subseteq Stored!Titles
BY DEF Stored!Titles

LEMMA StoredStart == Init => StoredInv
<1> SUFFICES ASSUME Init PROVE StoredInv
    OBVIOUS
<1> USE DEF Init, Stored!Init
<1>1. StoredTypes
    <2>1. (CHOOSE l \in Lists : TRUE) \in Lists
        BY SomethingThere
    <2>2. /\ listed \in [Tabs -> Lists] /\ folded \in [Tabs -> SUBSET Stored!Titles]
          /\ keptFolds \in [Tabs -> [Stored!Titles -> {"none", "open", "folded"}]]
        BY <2>1
    <2> QED
        BY <2>2 DEF StoredTypes, Stored!Themes
<1>2. KeptInLower
    BY DEF KeptInLower
<1>3. ThemeShown /\ SideShown
    <2> PICK t \in Tabs : TRUE
        BY SomethingThere
    <2>1. theme[t] = storedTheme /\ expanded[t] = (storedOpen # "false")
        OBVIOUS
    <2> QED
        BY <2>1 DEF ThemeShown, SideShown
<1>4. QuickShown
    BY SomethingThere DEF QuickShown
<1>5. FoldsShown
    <2> SUFFICES ASSUME NEW t \in Tabs
                 PROVE  folded[t] = {title \in FiltersOf[listed[t]] :
                                        keptFolds[t][title] = "folded"}
        BY DEF FoldsShown
    <2>1. FiltersOf[listed[t]] \subseteq Stored!Titles
        BY <1>1, TitlesOfList DEF StoredTypes
    <2>2. \A title \in Stored!Titles : keptFolds[t][title] = "none"
        OBVIOUS
    <2> QED
        BY <2>1, <2>2
<1>6. Stored!ShownAsKept
    BY <1>3, <1>4, <1>5, ShownInParts
<1> QED
    BY <1>1, <1>2, <1>6 DEF StoredInv

(* The quick filter is checked for a text: what is in the box from now on, *)
(* in lower case.                                                          *)
LEMMA QuickKeeps ==
    ASSUME StoredTypes, KeptInLower, QuickShown,
           NEW t \in Tabs, NEW w \in Typed \cup {""}, NEW low \in Typed \cup {""},
           w = "" <=> low = "", w # "" => Lower[w] = low, low # "" => Lower[low] = low,
           box' = [box EXCEPT ![t] = w], Stored!CheckValue(t, low)
    PROVE  /\ QuickShown' /\ KeptInLower'
           /\ box' \in [Tabs -> Typed \cup {""}] /\ keptText' \in [Tabs -> Typed \cup {""}]
           /\ modelsHidden' \in [Tabs -> SUBSET Models] /\ noResults' \in [Tabs -> BOOLEAN]
<1> DEFINE lacking == Stored!Lacking(low)
<1>1. lacking = (IF w = "" THEN {} ELSE Models \ Having[Lower[w]]) /\ lacking \subseteq Models
    BY DEF Stored!Lacking
<1>2. (low # "" /\ lacking = Models) = (lacking = Models)
    BY SomethingThere DEF Stored!Lacking
<1>3. /\ modelsHidden' = [modelsHidden EXCEPT ![t] = lacking]
      /\ noResults' = [noResults EXCEPT ![t] = low # "" /\ lacking = Models]
      /\ keptText' = [keptText EXCEPT ![t] = low]
    BY DEF Stored!CheckValue
<1> HIDE DEF lacking
<1>4. /\ box' \in [Tabs -> Typed \cup {""}] /\ keptText' \in [Tabs -> Typed \cup {""}]
      /\ modelsHidden' \in [Tabs -> SUBSET Models] /\ noResults' \in [Tabs -> BOOLEAN]
    BY <1>1, <1>3 DEF StoredTypes
<1>5. /\ \A x \in Tabs \ {t} :
            /\ box'[x] = box[x] /\ keptText'[x] = keptText[x]
            /\ modelsHidden'[x] = modelsHidden[x] /\ noResults'[x] = noResults[x]
      /\ box'[t] = w /\ keptText'[t] = low
      /\ modelsHidden'[t] = lacking /\ noResults'[t] = (low # "" /\ lacking = Models)
    BY <1>3 DEF StoredTypes
<1>6. QuickShown'
    <2> SUFFICES ASSUME NEW x \in Tabs
                 PROVE  /\ box'[x] # "" => Lower[box'[x]] = keptText'[x]
                        /\ modelsHidden'[x] =
                                IF box'[x] = "" THEN {} ELSE Models \ Having[Lower[box'[x]]]
                        /\ noResults'[x] = (modelsHidden'[x] = Models)
        BY DEF QuickShown
    <2>1. CASE x = t
        BY <1>1, <1>2, <1>5, <2>1
    <2>2. CASE x # t
        <3>1. /\ box'[x] = box[x] /\ keptText'[x] = keptText[x]
              /\ modelsHidden'[x] = modelsHidden[x] /\ noResults'[x] = noResults[x]
            BY <1>5, <2>2
        <3>2. /\ box[x] # "" => Lower[box[x]] = keptText[x]
              /\ modelsHidden[x] =
                    IF box[x] = "" THEN {} ELSE Models \ Having[Lower[box[x]]]
              /\ noResults[x] = (modelsHidden[x] = Models)
            BY DEF QuickShown
        <3> QED
            BY <3>1, <3>2
    <2> QED
        BY <2>1, <2>2
<1>7. KeptInLower'
    BY <1>5 DEF KeptInLower
<1> QED
    BY <1>4, <1>6, <1>7

LEMMA StoredKeeps == StoredInv /\ [Stored!Next]_storedVars => StoredInv'
<1> SUFFICES ASSUME StoredInv, [Stored!Next]_storedVars PROVE StoredInv'
    OBVIOUS
<1> DEFINE themeTypes ==
               theme \in [Tabs -> Stored!Themes] /\ storedTheme \in Stored!Themes
           sideTypes ==
               /\ storedOpen \in {"none", "true", "false"}
               /\ expanded \in [Tabs -> BOOLEAN] /\ shifted \in [Tabs -> BOOLEAN]
           quickTypes ==
               /\ box \in [Tabs -> Typed \cup {""}] /\ keptText \in [Tabs -> Typed \cup {""}]
               /\ modelsHidden \in [Tabs -> SUBSET Models]
               /\ noResults \in [Tabs -> BOOLEAN]
           foldTypes ==
               /\ listed \in [Tabs -> Lists] /\ folded \in [Tabs -> SUBSET Stored!Titles]
               /\ keptFolds \in [Tabs -> [Stored!Titles -> {"none", "open", "folded"}]]
           themeOK == themeTypes /\ ThemeShown
           sideOK == sideTypes /\ SideShown
           quickOK == quickTypes /\ QuickShown /\ KeptInLower
           foldsOK == foldTypes /\ FoldsShown
<1>1. StoredInv <=> themeOK /\ sideOK /\ quickOK /\ foldsOK
    BY ShownInParts DEF StoredInv, StoredTypes
<1>2. StoredInv' <=> themeOK' /\ sideOK' /\ quickOK' /\ foldsOK'
    BY ShownInParts, PTL DEF StoredInv, StoredTypes
<1>3. UNCHANGED Stored!themeVars => themeOK'
    BY <1>1 DEF Stored!themeVars, ThemeShown
<1>4. UNCHANGED Stored!sideVars => sideOK'
    BY <1>1 DEF Stored!sideVars, SideShown
<1>5. ASSUME UNCHANGED Stored!quickVars PROVE quickOK'
    <2>1. /\ box' = box /\ modelsHidden' = modelsHidden
          /\ noResults' = noResults /\ keptText' = keptText
        BY <1>5 DEF Stored!quickVars
    <2>2. quickTypes'
        BY <1>1, <2>1
    <2>3. QuickShown' /\ KeptInLower'
        BY <1>1, <2>1, Zenon DEF QuickShown, KeptInLower
    <2> QED
        BY <2>2, <2>3
<1>6. ASSUME UNCHANGED Stored!foldVars PROVE foldsOK'
    <2>1. listed' = listed /\ folded' = folded /\ keptFolds' = keptFolds
        BY <1>6 DEF Stored!foldVars
    <2>2. foldTypes'
        BY <1>1, <2>1
    <2>3. FoldsShown'
        BY <1>1, <2>1, Zenon DEF FoldsShown
    <2> QED
        BY <2>2, <2>3
<1>7. ASSUME NEW t \in Tabs, storedTheme' \in Stored!Themes,
             theme' = [theme EXCEPT ![t] = storedTheme']
      PROVE  themeOK'
    BY <1>1, <1>7 DEF ThemeShown
<1>8. ASSUME NEW t \in Tabs, NEW low \in Typed \cup {""}, NEW w \in Typed \cup {""},
             w = "" <=> low = "", w # "" => Lower[w] = low,
             low # "" => Lower[low] = low,
             box' = [box EXCEPT ![t] = w], Stored!CheckValue(t, low)
      PROVE  quickOK'
    BY <1>1, <1>8, QuickKeeps DEF StoredTypes, StoredInv
<1>9. ASSUME NEW t \in Tabs, Stored!CycleTheme(t) PROVE StoredInv'
    <2>1. Stored!NextTheme \in Stored!Themes
        <3> DEFINE order == IF prefersDark THEN <<"auto", "light", "dark">>
                                           ELSE <<"auto", "dark", "light">>
                   at == CHOOSE k \in 1..3 : order[k] = storedTheme
        <3>1. \A k \in 1..3 : order[k] \in Stored!Themes
            BY DEF Stored!Themes
        <3>2. \E k \in 1..3 : order[k] = storedTheme
            <4>1. CASE storedTheme = "auto"
                BY <4>1
            <4>2. CASE storedTheme = "light"
                BY <4>2
            <4>3. CASE storedTheme = "dark"
                BY <4>3
            <4> QED
                BY <1>1, <4>1, <4>2, <4>3 DEF Stored!Themes
        <3>3. Stored!NextTheme = order[(at % 3) + 1]
            BY DEF Stored!NextTheme
        <3> HIDE DEF order
        <3>4. at \in 1..3
            BY <3>2
        <3> HIDE DEF at
        <3>5. (at % 3) + 1 \in 1..3
            BY <3>4
        <3> QED
            BY <3>1, <3>3, <3>5
    <2> QED
        BY <1>2, <1>4, <1>5, <1>6, <1>7, <1>9, <2>1 DEF Stored!CycleTheme
<1>10. CASE Stored!SystemTheme
    BY <1>2, <1>3, <1>4, <1>5, <1>6, <1>10 DEF Stored!SystemTheme
<1>11. ASSUME NEW t \in Tabs, Stored!ToggleSidebar(t) PROVE StoredInv'
    <2>1. sideOK'
        BY <1>1, <1>11 DEF Stored!ToggleSidebar, SideShown
    <2> QED
        BY <1>2, <1>3, <1>5, <1>6, <1>11, <2>1 DEF Stored!ToggleSidebar
<1>12. ASSUME NEW t \in Tabs, NEW w \in Typed, Stored!TypeFilter(t, w) PROVE StoredInv'
    <2>1. w # "" /\ Lower[w] \in Typed /\ Lower[w] # "" /\ Lower[Lower[w]] = Lower[w]
        BY LowerIsLower
    <2>2. quickOK'
        BY <1>8, <1>12, <2>1 DEF Stored!TypeFilter
    <2> QED
        BY <1>2, <1>3, <1>4, <1>6, <1>12, <2>2 DEF Stored!TypeFilter
<1>13. ASSUME NEW t \in Tabs, Stored!EscapeFilter(t) PROVE StoredInv'
    <2>1. quickOK'
        BY <1>8, <1>13 DEF Stored!EscapeFilter
    <2> QED
        BY <1>2, <1>3, <1>4, <1>6, <1>13, <2>1 DEF Stored!EscapeFilter
<1>14. ASSUME NEW t \in Tabs, NEW title \in Stored!Titles, Stored!ToggleFilter(t, title)
       PROVE  StoredInv'
    <2>1. /\ title \in FiltersOf[listed[t]] /\ listed' = listed
          /\ folded' = [folded EXCEPT ![t] =
                IF title \in @ THEN @ \ {title} ELSE @ \cup {title}]
          /\ keptFolds' = [keptFolds EXCEPT ![t][title] =
                IF title \in folded'[t] THEN "folded" ELSE "open"]
        BY <1>14 DEF Stored!ToggleFilter
    <2>2. foldTypes'
        BY <1>1, <2>1
    <2>3. ASSUME NEW x \in Tabs
          PROVE  folded'[x] = {y \in FiltersOf[listed'[x]] : keptFolds'[x][y] = "folded"}
        <3>1. folded[x] = {y \in FiltersOf[listed[x]] : keptFolds[x][y] = "folded"}
            BY <1>1 DEF FoldsShown
        <3>2. CASE x # t
            <4>1. folded'[x] = folded[x] /\ keptFolds'[x] = keptFolds[x]
                BY <1>1, <2>1, <3>2
            <4> QED
                BY <2>1, <3>1, <4>1
        <3>3. CASE x = t
            <4>1. folded'[t] = IF title \in folded[t] THEN folded[t] \ {title}
                               ELSE folded[t] \cup {title}
                BY <1>1, <2>1
            <4>2. \A y \in Stored!Titles : keptFolds'[t][y] =
                    IF y # title THEN keptFolds[t][y]
                    ELSE IF title \in folded'[t] THEN "folded" ELSE "open"
                BY <1>1, <2>1
            <4>3. FiltersOf[listed[t]] \subseteq Stored!Titles
                BY <1>1, TitlesOfList
            <4> QED
                BY <2>1, <3>1, <3>3, <4>1, <4>2, <4>3
        <3> QED
            BY <3>2, <3>3
    <2>4. foldsOK'
        BY <2>2, <2>3 DEF FoldsShown
    <2> QED
        BY <1>2, <1>3, <1>4, <1>5, <1>14, <2>4 DEF Stored!ToggleFilter
<1>15. ASSUME NEW t \in Tabs, NEW l \in Lists, Stored!Load(t, l) PROVE StoredInv'
    <2>1. themeOK'
        BY <1>1, <1>7, <1>15 DEF Stored!Load
    <2>2. sideOK'
        BY <1>1, <1>15 DEF Stored!Load, Stored!LoadSidebar, SideShown
    <2>3. quickOK'
        BY <1>1, <1>8, <1>15 DEF Stored!Load, Stored!LoadQuickFilter, KeptInLower
    <2>4. foldsOK'
        <3>1. /\ listed' = [listed EXCEPT ![t] = l] /\ keptFolds' = keptFolds
              /\ folded' = [folded EXCEPT ![t] =
                    {title \in FiltersOf[l] : keptFolds[t][title] = "folded"}]
            BY <1>15 DEF Stored!Load, Stored!LoadFilters
        <3>2. foldTypes'
            BY <1>1, <3>1, TitlesOfList
        <3>3. ASSUME NEW x \in Tabs
              PROVE  folded'[x] =
                        {title \in FiltersOf[listed'[x]] : keptFolds'[x][title] = "folded"}
            <4>1. CASE x = t
                BY <1>1, <3>1, <4>1
            <4>2. CASE x # t
                <5>1. folded[x] =
                        {title \in FiltersOf[listed[x]] : keptFolds[x][title] = "folded"}
                    BY <1>1 DEF FoldsShown
                <5>2. folded'[x] = folded[x] /\ listed'[x] = listed[x]
                    BY <1>1, <3>1, <4>2
                <5> QED
                    BY <3>1, <5>1, <5>2
            <4> QED
                BY <4>1, <4>2
        <3> QED
            BY <3>2, <3>3 DEF FoldsShown
    <2> QED
        BY <1>2, <2>1, <2>2, <2>3, <2>4
<1>16. CASE UNCHANGED storedVars
    BY <1>2, <1>3, <1>4, <1>5, <1>6, <1>16
       DEF storedVars, Stored!themeVars, Stored!sideVars, Stored!quickVars, Stored!foldVars
<1> QED
    BY <1>9, <1>10, <1>11, <1>12, <1>13, <1>14, <1>15, <1>16 DEF Stored!Next

(* Whatever is chosen in any number of tabs, in any order, a tab shows     *)
(* what is kept, but for the theme and the sidebar another tab has chosen. *)
THEOREM TabsShowWhatIsKept == Spec => []ShownAsKept
<1>1. [Next]_vars => [Stored!Next]_storedVars
    BY OneWidgetMoves
<1>2. StoredInv => ShownAsKept
    BY DEF StoredInv, ShownAsKept
<1> QED
    BY <1>1, <1>2, StoredStart, StoredKeeps, PTL DEF Spec

-----------------------------------------------------------------------------
(* The boxes. A box is open only if its own click is listened to and its   *)
(* icon is the one on the page; what closes the boxes of a page, one by    *)
(* one or all, opens none.                                                 *)
Box == [open : BOOLEAN, listening : BOOLEAN]

GoodBoxes(boxes, n) ==
    /\ n \in Nat \ {0} /\ boxes \in [1..n -> Box]
    /\ \A k \in 1..n : boxes[k].open => boxes[k].listening /\ k = n

BoxesInv == GoodBoxes(calendars, Dates!num) /\ GoodBoxes(clocks, Dates!num)

LEMMA LenOfBoxes ==
    ASSUME NEW n \in Nat, NEW boxes \in [1..n -> Box]
    PROVE  boxes \in Seq(Box) /\ Len(boxes) = n
OBVIOUS

LEMMA OneBox == GoodBoxes(<<Dates!NewBox>>, 1)
<1> DEFINE one == <<Dates!NewBox>>
<1>1. Dates!NewBox \in Box /\ ~Dates!NewBox.open
    BY DEF Box, Dates!NewBox
<1>2. one \in Seq(Box) /\ Len(one) = 1 /\ one[1] = Dates!NewBox
    BY <1>1
<1>3. one \in [1..1 -> Box]
    BY <1>2, LenProperties
<1> QED
    BY <1>1, <1>2, <1>3 DEF GoodBoxes

LEMMA LastBoxSet ==
    ASSUME NEW n, NEW boxes, GoodBoxes(boxes, n), NEW b \in Box, b.open => b.listening
    PROVE  GoodBoxes([boxes EXCEPT ![n] = b], n)
BY DEF GoodBoxes

LEMMA AfterClickGood ==
    ASSUME NEW n, NEW boxes, GoodBoxes(boxes, n)
    PROVE  GoodBoxes(Dates!AfterClick(boxes), n)
<1>1. DOMAIN boxes = 1..n
    BY DEF GoodBoxes
<1>2. Dates!AfterClick(boxes) \in [1..n -> Box]
    BY <1>1 DEF GoodBoxes, Dates!AfterClick, Dates!Dismissed, Dates!NewBox, Box
<1> QED
    BY <1>1, <1>2 DEF GoodBoxes, Dates!AfterClick, Dates!Dismissed, Dates!NewBox

(* A widget that is set up again while its box is open: the click on "Add  *)
(* another" closes it, since it was listened to.                           *)
LEMMA AppendedGood ==
    ASSUME NEW n, NEW boxes, GoodBoxes(boxes, n)
    PROVE  GoodBoxes(Dates!AfterClick(Append(boxes, Dates!NewBox)), n + 1)
<1> DEFINE more == Append(boxes, Dates!NewBox)
<1>1. boxes \in Seq(Box) /\ Len(boxes) = n /\ Dates!NewBox \in Box /\ n \in Nat
    BY LenOfBoxes DEF GoodBoxes, Box, Dates!NewBox
<1>2. /\ more \in [1..(n + 1) -> Box] /\ more[n + 1] = Dates!NewBox
      /\ \A k \in 1..n : more[k] = boxes[k]
    <2>1. /\ more \in Seq(Box) /\ Len(more) = n + 1
          /\ \A k \in 1..n : more[k] = boxes[k]
          /\ more[n + 1] = Dates!NewBox
        BY <1>1, AppendProperties
    <2> HIDE DEF more
    <2>2. more \in [1..Len(more) -> Box]
        BY <2>1, LenProperties
    <2> QED
        BY <2>1, <2>2
<1> HIDE DEF more
<1>3. DOMAIN more = 1..(n + 1)
    BY <1>2
<1>4. Dates!AfterClick(more) \in [1..(n + 1) -> Box]
    BY <1>2, <1>3 DEF Dates!AfterClick, Dates!Dismissed, Dates!NewBox, Box
<1>5. ASSUME NEW k \in 1..(n + 1) PROVE ~Dates!AfterClick(more)[k].open
    <2>1. more[k].open => more[k].listening
        BY <1>1, <1>2 DEF GoodBoxes, Dates!NewBox
    <2> QED
        BY <1>3, <2>1 DEF Dates!AfterClick, Dates!Dismissed, Dates!NewBox
<1> QED
    BY <1>1, <1>4, <1>5 DEF GoodBoxes, more

LEMMA AllDismissed ==
    ASSUME NEW n, NEW boxes, GoodBoxes(boxes, n)
    PROVE  GoodBoxes([k \in DOMAIN boxes |-> Dates!Dismissed], n)
BY DEF GoodBoxes, Dates!Dismissed, Dates!NewBox, Box

LEMMA BoxesStay ==
    ASSUME NEW n, GoodBoxes(calendars', n), GoodBoxes(clocks', n)
    PROVE  BoxesInv'
<1>1. Len(calendars') = n
    BY LenOfBoxes DEF GoodBoxes
<1> QED
    BY <1>1 DEF BoxesInv, Dates!num

LEMMA BoxesKeep == BoxesInv /\ [Dates!Next]_datesVars => BoxesInv'
<1> SUFFICES ASSUME BoxesInv, [Dates!Next]_datesVars PROVE BoxesInv'
    OBVIOUS
<1> PICK n : n = Dates!num
    OBVIOUS
<1>1. GoodBoxes(calendars, n) /\ GoodBoxes(clocks, n) /\ n \in Nat \ {0}
    BY DEF BoxesInv, GoodBoxes
<1>2. /\ GoodBoxes(Dates!AfterClick(calendars), n) /\ GoodBoxes(Dates!AfterClick(clocks), n)
      /\ GoodBoxes(Dates!AfterClick(Append(calendars, Dates!NewBox)), n + 1)
      /\ GoodBoxes(Dates!AfterClick(Append(clocks, Dates!NewBox)), n + 1)
      /\ GoodBoxes([k \in DOMAIN calendars |-> Dates!Dismissed], n)
      /\ GoodBoxes([k \in DOMAIN clocks |-> Dates!Dismissed], n)
    BY <1>1, AfterClickGood, AppendedGood, AllDismissed
<1>3. ASSUME NEW b \in Box, b.open => b.listening
      PROVE  /\ GoodBoxes([calendars EXCEPT ![n] = b], n)
             /\ GoodBoxes([clocks EXCEPT ![n] = b], n)
    BY <1>1, <1>3, LastBoxSet
<1>4. /\ GoodBoxes([calendars EXCEPT ![n] = Dates!Dismissed], n)
      /\ GoodBoxes([clocks EXCEPT ![n] = Dates!Dismissed], n)
    BY <1>3 DEF Dates!Dismissed, Dates!NewBox, Box
<1>5. /\ GoodBoxes([calendars EXCEPT ![n] = [open |-> TRUE, listening |-> TRUE]], n)
      /\ GoodBoxes([clocks EXCEPT ![n] = [open |-> TRUE, listening |-> TRUE]], n)
    BY <1>3 DEF Box
<1>6. GoodBoxes([calendars EXCEPT ![n].open = FALSE], n)
    <2> DEFINE hidden == [calendars[n] EXCEPT !.open = FALSE]
    <2>1. calendars[n] \in Box
        BY <1>1 DEF GoodBoxes
    <2>2. hidden \in Box /\ ~hidden.open
        BY <2>1 DEF Box
    <2>3. [calendars EXCEPT ![n].open = FALSE] = [calendars EXCEPT ![n] = hidden]
        OBVIOUS
    <2> HIDE DEF hidden
    <2> QED
        BY <1>3, <2>2, <2>3
<1>7. /\ GoodBoxes(Dates!AfterClick([calendars EXCEPT ![n] = Dates!Dismissed]), n)
      /\ GoodBoxes(Dates!AfterClick([clocks EXCEPT ![n] = Dates!Dismissed]), n)
    BY <1>4, AfterClickGood
<1>8. CASE UNCHANGED <<calendars, clocks>>
    BY <1>1, <1>8, BoxesStay
<1>9. ASSUME NEW offset, Dates!Load(offset) PROVE BoxesInv'
    BY <1>9, OneBox, BoxesStay DEF Dates!Load
<1>10. CASE Dates!OpenCalendar
    BY <1>1, <1>5, <1>10, BoxesStay DEF Dates!OpenCalendar
<1>11. CASE Dates!CancelCalendar
    BY <1>1, <1>4, <1>11, BoxesStay DEF Dates!CancelCalendar
<1>12. CASE Dates!OpenClock
    BY <1>1, <1>5, <1>12, BoxesStay DEF Dates!OpenClock
<1>13. CASE Dates!CancelClock
    BY <1>1, <1>4, <1>13, BoxesStay DEF Dates!CancelClock
<1>14. CASE Dates!Escape
    BY <1>2, <1>14, BoxesStay DEF Dates!Escape
<1>15. CASE Dates!ClickElsewhere
    BY <1>2, <1>15, BoxesStay DEF Dates!ClickElsewhere
<1>16. CASE Dates!DrawPrev \/ Dates!DrawNext
    BY <1>8, <1>16 DEF Dates!DrawPrev, Dates!DrawNext, Dates!Leaf
<1>17. ASSUME NEW d, Dates!PickDay(d) PROVE BoxesInv'
    BY <1>1, <1>6, <1>17, BoxesStay DEF Dates!PickDay
<1>18. ASSUME NEW offset, Dates!QuickLink(offset) PROVE BoxesInv'
    BY <1>1, <1>4, <1>18, BoxesStay DEF Dates!QuickLink
<1>19. CASE Dates!TodayLink
    BY <1>2, <1>7, <1>19, BoxesStay DEF Dates!TodayLink
<1>20. ASSUME NEW h, Dates!PickHour(h) PROVE BoxesInv'
    BY <1>1, <1>4, <1>20, BoxesStay DEF Dates!PickHour
<1>21. CASE Dates!NowLink
    BY <1>2, <1>7, <1>21, BoxesStay DEF Dates!NowLink
<1>22. ASSUME NEW typed, Dates!Type(typed) PROVE BoxesInv'
    BY <1>8, <1>22 DEF Dates!Type
<1>23. CASE Dates!AddRow
    BY <1>2, <1>23, BoxesStay DEF Dates!AddRow
<1>24. CASE UNCHANGED datesVars
    BY <1>8, <1>24 DEF datesVars
<1> QED
    BY <1>9, <1>10, <1>11, <1>12, <1>13, <1>14, <1>15, <1>16, <1>17, <1>18, <1>19, <1>20,
       <1>21, <1>22, <1>23, <1>24 DEF Dates!Next

(* However many times the widgets of a page are set up, and whatever is    *)
(* opened, picked or cancelled, an open box closes with a click elsewhere. *)
THEOREM BoxesCanBeClosed == Spec => []OpenBoxesClose
<1>1. Init => BoxesInv
    <2>1. Len(<<Dates!NewBox>>) = 1
        OBVIOUS
    <2> QED
        BY <2>1, OneBox DEF Init, Dates!Init, BoxesInv, Dates!num
<1>2. [Next]_vars => [Dates!Next]_datesVars
    BY OneWidgetMoves
<1>3. BoxesInv => OpenBoxesClose
    BY DEF BoxesInv, GoodBoxes, OpenBoxesClose, Dates!OpenBoxesClose
<1> QED
    BY <1>1, <1>2, <1>3, BoxesKeep, PTL DEF Spec

-----------------------------------------------------------------------------
(* The calendar. A year is one day longer when 4 divides it, but for those *)
(* 100 divides and 400 does not: as many days as Leaps counts for it.      *)
LEMMA LeapYears ==
    ASSUME NEW y \in Int
    PROVE  /\ Dates!Leaps(y) \in Int
           /\ Dates!Leaps(y) - Dates!Leaps(y - 1) = IF Dates!IsLeapYear(y) THEN 1 ELSE 0
<1>1. y \div 4 - (y - 1) \div 4 = IF y % 4 = 0 THEN 1 ELSE 0
    OBVIOUS
<1>2. y \div 100 - (y - 1) \div 100 = IF y % 100 = 0 THEN 1 ELSE 0
    OBVIOUS
<1>3. y \div 400 - (y - 1) \div 400 = IF y % 400 = 0 THEN 1 ELSE 0
    OBVIOUS
<1>4. (y % 400 = 0 => y % 100 = 0) /\ (y % 100 = 0 => y % 4 = 0)
    OBVIOUS
<1> QED
    BY <1>1, <1>2, <1>3, <1>4 DEF Dates!Leaps, Dates!IsLeapYear

(* calendar.js has the length of a month from a list, Date has it from its *)
(* reckoning.                                                              *)
LEMMA MonthsAreAsLong ==
    ASSUME NEW y \in Int, NEW m \in Dates!Months
    PROVE  /\ Dates!GetDaysInMonth(m, y) = Dates!MonthLength(y, m)
           /\ Dates!MonthLength(y, m) \in 28..31
<1>1. m \in {1, 2, 3, 4, 5, 6, 7, 8, 9, 10, 11, 12}
    BY DEF Dates!Months
<1>2. CASE m = 2
    BY <1>2, LeapYears DEF Dates!GetDaysInMonth, Dates!MonthLength
<1>3. CASE m # 2
    BY <1>1, <1>3 DEF Dates!GetDaysInMonth, Dates!MonthLength
<1> QED
    BY <1>2, <1>3

LEMMA DaysAreNumbers ==
    ASSUME NEW y \in Int, NEW m \in Dates!Months, NEW d \in Int
    PROVE  /\ Dates!DayNumber(y, m, 0) \in Int
           /\ Dates!DayNumber(y, m, d) = Dates!DayNumber(y, m, 0) + d
<1>1. Dates!DaysBefore[m] \in Int
    BY DEF Dates!DaysBefore, Dates!Months
<1>2. Dates!Leaps(y) \in Int /\ Dates!Leaps(y - 1) \in Int
    BY LeapYears
<1> QED
    BY <1>1, <1>2 DEF Dates!DayNumber

(* The first day of a month follows the last day of the month before it,   *)
(* over the end of a year and of February too.                             *)
LEMMA MonthsFollow ==
    ASSUME NEW y \in Int, NEW m \in Dates!Months, NEW d \in Int
    PROVE  LET next == Dates!MonthAfter(y, m)
           IN  /\ next.y \in Int /\ next.m \in Dates!Months
               /\ Dates!DayNumber(next.y, next.m, d)
                    = Dates!DayNumber(y, m, d + Dates!MonthLength(y, m))
<1>1. /\ Dates!Leaps(y) \in Int /\ Dates!Leaps(y - 1) \in Int /\ Dates!Leaps(y + 1) \in Int
    BY LeapYears
<1>2. m \in {1, 2, 3, 4, 5, 6, 7, 8, 9, 10, 11, 12}
    BY DEF Dates!Months
<1>3. CASE m = 12
    BY <1>1, <1>3 DEF Dates!MonthAfter, Dates!DayNumber, Dates!MonthLength, Dates!DaysBefore,
           Dates!Months
<1>4. CASE m # 12
    BY <1>1, <1>2, <1>4 DEF Dates!MonthAfter, Dates!DayNumber, Dates!MonthLength,
           Dates!DaysBefore, Dates!Months
<1> QED
    BY <1>3, <1>4

ADate == [y : Int, m : Dates!Months, d : 1..31]

(* A date that is rolled into the month beside it is the same day.         *)
LEMMA RolledIsSameDay ==
    ASSUME NEW y \in Int, NEW m \in Dates!Months, NEW d \in -27..59
    PROVE  /\ Dates!Rolled(y, m, d) \in ADate
           /\ LET r == Dates!Rolled(y, m, d)
              IN  Dates!DayNumber(r.y, r.m, r.d) = Dates!DayNumber(y, m, d)
           /\ d \in 1..Dates!MonthLength(y, m) =>
                Dates!Rolled(y, m, d) = [y |-> y, m |-> m, d |-> d]
<1> DEFINE before == Dates!MonthBefore(y, m)
           next == Dates!MonthAfter(y, m)
           length == Dates!MonthLength(y, m)
           lastLength == Dates!MonthLength(before.y, before.m)
<1>1. /\ before.y \in Int /\ before.m \in Dates!Months
      /\ Dates!MonthAfter(before.y, before.m) = [y |-> y, m |-> m]
    <2>1. CASE m = 1
        BY <2>1 DEF Dates!MonthBefore, Dates!MonthAfter, Dates!Months
    <2>2. CASE m # 1
        BY <2>2 DEF Dates!MonthBefore, Dates!MonthAfter, Dates!Months
    <2> QED
        BY <2>1, <2>2
<1>2. /\ next.y \in Int /\ next.m \in Dates!Months
      /\ \A k \in Int : Dates!DayNumber(next.y, next.m, k) = Dates!DayNumber(y, m, k + length)
    BY MonthsFollow
<1>3. length \in 28..31 /\ lastLength \in 28..31
    BY <1>1, MonthsAreAsLong
<1> HIDE DEF before
<1>4. \A k \in Int :
        Dates!DayNumber(y, m, k) = Dates!DayNumber(before.y, before.m, k + lastLength)
    BY <1>1, MonthsFollow
<1>5. Dates!Rolled(y, m, d) =
        IF d < 1 THEN Dates!DateOf(before, lastLength + d)
        ELSE IF d > length THEN Dates!DateOf(next, d - length)
        ELSE [y |-> y, m |-> m, d |-> d]
    BY DEF Dates!Rolled, before
<1> HIDE DEF next, length, lastLength
<1>6. CASE d < 1
    <2>1. Dates!Rolled(y, m, d) = [y |-> before.y, m |-> before.m, d |-> d + lastLength]
        BY <1>3, <1>5, <1>6 DEF Dates!DateOf
    <2> QED
        BY <1>1, <1>3, <1>4, <1>6, <2>1 DEF ADate
<1>7. CASE d > length
    <2>1. Dates!Rolled(y, m, d) = [y |-> next.y, m |-> next.m, d |-> d - length]
        BY <1>3, <1>5, <1>7 DEF Dates!DateOf
    <2>2. Dates!DayNumber(next.y, next.m, d - length) = Dates!DayNumber(y, m, d)
        <3>1. d - length \in Int /\ (d - length) + length = d
            BY <1>3
        <3> QED
            BY <1>2, <3>1
    <2> QED
        BY <1>2, <1>3, <1>7, <2>1, <2>2 DEF ADate, length
<1>8. CASE d \in 1..length
    BY <1>3, <1>5, <1>8 DEF ADate
<1> QED
    BY <1>3, <1>6, <1>7, <1>8 DEF length

(* The columns of a month's days are headed with their days of the week,   *)
(* in a year that new Date takes as it is.                                 *)
LEMMA DaysUnderTheirHeadings ==
    ASSUME NEW y \in Int, NEW m \in Dates!Months, NEW d \in Int, NEW f \in Int,
           y = Dates!FullYear(y)
    PROVE  Dates!Heading(Dates!ColumnOf(d, m, y, f), f) = Dates!GetDay(y, m, d)
<1> DEFINE last == Dates!DayNumber(y, m, 0)
<1>1. /\ last \in Int
      /\ Dates!DayNumber(y, m, 1 - f) = last + (1 - f) /\ Dates!DayNumber(y, m, d) = last + d
    BY DaysAreNumbers
<1> HIDE DEF last
<1>2. (((((last + (1 - f)) % 7) + d - 1) % 7) + f) % 7 = (last + d) % 7
    BY <1>1
<1> QED
    BY <1>1, <1>2 DEF Dates!Heading, Dates!ColumnOf, Dates!StartingPos, Dates!GetDay

-----------------------------------------------------------------------------
(* What the calendar in use has drawn, and the text of the input.          *)
Drawings == [month : Dates!Months, year : Int, selected : ADate \cup {Dates!NoDate}]
DrawnInv ==
    /\ browserZone \in BrowserZones \cup {Dates!AlwaysAt(ServerOffset)}
    /\ shown \in Drawings
    /\ dateInput \in ADate \cup {Dates!Empty, Dates!Garbage}

Zones == [before : -1440..1440, after : -1440..1440, change : Int]

LEMMA ZonesOfPages ==
    BrowserZones \subseteq Zones /\ Dates!AlwaysAt(ServerOffset) \in Zones
BY DatesAreNumbers DEF Zones, Dates!AlwaysAt

LEMMA Offsets ==
    ASSUME NEW zone \in Zones, NEW minute
    PROVE  Dates!OffsetAt(zone, minute) \in -1440..1440
BY DEF Dates!OffsetAt, Zones

LEMMA WallDates ==
    ASSUME NEW minute, NEW offset, minute \in Int, offset \in -1440..1440,
           -2880 <= minute, minute <= 4319
    PROVE  Dates!WallDate(minute, offset) \in ADate
<1> DEFINE days == (minute + offset) \div 1440
           y == Clock.date.y
           m == Clock.date.m
           d == Clock.date.d
<1>1. y \in Int /\ m \in Dates!Months /\ d \in 1..31
    BY DatesAreNumbers DEF Dates!Months
<1>2. days \in Int /\ -3 <= days /\ days <= 3
    OBVIOUS
<1>3. Dates!WallDate(minute, offset) = Dates!Rolled(y, m, d + days)
    BY DEF Dates!WallDate
<1> HIDE DEF days, y, m, d
<1>4. d + days \in -27..59
    BY <1>1, <1>2
<1> QED
    BY <1>1, <1>3, <1>4, RolledIsSameDay

(* Today by any clock there is.                                            *)
LEMMA TodayIsADate ==
    ASSUME NEW offset, offset \in -1440..1440
    PROVE  Dates!WallDate(Clock.minute, offset) \in ADate
<1> DEFINE now == Clock.minute
           days == (now + offset) \div 1440
           y == Clock.date.y
           m == Clock.date.m
           d == Clock.date.d
<1>1. y \in Int /\ m \in Dates!Months /\ d \in 1..31
    BY DatesAreNumbers DEF Dates!Months
<1>2. days \in Int /\ -3 <= days /\ days <= 3
    <2>1. now \in 0..1439
        BY DatesAreNumbers
    <2> HIDE DEF now
    <2> QED
        BY <2>1
<1>3. Dates!WallDate(Clock.minute, offset) = Dates!Rolled(y, m, d + days)
    BY DEF Dates!WallDate
<1> HIDE DEF days, y, m, d
<1>4. d + days \in -27..59
    BY <1>1, <1>2
<1> QED
    BY <1>1, <1>3, <1>4, RolledIsSameDay

LEMMA CalendarsAreNew ==
    ASSUME browserZone \in Zones
    PROVE  Dates!NewCalendar \in Drawings
<1>1. Dates!LocalOffset \in -1440..1440
    BY Offsets DEF Dates!LocalOffset
<1>2. Dates!BrowserToday \in ADate
    BY <1>1, TodayIsADate DEF Dates!BrowserToday
<1> QED
    BY <1>2 DEF Dates!NewCalendar, Drawings, ADate

(* The present as the widgets reckon it is some date, and the server's if  *)
(* the browser's clocks are not changed between the two minutes.           *)
LEMMA NowIsServers ==
    ASSUME browserZone \in Zones
    PROVE  /\ Dates!Now \in ADate
           /\ Dates!NoChangeMeanwhile => Dates!Now = Dates!ServerToday
<1>1. Clock.minute \in 0..1439 /\ ServerOffset \in -1440..1440
    BY DatesAreNumbers
<1>2. Dates!LocalOffset \in -1440..1440
    BY Offsets DEF Dates!LocalOffset
<1>3. /\ Dates!Moved \in Int /\ -2880 <= Dates!Moved /\ Dates!Moved <= 4319
      /\ Dates!Moved + Dates!LocalOffset = Clock.minute + ServerOffset
    <2> DEFINE local == Dates!LocalOffset
               now == Clock.minute
    <2>1. Dates!Moved = now + (ServerOffset - local)
        BY DEF Dates!Moved
    <2>2. local \in -1440..1440 /\ now \in 0..1439
        BY <1>1, <1>2
    <2> HIDE DEF local, now
    <2>3. \A k \in Int : k = now + (ServerOffset - local) =>
            -2880 <= k /\ k <= 4319 /\ k + local = now + ServerOffset
        BY <1>1, <2>2
    <2>4. now + (ServerOffset - local) \in Int
        BY <1>1, <2>2
    <2>5. /\ Dates!Moved \in Int /\ -2880 <= Dates!Moved /\ Dates!Moved <= 4319
          /\ Dates!Moved + local = now + ServerOffset
        BY <2>1, <2>3, <2>4
    <2> QED
        BY <2>5 DEF local, now
<1>4. Dates!OffsetAt(browserZone, Dates!Moved) \in -1440..1440
    BY Offsets
<1>5. Dates!Now \in ADate
    BY <1>3, <1>4, WallDates DEF Dates!Now
<1>6. ASSUME Dates!NoChangeMeanwhile PROVE Dates!Now = Dates!ServerToday
    <2>1. Dates!Now = Dates!WallDate(Dates!Moved, Dates!LocalOffset)
        BY <1>6 DEF Dates!Now, Dates!NoChangeMeanwhile
    <2> QED
        BY <1>3, <2>1 DEF Dates!WallDate, Dates!ServerToday
<1> QED
    BY <1>5, <1>6

LEMMA DatesAreWritten ==
    ASSUME NEW date \in ADate
    PROVE  Dates!Strftime(date) = date
<1>1. date.m - 1 + 1 = date.m
    BY DEF ADate, Dates!Months
<1> QED
    BY <1>1 DEF Dates!Strftime, Dates!GetMonth, ADate

LEMMA DrawnKeeps == DrawnInv /\ [Dates!Next]_datesVars => DrawnInv'
<1> SUFFICES ASSUME DrawnInv, [Dates!Next]_datesVars PROVE DrawnInv'
    OBVIOUS
<1> USE DEF DrawnInv
<1>0. browserZone \in Zones /\ BrowserZones \subseteq Zones
    BY ZonesOfPages
<1>1. ASSUME NEW zone \in BrowserZones, Dates!Load(zone) PROVE DrawnInv'
    <2>1. /\ browserZone' \in BrowserZones /\ browserZone' \in Zones
          /\ shown' = Dates!NewCalendar' /\ dateInput' = Dates!Empty
        BY <1>0, <1>1 DEF Dates!Load
    <2>2. Dates!NewCalendar' \in Drawings
        <3> DEFINE local == Dates!OffsetAt(browserZone', Clock.minute)
        <3>1. local \in -1440..1440
            BY <2>1, Offsets
        <3> HIDE DEF local
        <3>2. Dates!WallDate(Clock.minute, local) \in ADate
            BY <3>1, TodayIsADate
        <3>3. Dates!BrowserToday' = Dates!WallDate(Clock.minute, local)
            BY DEF Dates!BrowserToday, Dates!LocalOffset, local
        <3> QED
            BY <3>2, <3>3 DEF Dates!NewCalendar, Drawings, ADate
    <2> QED
        BY <2>1, <2>2
<1>2. CASE Dates!OpenCalendar
    <2>1. CASE Dates!Readable
        <3>1. dateInput \in ADate
            BY <2>1 DEF Dates!Readable
        <3>2. Dates!Strptime(dateInput) \in ADate
            <4>1. \A y \in Int : Dates!Rolled(y, (dateInput.m - 1) + 1, dateInput.d) \in ADate
                <5>1. /\ dateInput.m \in Dates!Months /\ dateInput.d \in -27..59
                      /\ (dateInput.m - 1) + 1 = dateInput.m
                    BY <3>1 DEF ADate, Dates!Months
                <5> QED
                    BY <5>1, RolledIsSameDay
            <4>2. Dates!FullYear(dateInput.y) \in Int
                BY <3>1 DEF ADate, Dates!FullYear
            <4> QED
                BY <4>1, <4>2 DEF Dates!Strptime
        <3> QED
            BY <1>2, <3>2 DEF Dates!OpenCalendar, Dates!Drawn, Drawings, ADate, Dates!Months
    <2>2. CASE ~Dates!Readable
        BY <1>2, <2>2 DEF Dates!OpenCalendar, Dates!Drawn
    <2> QED
        BY <2>1, <2>2
<1>3. CASE Dates!DrawPrev \/ Dates!DrawNext
    <2>1. ASSUME NEW m \in Dates!Months, NEW y \in Int, Dates!Leaf([m |-> m, y |-> y])
          PROVE  DrawnInv'
        BY <2>1 DEF Dates!Leaf, Drawings
    <2>2. /\ shown.year \in Int /\ shown.year - 1 \in Int /\ shown.year + 1 \in Int
          /\ shown.month \in Dates!Months /\ 1 \in Dates!Months /\ 12 \in Dates!Months
          /\ shown.month # 1 => shown.month - 1 \in Dates!Months
          /\ shown.month # 12 => shown.month + 1 \in Dates!Months
        BY DEF Dates!Months, Drawings
    <2>3. CASE Dates!DrawPrev
        BY <2>1, <2>2, <2>3 DEF Dates!DrawPrev
    <2>4. CASE Dates!DrawNext
        BY <2>1, <2>2, <2>4 DEF Dates!DrawNext
    <2> QED
        BY <1>3, <2>3, <2>4
<1>4. ASSUME NEW r \in ADate, dateInput' = Dates!Strftime(r),
             UNCHANGED <<browserZone, shown>>
      PROVE  DrawnInv'
    BY <1>4, DatesAreWritten
<1>5. ASSUME NEW d \in PickDays, Dates!PickDay(d) PROVE DrawnInv'
    <2>1. /\ shown.year \in Int /\ shown.month \in Dates!Months
          /\ Dates!FullYear(shown.year) \in Int
        BY DEF Drawings, Dates!FullYear
    <2>2. d \in -27..59
        BY <1>5, <2>1, MonthsAreAsLong DEF Dates!PickDay
    <2>3. Dates!Rolled(Dates!FullYear(shown.year), shown.month, d) \in ADate
        BY <2>1, <2>2, RolledIsSameDay
    <2> QED
        BY <1>4, <1>5, <2>3 DEF Dates!PickDay
<1>6. ASSUME NEW offset \in {-1, 0, 1}, Dates!QuickLink(offset) PROVE DrawnInv'
    <2>1. Dates!Rolled(Dates!Now.y, Dates!Now.m, Dates!Now.d + offset) \in ADate
        <3>1. Dates!Now.y \in Int /\ Dates!Now.m \in Dates!Months /\ Dates!Now.d \in 1..31
            BY <1>0, NowIsServers DEF ADate
        <3>2. Dates!Now.d + offset \in -27..59
            BY <3>1
        <3> QED
            BY <3>1, <3>2, RolledIsSameDay
    <2> QED
        BY <1>4, <1>6, <2>1 DEF Dates!QuickLink
<1>7. CASE Dates!TodayLink
    BY <1>0, <1>4, <1>7, NowIsServers DEF Dates!TodayLink
<1>8. ASSUME NEW typed \in TypedDates \cup {Dates!Empty, Dates!Garbage}, Dates!Type(typed)
      PROVE  DrawnInv'
    BY <1>8, DatesAreNumbers DEF Dates!Type, ADate, Dates!Months
<1>9. CASE Dates!AddRow
    BY <1>0, <1>9, CalendarsAreNew DEF Dates!AddRow
<1>10. CASE UNCHANGED <<browserZone, shown, dateInput>>
    BY <1>10
<1> QED
    BY <1>1, <1>2, <1>3, <1>5, <1>6, <1>7, <1>8, <1>9, <1>10
       DEF Dates!Next, datesVars, Dates!OpenClock, Dates!CancelCalendar, Dates!CancelClock,
           Dates!Escape, Dates!ClickElsewhere, Dates!PickHour, Dates!NowLink

LEMMA DrawnStart == Init => DrawnInv
<1> SUFFICES ASSUME Init PROVE DrawnInv
    OBVIOUS
<1>1. /\ browserZone = Dates!AlwaysAt(ServerOffset) /\ browserZone \in Zones
      /\ shown = Dates!NewCalendar /\ dateInput = Dates!Empty
    BY ZonesOfPages DEF Init, Dates!Init
<1> QED
    BY <1>1, CalendarsAreNew DEF DrawnInv

(* A month is drawn as it is, in any year but the first hundred, which new *)
(* Date takes for the 1900s, however far one leafs, and on whatever day    *)
(* the locale's weeks begin.                                               *)
THEOREM MonthsAreDrawnRight == Spec => []GridIsTheMonth
<1>1. [Next]_vars => [Dates!Next]_datesVars
    BY OneWidgetMoves
<1>2. DrawnInv => GridIsTheMonth
    <2> SUFFICES ASSUME DrawnInv PROVE GridIsTheMonth
        OBVIOUS
    <2>1. shown.year \in Int /\ shown.month \in Dates!Months /\ FirstDayOfWeek \in Int
        BY DatesAreNumbers DEF DrawnInv, Drawings
    <2>2. Dates!GetDaysInMonth(shown.month, shown.year)
            = Dates!MonthLength(shown.year, shown.month)
        BY <2>1, MonthsAreAsLong
    <2>3. shown.year = Dates!FullYear(shown.year) => \A d \in Int :
            Dates!Heading(Dates!ColumnOf(d, shown.month, shown.year, FirstDayOfWeek),
                          FirstDayOfWeek)
                = Dates!GetDay(shown.year, shown.month, d)
        BY <2>1, DaysUnderTheirHeadings
    <2> QED
        BY <2>2, <2>3 DEF GridIsTheMonth, Dates!GridIsTheMonth
<1> QED
    BY <1>1, <1>2, DrawnStart, DrawnKeeps, PTL DEF Spec

(* What a step shows and writes, of the month that is drawn.               *)
LEMMA OpenedAtItsDate ==
    ASSUME DrawnInv, Dates!OpenCalendar, Dates!Readable, Dates!IsDate(dateInput),
           dateInput.y >= 1000
    PROVE  /\ shown'.selected = dateInput
           /\ shown'.month = dateInput.m /\ shown'.year = dateInput.y
<1>1. dateInput \in ADate
    BY DEF DrawnInv, Dates!Readable
<1>2. /\ dateInput.m - 1 + 1 = dateInput.m /\ dateInput.d \in -27..59
      /\ Dates!FullYear(dateInput.y) = dateInput.y
    BY <1>1 DEF ADate, Dates!Months, Dates!FullYear
<1>3. Dates!Strptime(dateInput) = dateInput
    <2>1. Dates!Rolled(dateInput.y, dateInput.m, dateInput.d) = dateInput
        BY <1>1, <1>2, RolledIsSameDay DEF Dates!IsDate, ADate
    <2> QED
        BY <1>2, <2>1 DEF Dates!Strptime
<1>4. shown' = [month |-> dateInput.m, year |-> dateInput.y, selected |-> dateInput]
    BY <1>3 DEF Dates!OpenCalendar, Dates!Drawn
<1> QED
    BY <1>4

LEMMA PickedIsWritten ==
    ASSUME DrawnInv, NEW d, Dates!PickDay(d), shown.year = Dates!FullYear(shown.year)
    PROVE  dateInput' = [y |-> shown.year, m |-> shown.month, d |-> d]
<1>1. shown.year \in Int /\ shown.month \in Dates!Months
    BY DEF DrawnInv, Drawings
<1>2. d \in 1..Dates!MonthLength(shown.year, shown.month) /\ d \in 1..31 /\ d \in -27..59
    BY <1>1, MonthsAreAsLong DEF Dates!PickDay
<1>3. Dates!Rolled(shown.year, shown.month, d)
        = [y |-> shown.year, m |-> shown.month, d |-> d]
    BY <1>1, <1>2, RolledIsSameDay
<1> QED
    BY <1>1, <1>2, <1>3, DatesAreWritten DEF Dates!PickDay, ADate

LEMMA LinkIsServersDay ==
    ASSUME DrawnInv, NEW offset \in {-1, 0, 1}, Dates!QuickLink(offset),
           Dates!NoChangeMeanwhile
    PROVE  Dates!DayNumber(dateInput'.y, dateInput'.m, dateInput'.d)
            = Dates!DayNumber(Dates!ServerToday.y, Dates!ServerToday.m, Dates!ServerToday.d)
                + offset
<1> PICK now : now = Dates!Now
    OBVIOUS
<1>1. /\ now = Dates!ServerToday /\ now \in ADate
      /\ now.y \in Int /\ now.m \in Dates!Months /\ now.d \in Int
      /\ offset \in Int /\ now.d + offset \in Int /\ now.d + offset \in -27..59
    <2>1. browserZone \in Zones
        BY ZonesOfPages DEF DrawnInv
    <2>2. now = Dates!ServerToday /\ now \in ADate
        BY <2>1, NowIsServers
    <2> QED
        BY <2>2 DEF ADate
<1> PICK r : r = Dates!Rolled(now.y, now.m, now.d + offset)
    OBVIOUS
<1>2. /\ r \in ADate
      /\ Dates!DayNumber(r.y, r.m, r.d) = Dates!DayNumber(now.y, now.m, now.d + offset)
    BY <1>1, RolledIsSameDay
<1>3. Dates!DayNumber(now.y, now.m, now.d + offset)
        = Dates!DayNumber(now.y, now.m, now.d) + offset
    <2>1. /\ Dates!DayNumber(now.y, now.m, 0) \in Int
          /\ Dates!DayNumber(now.y, now.m, now.d) = Dates!DayNumber(now.y, now.m, 0) + now.d
          /\ Dates!DayNumber(now.y, now.m, now.d + offset)
                = Dates!DayNumber(now.y, now.m, 0) + (now.d + offset)
        BY <1>1, DaysAreNumbers
    <2> QED
        BY <1>1, <2>1
<1>4. dateInput' = r
    BY <1>2, DatesAreWritten DEF Dates!QuickLink
<1> QED
    BY <1>1, <1>2, <1>3, <1>4

(* Any date there is, of a year of four digits, is opened as it was        *)
(* written; any day of a year but the first hundred is written as it was   *)
(* clicked on; and the links write the server's days for a browser of any  *)
(* time zone whose clocks are not changed between the two.                 *)
THEOREM DatesComeBack == Spec => DatesGoRound
<1> DEFINE RoundTrip ==
        /\ Dates!OpenCalendar /\ Dates!Readable /\ Dates!IsDate(dateInput)
           /\ dateInput.y >= 1000 =>
                /\ shown'.selected = dateInput
                /\ shown'.month = dateInput.m /\ shown'.year = dateInput.y
        /\ \A d \in PickDays :
                Dates!PickDay(d) /\ shown.year = Dates!FullYear(shown.year) =>
                dateInput' = [y |-> shown.year, m |-> shown.month, d |-> d]
        /\ \A offset \in {-1, 0, 1} :
                Dates!QuickLink(offset) /\ Dates!NoChangeMeanwhile =>
                Dates!DayNumber(dateInput'.y, dateInput'.m, dateInput'.d)
                    = Dates!DayNumber(Dates!ServerToday.y, Dates!ServerToday.m,
                                      Dates!ServerToday.d) + offset
<1>1. [Next]_vars => [Dates!Next]_datesVars
    BY OneWidgetMoves
<1>2. DrawnInv => RoundTrip
    BY OpenedAtItsDate, PickedIsWritten, LinkIsServersDay
<1> QED
    BY <1>1, <1>2, DrawnStart, DrawnKeeps, PTL DEF Spec, DatesGoRound, Dates!DatesGoRound

-----------------------------------------------------------------------------
(* The types, of each widget's variables. What its invariant does not say  *)
(* of them is kept by the actions by itself.                               *)
LEMMA ListTypes == List!TypeOK /\ [List!Next]_listVars => List!TypeOK'
<1> SUFFICES ASSUME List!TypeOK, [List!Next]_listVars PROVE List!TypeOK'
    OBVIOUS
<1> USE DEF List!TypeOK
<1>1. ASSUME NEW ticked \in SUBSET List!Rows, NEW bar \in SUBSET List!Spans,
             List!UpdateCounter(ticked, bar),
             lastChecked' \in List!Rows \cup {List!NoRow}, UNCHANGED sent
      PROVE  List!TypeOK'
    <2>1. spans' \in SUBSET List!Spans
        BY <1>1 DEF List!UpdateCounter, List!ShowQuestion, List!Reset, List!Spans
    <2>2. checked' = ticked /\ allToggle' \in BOOLEAN /\ across' \in BOOLEAN
        BY <1>1 DEF List!UpdateCounter
    <2> QED
        BY <1>1, <2>1, <2>2 DEF List!Rows
<1>2. ASSUME NEW rows \in SUBSET List!Rows, NEW on
      PROVE  /\ List!Check(rows, on) \subseteq List!Rows
             /\ List!BarAfterCheck(on) \subseteq List!Spans
    BY DEF List!Check, List!BarAfterCheck, List!ShowQuestion, List!Reset, List!Spans
<1>3. CASE List!ToggleAll
    BY <1>1, <1>2, <1>3 DEF List!ToggleAll
<1>4. ASSUME NEW r \in List!Rows, NEW shift \in BOOLEAN, List!SelectRow(r, shift)
      PROVE  List!TypeOK'
    <2>1. List!Affected(r, shift) \subseteq List!Rows
        BY DEF List!Affected
    <2> QED
        BY <1>1, <1>2, <1>4, <2>1 DEF List!SelectRow
<1>5. CASE List!SelectAcross
    BY <1>5 DEF List!SelectAcross, List!ShowClear, List!Spans, List!Rows
<1>6. CASE List!ClearSelection
    <2>1. List!Reset(spans) \subseteq List!Spans
        BY DEF List!Reset, List!Spans
    <2> QED
        BY <1>1, <1>6, <2>1 DEF List!ClearSelection
<1>7. CASE List!RunAction
    BY <1>7 DEF List!RunAction, List!Rows
<1>8. CASE List!Reload
    BY <1>8 DEF List!Reload, List!Nothing, List!Spans, List!Rows
<1>9. CASE List!PageShow
    <2>1. {"counter"} \subseteq List!Spans
        BY DEF List!Spans
    <2> QED
        BY <1>1, <1>9, <2>1 DEF List!PageShow
<1>10. CASE UNCHANGED listVars
    BY <1>10 DEF listVars, List!Rows
<1> QED
    BY <1>3, <1>4, <1>5, <1>6, <1>7, <1>8, <1>9, <1>10 DEF List!Next, List!Cancel

(* The names that an object has been given, and that fields offer.         *)
LabelsGiven ==
    /\ label \in [Objects -> {Popups!Gone, Popups!NotYet} \cup 0..MaxLabel]
    /\ option \in [Popups!Selects -> [Objects -> {Popups!Missing} \cup 0..MaxLabel]]
    /\ select2 \in [DishRows -> [Objects -> {Popups!Missing} \cup 0..MaxLabel]]
    /\ rendered \in [DishRows -> Popups!Shown]

LEMMA LabelsKeep == SelectsInv /\ LabelsGiven /\ [Popups!Next]_popupsVars => LabelsGiven'
<1> SUFFICES ASSUME SelectsInv, LabelsGiven, [Popups!Next]_popupsVars PROVE LabelsGiven'
    OBVIOUS
<1> USE DEF LabelsGiven
<1>1. 0 \in 0..MaxLabel /\ MaxLabel \in Nat
    BY LimitsAreNumbers
<1>2. ASSUME UNCHANGED <<label, option, select2, rendered>> PROVE LabelsGiven'
    BY <1>2
<1>3. ASSUME NEW s, NEW o \in Objects, NEW given \in 0..MaxLabel,
             label' = [label EXCEPT ![o] = given], option' = Popups!Relabelled(s, o, given),
             select2' = Popups!Keeps(s, o, given) \/ select2' = select2,
             rendered' = Popups!Shows(s, o, given)
      PROVE  LabelsGiven'
    <2>1. /\ label' \in [Objects -> {Popups!Gone, Popups!NotYet} \cup 0..MaxLabel]
          /\ option' \in [Popups!Selects -> [Objects -> {Popups!Missing} \cup 0..MaxLabel]]
        BY <1>3 DEF Popups!Relabelled
    <2>2. select2' \in [DishRows -> [Objects -> {Popups!Missing} \cup 0..MaxLabel]]
        BY <1>3 DEF Popups!Keeps
    <2>3. rendered' \in [DishRows -> Popups!Shown]
        BY <1>3 DEF Popups!Shows, Popups!Shown
    <2> QED
        BY <2>1, <2>2, <2>3
<1>4. ASSUME NEW w \in Popups!Names, NEW o \in Objects, Popups!AnswerAdd(w, o)
      PROVE  LabelsGiven'
    BY <1>1, <1>3, <1>4 DEF Popups!AnswerAdd
<1>5. ASSUME NEW w \in Popups!Names, Popups!AnswerChange(w)
      PROVE  LabelsGiven'
    <2> DEFINE o == task[w].object
    <2>1. /\ label' = [label EXCEPT ![o] = label[o] + 1]
          /\ option' = Popups!Relabelled(Popups!FieldFor(w), o, label[o] + 1)
          /\ rendered' = Popups!Shows(Popups!FieldFor(w), o, label[o] + 1)
          /\ select2' = select2 /\ label[o] >= 0 /\ label[o] < MaxLabel
        BY <1>5 DEF Popups!AnswerChange, Popups!Exists
    <2>2. o \in Objects /\ label[o] \in Int
        BY <1>5 DEF Popups!AnswerChange, SelectsInv, WindowsAreAbout, SelectTypes
    <2> HIDE DEF o
    <2>3. label[o] + 1 \in 0..MaxLabel
        BY <1>1, <2>1, <2>2
    <2> QED
        BY <1>3, <2>1, <2>2, <2>3
<1>6. ASSUME NEW w \in Popups!Names, Popups!AnswerDelete(w)
      PROVE  LabelsGiven'
    <2> DEFINE o == task[w].object
    <2>1. /\ label' = [label EXCEPT ![o] = Popups!Gone]
          /\ option' = [option EXCEPT ![w.field][o] = Popups!Missing]
          /\ UNCHANGED <<select2, rendered>>
        BY <1>6 DEF Popups!AnswerDelete, Popups!FieldFor
    <2> HIDE DEF o
    <2> QED
        BY <2>1
<1>7. ASSUME NEW s \in Popups!Selects, NEW o \in Objects, Popups!Choose(s, o)
      PROVE  LabelsGiven'
    <2>1. label' = label /\ s \in here /\ (s \in DishRows => s # Plain)
        BY <1>7, RowsOrPlain DEF Popups!Choose
    <2> PICK name \in Popups!Offered(s, o) :
            IF option[s][o] = Popups!Missing
            THEN /\ option' = [option EXCEPT ![s][o] = name]
                 /\ select2' = Popups!Keeps(s, o, name) /\ rendered' = Popups!Shows(s, o, name)
            ELSE rendered' = Popups!Shows(s, o, select2[s][o]) /\ UNCHANGED <<option, select2>>
        BY <1>7 DEF Popups!Choose
    <2>2. CASE option[s][o] = Popups!Missing
        <3>1. name \in 0..MaxLabel
            <4>1. name \in 0..label[o] /\ label[o] \in Int
                BY <2>2 DEF Popups!Offered, SelectsInv, SelectTypes
            <4>2. label[o] <= MaxLabel
                BY <1>1 DEF Popups!Gone, Popups!NotYet
            <4> QED
                BY <1>1, <4>1, <4>2
        <3>2. option' \in [Popups!Selects -> [Objects -> {Popups!Missing} \cup 0..MaxLabel]]
            BY <2>2, <3>1
        <3>3. select2' \in [DishRows -> [Objects -> {Popups!Missing} \cup 0..MaxLabel]]
            BY <2>2, <3>1 DEF Popups!Keeps
        <3>4. rendered' \in [DishRows -> Popups!Shown]
            BY <2>2, <3>1 DEF Popups!Shows, Popups!Shown
        <3> QED
            BY <2>1, <3>2, <3>3, <3>4
    <2>3. CASE option[s][o] # Popups!Missing
        <3>1. s \in DishRows => select2[s][o] \in 0..MaxLabel
            <4> SUFFICES ASSUME s \in DishRows PROVE select2[s][o] \in 0..MaxLabel
                OBVIOUS
            <4>1. select2[s][o] \in 0..option[s][o]
                BY <2>1, <2>3 DEF SelectsInv, Popups!SelectsAreSound, Popups!RowIsSound
            <4>2. select2[s][o] \in {Popups!Missing} \cup 0..MaxLabel
                OBVIOUS
            <4> QED
                BY <4>1, <4>2 DEF Popups!Missing
        <3>2. rendered' \in [DishRows -> Popups!Shown]
            BY <2>3, <3>1 DEF Popups!Shows, Popups!Shown
        <3> QED
            BY <2>1, <2>3, <3>2
    <2> QED
        BY <2>2, <2>3
<1>8. ASSUME NEW p \in Popups!FirstPages, Popups!Leave(p) PROVE LabelsGiven'
    <2>1. \A o \in Objects : label[o] >= 0 => label[o] \in 0..MaxLabel
        BY DEF Popups!Gone, Popups!NotYet
    <2> QED
        BY <1>1, <1>8, <2>1
           DEF Popups!Leave, Popups!OptionsOf, Popups!NothingKept, Popups!NothingShown,
               Popups!Shown
<1>9. CASE UNCHANGED popupsVars
    BY <1>2, <1>9 DEF popupsVars
<1> QED
    BY <1>2, <1>4, <1>5, <1>6, <1>7, <1>8, <1>9
       DEF Popups!Next, Popups!ClickAdd, Popups!ClickLink, Popups!CloseWindow,
           Popups!FormRefused, Popups!AnswerInner, Popups!fields

(* The rest of what the widgets of dates and the tabs keep.                *)
OthersTyped ==
    /\ warnings \in Nat /\ timeInput \in Dates!Hours \cup {Dates!NoTime}
    /\ prefersDark \in BOOLEAN /\ page \in Pages

LEMMA OthersKeep == OthersTyped /\ [Next]_vars => OthersTyped'
<1> SUFFICES ASSUME OthersTyped, [Next]_vars PROVE OthersTyped'
    OBVIOUS
<1>1. page' = page
    BY DEF Next, vars, OnList, OnBoxes, OnInlines, OnDates, OnPopups, OnStored
<1>2. /\ [Dates!Next]_datesVars /\ [Stored!Next]_storedVars
    BY OneWidgetMoves
<1>3. warnings' \in Nat /\ timeInput' \in Dates!Hours \cup {Dates!NoTime}
    <2>1. \A n \in Nat : Dates!WarnBoth(n) \in Nat /\ Dates!WarnBoth(n)' \in Nat
        BY DEF Dates!WarnBoth, Dates!Warn
    <2> QED
        BY <1>2, <2>1
           DEF OthersTyped, Dates!Next, datesVars, Dates!Load, Dates!OpenCalendar,
               Dates!CancelCalendar, Dates!DrawPrev, Dates!DrawNext, Dates!Leaf,
               Dates!OpenClock, Dates!CancelClock, Dates!Escape, Dates!ClickElsewhere,
               Dates!PickDay, Dates!QuickLink, Dates!TodayLink, Dates!PickHour,
               Dates!NowLink, Dates!Type, Dates!AddRow, Dates!Hours
<1>4. prefersDark' \in BOOLEAN
    <2>1. prefersDark' = prefersDark \/ prefersDark' = ~prefersDark
        BY <1>2
           DEF Stored!Next, storedVars, Stored!SystemTheme, Stored!CycleTheme,
               Stored!ToggleSidebar, Stored!EscapeFilter, Stored!TypeFilter,
               Stored!ToggleFilter, Stored!Load
    <2> QED
        BY <2>1 DEF OthersTyped
<1> QED
    BY <1>1, <1>3, <1>4 DEF OthersTyped

TypesInv ==
    /\ List!TypeOK /\ ChoicesInv /\ FormsInv /\ BoxesInv /\ DrawnInv
    /\ SelectsInv /\ LabelsGiven /\ StoredInv /\ OthersTyped

LEMMA TypesStart == Init => TypesInv
<1> SUFFICES ASSUME Init PROVE TypesInv
    OBVIOUS
<1>1. List!TypeOK
    BY DEF Init, List!Init, List!TypeOK, List!Nothing, List!Spans
<1>2. BoxesInv
    <2>1. Len(<<Dates!NewBox>>) = 1
        OBVIOUS
    <2> QED
        BY <2>1, OneBox DEF Init, Dates!Init, BoxesInv, Dates!num
<1>3. LabelsGiven
    BY LimitsAreNumbers
       DEF Init, Popups!Init, LabelsGiven, Popups!OptionsOf, Popups!NotYet,
           Popups!NothingKept, Popups!NothingShown, Popups!Shown
<1>4. OthersTyped
    BY DEF Init, Dates!Init, Stored!Init, OthersTyped, Dates!NoTime
<1> QED
    BY <1>1, <1>2, <1>3, <1>4, ChoicesStart, FormsStart, DrawnStart, SelectsStart, StoredStart
    DEF TypesInv

LEMMA TypesKeep == TypesInv /\ [Next]_vars => TypesInv'
BY OneWidgetMoves, ListTypes, ChoicesKeep, FormsKeep, BoxesKeep, DrawnKeeps, SelectsKeep,
   LabelsKeep, StoredKeeps, OthersKeep DEF TypesInv

LEMMA TypesInAll == TypesInv => TypeOK
<1> SUFFICES ASSUME TypesInv PROVE TypeOK
    OBVIOUS
<1> USE DEF TypesInv
<1>1. Boxes!TypeOK
    BY DEF ChoicesInv
<1>2. Inlines!TypeOK
    <2>1. body \in Seq(Row) /\ Inlines!Count(body) \in Nat
        BY FormsAreFinite DEF FormsInv, WellKept
    <2>2. body \in Seq({Inlines!ErrorRow} \cup Inlines!FormRows)
        BY <2>1 DEF Row
    <2> HIDE DEF TypesInv
    <2>3. FormsInv
        BY DEF TypesInv
    <2> QED
        BY <2>1, <2>2, <2>3 DEF FormsInv, Inlines!TypeOK
<1>3. Dates!TypeOK
    <2>1. calendars \in Seq(Box) /\ clocks \in Seq(Box)
        BY LenOfBoxes DEF BoxesInv, GoodBoxes
    <2>2. ADate = Dates!Dates
        BY DEF ADate, Dates!Dates
    <2> QED
        BY <2>1, <2>2 DEF Dates!TypeOK, DrawnInv, Drawings, OthersTyped, Box
<1>4. Popups!TypeOK
    BY DEF SelectsInv, PopupsInv, WindowTypes, SelectTypes, LabelsGiven, Popups!TypeOK
<1>5. Stored!TypeOK
    BY DEF StoredInv, StoredTypes, OthersTyped, Stored!TypeOK
<1>6. page \in Pages
    BY DEF OthersTyped
<1> QED
    BY <1>1, <1>2, <1>3, <1>4, <1>5, <1>6 DEF TypeOK

(* On pages of any sizes every variable of every widget keeps its type,    *)
(* the dates that are shown and written included, which have a month and a *)
(* day however far they are rolled.                                        *)
THEOREM TypeCorrect == Spec => []TypeOK
BY TypesStart, TypesKeep, TypesInAll, PTL DEF Spec

=============================================================================
