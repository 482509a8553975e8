--------------------------- MODULE RelatedPopups ---------------------------
(***************************************************************************)
(* The windows the admin site opens to add, change or delete the object of *)
(* a foreign key, from the links beside its field: RelatedObjectLookups.js *)
(* and, in the window's last page, popup_response.js. A window is known by *)
(* a name, the id of the field and how many windows it is away from the    *)
(* first page; a field of a window opens windows in turn. The first page   *)
(* has fields for the objects of one model, which are followed to their    *)
(* options: the dishes of a set menu, a row each, which cannot be deleted  *)
(* from there and get their options from the server as they are chosen, or *)
(* the dish of an order's item, which has all options and the empty one. A *)
(* row is a select2, which shows a name of its own and keeps another with  *)
(* each option it has shown. The objects change from this page only.       *)
(***************************************************************************)
EXTENDS Integers, FiniteSets

CONSTANTS
    DishRows,       \* the fields of a set menu's page
    Plain,          \* the field of an order item's page
    Inner,          \* the fields of the form of that model, for other models
    Objects,        \* the objects of the model there are or will be
    AtFirst,        \* those there are at first
    MaxLabel        \* how often an object is renamed (bound)

Selects == DishRows \cup {Plain}
FirstPages == {DishRows, {Plain}}

Main == [field |-> "main", index |-> 0]
Names == {[field |-> s, index |-> 1] : s \in Selects}
            \cup {[field |-> f, index |-> 2] : f \in Inner}
Pages == Names \cup {Main}
NoPage == [field |-> "none", index |-> 0]

NoObject == "none"
Gone == -1          \* the label of an object that does not exist any more
NotYet == -2        \* ... that was not created yet
Missing == -3       \* ... that a select does not offer, or has no name kept of

VARIABLES
    here,           \* the fields of the first page
    opener,         \* the page that opened the window of a name, if it is open
    task,           \* what the window's form is about
    related,        \* relatedWindows of each page, without the closed ones
    label,          \* the objects, as the server has them
    option,         \* the options of each select, with the labels they show
    chosen,         \* the value of each select
    linked,         \* the object its change and delete links are about
    select2,        \* the names a row's select2 keeps of its options (StoreData)
    rendered        \* the name it shows, and whose it is

fields == <<here, label, option, chosen, linked, select2, rendered>>
vars == <<opener, task, related, fields>>

NoTask == [kind |-> "none", object |-> NoObject]
Tasks == {NoTask} \cup [kind : {"add", "change", "delete"}, object : Objects \cup {NoObject}]

Shown == [object : Objects \cup {NoObject}, text : 0..MaxLabel]

TypeOK ==
    /\ here \in FirstPages
    /\ opener \in [Names -> Pages \cup {NoPage}]
    /\ task \in [Names -> Tasks]
    /\ related \in [Pages -> SUBSET Names]
    /\ label \in [Objects -> {Gone, NotYet} \cup 0..MaxLabel]
    /\ option \in [Selects -> [Objects -> {Missing} \cup 0..MaxLabel]]
    /\ chosen \in [Selects -> Objects \cup {NoObject}]
    /\ linked \in [Selects -> Objects \cup {NoObject}]
    /\ select2 \in [DishRows -> [Objects -> {Missing} \cup 0..MaxLabel]]
    /\ rendered \in [DishRows -> Shown]

(* The fields with links on a page.                                        *)
FieldsOf(page) ==
    IF page = Main THEN here ELSE IF page.field \in Selects THEN Inner ELSE {}

IsOpen(page) == page \in {Main} \cup {w \in Names : opener[w] # NoPage}

Exists(o) == label[o] >= 0

(* The options of a page the server sends.                                 *)
OptionsOf(labels) ==
    [s \in Selects |-> [o \in Objects |->
        IF s = Plain /\ labels[o] >= 0 THEN labels[o] ELSE Missing]]

(* A select2 that has nothing to show yet.                                 *)
NothingKept == [s \in DishRows |-> [o \in Objects |-> Missing]]
NothingShown == [s \in DishRows |-> [object |-> NoObject, text |-> 0]]

Init ==
    /\ here = DishRows
    /\ opener = [w \in Names |-> NoPage]
    /\ task = [w \in Names |-> NoTask]
    /\ related = [page \in Pages |-> {}]
    /\ label = [o \in Objects |-> IF o \in AtFirst THEN 0 ELSE NotYet]
    /\ option = OptionsOf(label)
    /\ chosen = [s \in Selects |-> NoObject]
    /\ linked = [s \in Selects |-> NoObject]
    /\ select2 = NothingKept /\ rendered = NothingShown

-----------------------------------------------------------------------------
(* Windows.                                                                *)

(* dismissChildPopups of a page: its windows, theirs, and so on.           *)
Below(page) == related[page] \cup UNION {related[w] : w \in related[page]}

(* Some windows close, and are no more than closed entries in the lists of *)
(* those that opened them.                                                 *)
Closed(windows) == [w \in Names |-> IF w \in windows THEN NoPage ELSE opener[w]]
Forgotten(windows) ==
    [page \in Pages |-> IF page \in windows THEN {} ELSE related[page] \ windows]
Idle(windows) == [w \in Names |-> IF w \in windows THEN NoTask ELSE task[w]]

(* addPopupIndex: the page's own index is the number its name ends with.   *)
addPopupIndex(page, field) == [field |-> field, index |-> page.index + 1]

(* Mutant: the page a window had before does not close its windows.        *)
ReuseLeavesChildren(page, field, what) ==
    LET name == addPopupIndex(page, field)
    IN  /\ opener' = [opener EXCEPT ![name] = page]
        /\ task' = [task EXCEPT ![name] = what]
        /\ related' = [related EXCEPT ![name] = {}, ![page] = @ \cup {name}]

(* showAdminPopup: window.open takes the window of that name if there is   *)
(* one, whoever opened it; the page it had is unloaded.                    *)
ShowAdminPopup(page, field, what) ==
    LET name == addPopupIndex(page, field)
        closing == IF IsOpen(name) THEN Below(name) ELSE {}
    IN  /\ opener' = [Closed(closing) EXCEPT ![name] = page]
        /\ task' = [Idle(closing) EXCEPT ![name] = what]
        /\ related' = [Forgotten(closing) EXCEPT ![name] = {}, ![page] = @ \cup {name}]

Close(windows) ==
    /\ opener' = Closed(windows)
    /\ task' = Idle(windows)
    /\ related' = Forgotten(windows)

ClickAdd(page, field) ==
    /\ IsOpen(page) /\ field \in FieldsOf(page)
    /\ ShowAdminPopup(page, field, [kind |-> "add", object |-> NoObject])
    /\ UNCHANGED fields

(* The links that have a href; the form is about what the link was about.  *)
ClickLink(s, kind) ==
    /\ s \in here /\ (kind = "delete" => s = Plain)
    /\ linked[s] # NoObject
    /\ ShowAdminPopup(Main, s, [kind |-> kind, object |-> linked[s]])
    /\ UNCHANGED fields

(* The user closes a window, or its form comes back with errors: either    *)
(* way its page is unloaded, which closes the windows it opened.           *)
CloseWindow(w) ==
    /\ IsOpen(w)
    /\ Close({w} \cup Below(w))
    /\ UNCHANGED fields

FormRefused(w) ==
    /\ IsOpen(w) /\ Below(w) # {}
    /\ Close(Below(w))
    /\ UNCHANGED fields

-----------------------------------------------------------------------------
(* The answers.                                                            *)

(* The field an answer is for: removePopupIndex, on the opener's page.     *)
FieldFor(w) == w.field

(* The selects whose data-context is "available-source": not those that    *)
(* ask the server for their options.                                       *)
Sources == {Plain}

(* What was added or renamed gets its label in the select that asked and,  *)
(* by updateRelatedSelectsOptions, in the sources of the page, which offer *)
(* it from now on if they did not. The other rows are not told.            *)
Relabelled(s, o, name) ==
    [x \in Selects |->
        IF x = s \/ x \in here \cap Sources THEN [option[x] EXCEPT ![o] = name] ELSE option[x]]

(* SelectAdapter.item: a name is read from an option once and kept.        *)
Keeps(s, o, name) ==
    [x \in DishRows |-> IF x = s THEN [select2[x] EXCEPT ![o] = name] ELSE select2[x]]

(* SingleSelection.update, of a row.                                       *)
Shows(s, o, name) ==
    [x \in DishRows |-> IF x = s THEN [object |-> o, text |-> name] ELSE rendered[x]]

(* dismissAddRelatedObjectPopup: the new object is chosen at once.         *)
AnswerAdd(w, o) ==
    LET s == FieldFor(w)
    IN  /\ IsOpen(w) /\ w.field \in Selects /\ task[w].kind = "add"
        /\ label[o] = NotYet
        /\ label' = [label EXCEPT ![o] = 0]
        /\ option' = Relabelled(s, o, 0)
        /\ chosen' = [chosen EXCEPT ![s] = o]
        /\ linked' = [linked EXCEPT ![s] = o]
        /\ select2' = Keeps(s, o, 0) /\ rendered' = Shows(s, o, 0)
        /\ Close({w} \cup Below(w))
        /\ UNCHANGED here

(* dismissChangeRelatedObjectPopup, of an object that still exists: a row  *)
(* shows the new name, whatever it has chosen by now, and the name that is *)
(* kept with the option stays.                                             *)
AnswerChange(w) ==
    LET s == FieldFor(w)
        o == task[w].object
        name == label[o] + 1
    IN  /\ IsOpen(w) /\ task[w].kind = "change"
        /\ Exists(o) /\ label[o] < MaxLabel
        /\ label' = [label EXCEPT ![o] = name]
        /\ option' = Relabelled(s, o, name)
        /\ rendered' = Shows(s, o, name)
        /\ Close({w} \cup Below(w))
        /\ UNCHANGED <<here, chosen, linked, select2>>

(* Mutant: the links keep the object that is gone.                         *)
DeleteKeepsLinks(w) ==
    LET s == FieldFor(w)
        o == task[w].object
    IN  /\ IsOpen(w) /\ task[w].kind = "delete"
        /\ Exists(o)
        /\ label' = [label EXCEPT ![o] = Gone]
        /\ option' = [option EXCEPT ![s][o] = Missing]
        /\ chosen' = [chosen EXCEPT ![s] = IF @ = o THEN NoObject ELSE @]
        /\ Close({w} \cup Below(w))
        /\ UNCHANGED <<here, linked, select2, rendered>>

(* dismissDeleteRelatedObjectPopup: the option goes, the empty one is left *)
(* in its place, and the change event brings the links to it.              *)
AnswerDelete(w) ==
    LET s == FieldFor(w)
        o == task[w].object
    IN  /\ IsOpen(w) /\ task[w].kind = "delete"
        /\ Exists(o)
        /\ label' = [label EXCEPT ![o] = Gone]
        /\ option' = [option EXCEPT ![s][o] = Missing]
        /\ chosen' = [chosen EXCEPT ![s] = IF @ = o THEN NoObject ELSE @]
        /\ linked' = [linked EXCEPT ![s] = chosen'[s]]
        /\ Close({w} \cup Below(w))
        /\ UNCHANGED <<here, select2, rendered>>

(* The form of another model is saved: its answer goes to a field that is  *)
(* not followed.                                                           *)
AnswerInner(w) ==
    /\ IsOpen(w) /\ w.field \in Inner
    /\ Close({w} \cup Below(w))
    /\ UNCHANGED fields

(* The names under which a select offers an object: the option's own, or   *)
(* for a row one that the server gave it when the list was fetched.        *)
Offered(s, o) == IF s = Plain THEN {option[s][o]} \ {Missing} ELSE 0..label[o]

(* The user chooses an object. A row gets an option for it if it has none  *)
(* (ArrayAdapter.select), shows the name that is kept with the option, and *)
(* the links follow: updateRelatedObjectLinks.                             *)
Choose(s, o) ==
    /\ s \in here /\ chosen[s] # o
    /\ \E name \in Offered(s, o) :
        IF option[s][o] = Missing
        THEN /\ option' = [option EXCEPT ![s][o] = name]
             /\ select2' = Keeps(s, o, name) /\ rendered' = Shows(s, o, name)
        ELSE rendered' = Shows(s, o, select2[s][o]) /\ UNCHANGED <<option, select2>>
    /\ chosen' = [chosen EXCEPT ![s] = o]
    /\ linked' = [linked EXCEPT ![s] = o]
    /\ UNCHANGED <<here, opener, task, related, label>>

(* The first page is left, and another one shown.                          *)
Leave(page) ==
    /\ Close(Below(Main))
    /\ here' = page
    /\ option' = OptionsOf(label)
    /\ chosen' = [s \in Selects |-> NoObject]
    /\ linked' = [s \in Selects |-> NoObject]
    /\ select2' = NothingKept /\ rendered' = NothingShown
    /\ UNCHANGED label

Next ==
    \/ \E page \in Pages : \E field \in FieldsOf(page) : ClickAdd(page, field)
    \/ \E s \in Selects, kind \in {"change", "delete"} : ClickLink(s, kind)
    \/ \E w \in Names : CloseWindow(w) \/ FormRefused(w)
    \/ \E w \in Names, o \in Objects : AnswerAdd(w, o)
    \/ \E w \in Names : AnswerChange(w) \/ AnswerDelete(w) \/ AnswerInner(w)
    \/ \E s \in Selects, o \in Objects : Choose(s, o)
    \/ \E page \in FirstPages : Leave(page)

Spec == Init /\ [][Next]_vars

-----------------------------------------------------------------------------
(* A window that is open has a page to answer to: its opener is open, has  *)
(* the field the answer is for, and will close the window when it goes,    *)
(* although a window may be taken over by another page and its own page    *)
(* may be sent back, reloaded or left at any time.                         *)
WindowsHaveOpeners ==
    \A w \in Names : IsOpen(w) =>
        /\ IsOpen(opener[w])
        /\ w \in related[opener[w]]
        /\ FieldFor(w) \in FieldsOf(opener[w])
        /\ w.index = opener[w].index + 1

(* A field that asks the server for nothing offers what there is, each     *)
(* object by the name it has.                                              *)
OffersAll(s) ==
    \A o \in Objects : option[s][o] = IF Exists(o) THEN label[o] ELSE Missing

(* A row offers objects by a name they have or had and shows such a name,  *)
(* no older than the one its select2 keeps; and it shows the name of       *)
(* another object than it has chosen only if a window of its own gave the  *)
(* object that name after it had been chosen in the row. A row that has    *)
(* chosen nothing offers and shows nothing.                                *)
RowIsSound(s) ==
    LET whose == rendered[s].object
        name == rendered[s].text
    IN  /\ \A o \in Objects : option[s][o] # Missing =>
            /\ chosen[s] # NoObject
            /\ select2[s][o] \in 0..option[s][o] /\ option[s][o] <= label[o]
        /\ whose = NoObject <=> chosen[s] = NoObject
        /\ whose # NoObject =>
            option[s][whose] # Missing /\ name \in select2[s][whose]..option[s][whose]
        /\ whose # chosen[s] => name = option[s][whose] /\ name > select2[s][whose]

(* In whatever order the windows of several fields are answered, the links *)
(* beside a field are about the object it has chosen, which it offers, and *)
(* what it offers and shows are names of objects there are.                *)
SelectsAreSound ==
    \A s \in here :
        /\ linked[s] = chosen[s]
        /\ chosen[s] # NoObject => option[s][chosen[s]] # Missing
        /\ s = Plain => OffersAll(s)
        /\ s \in DishRows => RowIsSound(s)

=============================================================================
