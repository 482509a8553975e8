------------------------------ MODULE Formset ------------------------------
(***************************************************************************)
(* The rows of an inline formset of the admin site (the dishes of a set    *)
(* menu, the codes of a coupon): inlines.js, and autocomplete.js for the   *)
(* dish of a row. The server reads TOTAL_FORMS forms, named prefix-0,      *)
(* prefix-1, ..., and takes the first INITIAL_FORMS of them for the saved  *)
(* ones, so the page renumbers the rows whenever one is removed.           *)
(***************************************************************************)
EXTENDS Places, SequencesExt

CONSTANTS
    MinForms, MaxForms,     \* MIN_NUM_FORMS and MAX_NUM_FORMS
    MaxSaved, MaxExtra      \* bounds on the rows the server sends

VARIABLES
    body,               \* the rows of the table, with those of their errors
    totalForms,         \* the hidden field TOTAL_FORMS
    nextIndex,
    templateEditors,    \* how often the template's dish was made a select2
    addShown,           \* the link "Add another" is shown
    deleteShown         \* the links "Remove" are shown

vars == <<body, totalForms, nextIndex, templateEditors, addShown, deleteShown>>

(* A row: its errors, when the server found some for the form as a whole,  *)
(* are in a row of their own before it. A form has the number in its id,   *)
(* the number in the names of its fields, and the times its dish became a  *)
(* select2.                                                                *)
ErrorRow == [kind |-> "errors"]
FormRow(saved, failed, number, editors) ==
    [kind |-> "form", saved |-> saved, failed |-> failed,
     rowId |-> number, index |-> number, editors |-> editors]

FormRows == [kind : {"form"}, saved : BOOLEAN, failed : BOOLEAN,
             rowId : Nat, index : Nat, editors : Nat]

TypeOK ==
    /\ body \in Seq({ErrorRow} \cup FormRows)
    /\ totalForms \in Nat /\ nextIndex \in Int
    /\ templateEditors \in Nat
    /\ addShown \in BOOLEAN /\ deleteShown \in BOOLEAN

IsForm(row) == row.kind = "form"
Forms(rows) == {k \in DOMAIN rows : IsForm(rows[k])}
Count(rows) == Cardinality(Forms(rows))
FormAt(k) == k \in DOMAIN body /\ IsForm(body[k])

(* The limits; saved rows beyond them do not count against the page.       *)
MayAdd(count) == MaxForms - count > 0
MayDelete(count) == MinForms - count < 0

-----------------------------------------------------------------------------
(* Mutant: the template's dish becomes a select2 like those of the rows,   *)
(* and every row that is cloned from it has that before its own.           *)
LoadAll(rows) ==
    /\ body' = [k \in DOMAIN rows |->
                    IF IsForm(rows[k]) THEN [rows[k] EXCEPT !.editors = @ + 1] ELSE rows[k]]
    /\ templateEditors' = 1
    /\ totalForms' = Count(rows) /\ nextIndex' = Count(rows)
    /\ addShown' = MayAdd(Count(rows))
    /\ deleteShown' = MayDelete(Count(rows))

(* The page is ready: formset, with the links, then the select2 of every   *)
(* row but the template.                                                   *)
Load(rows) ==
    /\ body' = [k \in DOMAIN rows |->
                    IF IsForm(rows[k]) THEN [rows[k] EXCEPT !.editors = @ + 1] ELSE rows[k]]
    /\ templateEditors' = 0
    /\ totalForms' = Count(rows) /\ nextIndex' = Count(rows)
    /\ addShown' = MayAdd(Count(rows))
    /\ deleteShown' = MayDelete(Count(rows))

(* What the server sends: the saved rows and then the new ones, with the   *)
(* errors it found.                                                        *)
Page(saved, count, failed) ==
    LET form(k) == FormRow(k <= saved, k \in failed, k - 1, 0)
    IN  FlattenSeq([k \in 1..count |->
            IF k \in failed THEN <<ErrorRow, form(k)>> ELSE <<form(k)>>])

(* The page of an object with no rows yet.                                 *)
Init ==
    /\ body = <<>> /\ templateEditors = 0
    /\ totalForms = 0 /\ nextIndex = 0
    /\ addShown = MayAdd(0) /\ deleteShown = MayDelete(0)

(* The page of an object with some rows, and the empty ones it comes with. *)
Open(saved, extra) == Load(Page(saved, saved + extra, {}))

(* "Add another": the template is cloned before itself, at the end of the  *)
(* rows; formset:added makes a select2 of the dish of the new row.         *)
AddForm ==
    LET new == FormRow(FALSE, FALSE, totalForms, templateEditors + 1)
    IN  /\ addShown
        /\ body' = Append(body, [new EXCEPT !.rowId = nextIndex])
        /\ totalForms' = totalForms + 1 /\ nextIndex' = nextIndex + 1
        /\ addShown' = (addShown /\ MayAdd(totalForms'))
        /\ deleteShown' = MayDelete(totalForms')
        /\ UNCHANGED templateEditors

(* Mutant: the others keep their numbers.                                  *)
KeepNumbers(rows) == rows

(* Every form gets the number of its place.                                *)
Renumbered(rows) ==
    [k \in DOMAIN rows |->
        IF ~IsForm(rows[k]) THEN rows[k]
        ELSE LET place == Cardinality({j \in Forms(rows) : j < k})
             IN  [rows[k] EXCEPT !.rowId = place, !.index = place]]

(* The row, and that of its errors when there is one before it.            *)
Without(k) ==
    IF k > 1 /\ ~IsForm(body[k - 1])
    THEN RemoveAt(RemoveAt(body, k), k - 1)
    ELSE RemoveAt(body, k)

(* "Remove" on a row that is not saved.                                    *)
DeleteForm(k) ==
    LET left == Without(k)
        count == Count(left)
    IN  /\ FormAt(k) /\ ~body[k].saved /\ deleteShown
        /\ body' = Renumbered(left)
        /\ totalForms' = count /\ nextIndex' = nextIndex - 1
        /\ addShown' = (addShown \/ MayAdd(count))
        /\ deleteShown' = MayDelete(count)
        /\ UNCHANGED templateEditors

(* The form is sent and comes back with errors, of some rows as a whole or *)
(* of fields only: as many rows as were sent, the saved ones first.        *)
Refused ==
    LET saved == Cardinality({k \in Forms(body) : body[k].saved})
    IN  \E failed \in SUBSET (1..totalForms) : Load(Page(saved, totalForms, failed))

Next ==
    \/ \E saved \in 0..MaxSaved, extra \in 0..MaxExtra : Open(saved, extra)
    \/ AddForm
    \/ \E k \in DOMAIN body : DeleteForm(k)
    \/ Refused

Spec == Init /\ [][Next]_vars

-----------------------------------------------------------------------------
(* The server finds every form of the page, once, and takes the saved ones *)
(* for the saved ones and the new ones for new ones: the names count up    *)
(* from 0 without a gap, to TOTAL_FORMS, saved rows first, whatever was    *)
(* added and removed before, between refusals; and the page offers to add  *)
(* no more than the server takes.                                          *)
FormsInSequence ==
    LET forms == Picked(body, Forms(body))
    IN  /\ totalForms = Count(body) /\ nextIndex = totalForms
        /\ \A k \in DOMAIN forms : forms[k].index = k - 1 /\ forms[k].rowId = k - 1
        /\ \A j, k \in DOMAIN forms : j < k /\ forms[k].saved => forms[j].saved
        /\ addShown => totalForms < MaxForms

(* What belongs to a row comes and goes with it: its dish is a select2     *)
(* exactly once, however it came to be on the page, and errors stand only  *)
(* before the row they are about.                                          *)
RowsAreWhole ==
    \A k \in DOMAIN body :
        IF IsForm(body[k])
        THEN /\ body[k].editors = 1
             /\ body[k].failed <=> k > 1 /\ ~IsForm(body[k - 1])
        ELSE k + 1 \in DOMAIN body /\ IsForm(body[k + 1]) /\ body[k + 1].failed

=============================================================================
