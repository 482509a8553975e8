----------------------------- MODULE ChangeList -----------------------------
(***************************************************************************)
(* The change list of the admin site, where staff tick rows and run an     *)
(* action (delete, mostly) on them: static/admin/js/actions.js. The server *)
(* gets the ticked rows and the hidden field select_across, which says     *)
(* that the action is for every object of the query, on this page or not.  *)
(***************************************************************************)
EXTENDS Integers

CONSTANT RowCount           \* the rows of the page

Rows == 1..RowCount
NoRow == 0

VARIABLES
    checked,        \* the rows that are ticked
    allToggle,      \* the box in the head of the table
    across,         \* select_across
    spans,          \* the parts of the action bar that are not hidden
    lastChecked,    \* the row whose box was clicked last
    sent            \* what the last action was for, as the server gets it

vars == <<checked, allToggle, across, spans, lastChecked, sent>>

Spans == {"question", "clear", "all", "counter"}
Nothing == [rows |-> {}, everything |-> FALSE]

TypeOK ==
    /\ checked \subseteq Rows
    /\ allToggle \in BOOLEAN
    /\ across \in BOOLEAN
    /\ spans \subseteq Spans
    /\ lastChecked \in Rows \cup {NoRow}
    /\ sent \in [rows : SUBSET Rows, everything : BOOLEAN]

(* The page as the server sends it.                                        *)
Init ==
    /\ checked = {} /\ allToggle = FALSE /\ across = FALSE
    /\ spans = {"counter"}
    /\ lastChecked = NoRow
    /\ sent = Nothing

-----------------------------------------------------------------------------
(* The action bar.                                                         *)

ShowQuestion(shown) == (shown \ {"clear", "all"}) \cup {"question"}
ShowClear(shown) == (shown \ {"question", "counter"}) \cup {"clear", "all"}
Reset(shown) == (shown \ {"clear", "question", "all"}) \cup {"counter"}

(* checker: the boxes of some rows are set and the bar follows.            *)
Check(rows, on) == IF on THEN checked \cup rows ELSE checked \ rows
BarAfterCheck(on) == IF on THEN ShowQuestion(spans) ELSE Reset(spans)

(* Mutant: select_across outlives the selection it was for.                *)
AcrossStays(ticked, shown) ==
    /\ checked' = ticked
    /\ allToggle' = (ticked = Rows)
    /\ IF ticked = Rows
       THEN spans' = ShowQuestion(shown) /\ UNCHANGED across
       ELSE spans' = Reset(shown) /\ UNCHANGED across

(* updateCounter, after the boxes are as in ticked and the bar as in shown *)
UpdateCounter(ticked, shown) ==
    /\ checked' = ticked
    /\ allToggle' = (ticked = Rows)
    /\ IF ticked = Rows
       THEN spans' = ShowQuestion(shown) /\ UNCHANGED across
       ELSE spans' = Reset(shown) /\ across' = FALSE

-----------------------------------------------------------------------------
(* A click on the box in the head of the table.                            *)
ToggleAll ==
    /\ UpdateCounter(Check(Rows, ~allToggle), BarAfterCheck(~allToggle))
    /\ UNCHANGED <<lastChecked, sent>>

(* The rows a click is for: with shift, those since the last one as well.  *)
Affected(r, shift) ==
    IF shift /\ lastChecked \notin {NoRow, r}
    THEN {k \in Rows : (r <= k /\ k <= lastChecked) \/ (lastChecked <= k /\ k <= r)}
    ELSE {r}

SelectRow(r, shift) ==
    LET on == r \notin checked
    IN  /\ UpdateCounter(Check(Affected(r, shift), on), BarAfterCheck(on))
        /\ lastChecked' = r
        /\ UNCHANGED sent

(* "Select all n objects": the page is told to act on all of them.         *)
SelectAcross ==
    /\ "question" \in spans
    /\ across' = TRUE
    /\ spans' = ShowClear(spans)
    /\ UNCHANGED <<checked, allToggle, lastChecked, sent>>

(* "Clear selection".                                                      *)
ClearSelection ==
    /\ "clear" \in spans
    /\ UpdateCounter({}, Reset(spans))
    /\ UNCHANGED <<lastChecked, sent>>

(* "Go": the browser leaves the page with its boxes as they are. (No list  *)
(* has cells that can be edited, so there are no changes to agree to lose.)*)
RunAction ==
    /\ checked # {}
    /\ sent' = [rows |-> checked, everything |-> across]
    /\ UNCHANGED <<checked, allToggle, across, spans, lastChecked>>

(* The page is loaded again, after an action or before one.                *)
Reload ==
    /\ checked' = {} /\ allToggle' = FALSE /\ across' = FALSE
    /\ spans' = {"counter"}
    /\ lastChecked' = NoRow
    /\ sent' = Nothing

(* The page is shown again, through the back button: as it was left, or    *)
(* loaded again with the boxes and the hidden field filled in as they were.*)
PageShow ==
    /\ \E asLeft \in BOOLEAN :
        /\ UpdateCounter(checked, IF asLeft THEN spans ELSE {"counter"})
        /\ lastChecked' = IF asLeft THEN lastChecked ELSE NoRow
    /\ UNCHANGED sent

(* "No, take me back" on the page that asks whether to delete the rows.    *)
Cancel ==
    /\ sent # Nothing
    /\ PageShow

Next ==
    \/ ToggleAll
    \/ \E r \in Rows, shift \in BOOLEAN : SelectRow(r, shift)
    \/ SelectAcross
    \/ ClearSelection
    \/ RunAction
    \/ Reload
    \/ PageShow
    \/ Cancel

Spec == Init /\ [][Next]_vars

-----------------------------------------------------------------------------
(* An action reaches objects outside the page only while every row of the  *)
(* page is ticked, whatever was ticked and unticked, one by one, with      *)
(* shift, from the head of the table or through the back button, since     *)
(* "Select all" was clicked.                                               *)
AcrossNeedsAllRows ==
    /\ across => checked = Rows
    /\ sent.everything => sent.rows = Rows

=============================================================================
