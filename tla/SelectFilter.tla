---------------------------- MODULE SelectFilter ----------------------------
(***************************************************************************)
(* The widget with two boxes, "available" and "chosen", that the admin     *)
(* site shows for a user's groups and permissions: SelectFilter2.js over   *)
(* SelectBox.js. SelectBox keeps every choice of a box in a cache, with a  *)
(* mark on those the box shows; the options of the page are rebuilt from   *)
(* it, unselected, whenever something moves or is filtered.                *)
(***************************************************************************)
EXTENDS Places, SequencesExt

CONSTANTS
    Items,        \* every choice there is or will be
    Later,          \* those that are created through the add link
    Preselected,    \* those that are chosen when the page is loaded
    Words,          \* what can be typed into a filter
    Match           \* Match[w]: the choices whose text has the word w

Boxes == {"from", "to"}
Other(b) == IF b = "from" THEN "to" ELSE "from"
Texts == Words \cup {""}
Buttons == {"add", "remove", "add_all", "remove_all"}
NotSent == [sent |-> FALSE]

VARIABLES
    cache,          \* SelectBox.cache: for each box its choices, in order
    selected,       \* the selected options of each box
    text,           \* what is in the filter of each box
    enabled,        \* the buttons that are not disabled
    warned,         \* how many chosen choices the page says it hides
    known,          \* the choices that exist
    form            \* what the form has sent, if it has

vars == <<cache, selected, text, enabled, warned, known, form>>

Node == [value : Items, displayed : BOOLEAN]

TypeOK ==
    /\ cache \in [Boxes -> Seq(Node)]
    /\ selected \in [Boxes -> SUBSET Items]
    /\ text \in [Boxes -> Texts]
    /\ enabled \subseteq Buttons
    /\ warned \in Nat
    /\ known \subseteq Items
    /\ form \in {NotSent} \cup [sent : {TRUE}, values : SUBSET Items]

Values(nodes) == {nodes[k].value : k \in DOMAIN nodes}
Options(nodes) == Picked(nodes, {k \in DOMAIN nodes : nodes[k].displayed})
Hidden(nodes) == {k \in DOMAIN nodes : ~nodes[k].displayed}
(* SelectBox.select_all                                                    *)
AllOptions(nodes) == Values(Options(nodes))

(* refresh_filtered_warning                                                *)
HiddenChosen(boxes) == Cardinality(Hidden(boxes["to"]))

Unselected == [b \in Boxes |-> {}]

(* selectedIndex, 1 for the first option and 0 for none; setting it        *)
(* selects that option alone, or nothing when there is none.               *)
SelectedIndex(b) ==
    LET options == Options(cache[b])
        at == {k \in DOMAIN options : options[k].value \in selected[b]}
    IN  IF at = {} THEN 0 ELSE CHOOSE k \in at : \A h \in at : k <= h

OptionAt(nodes, k) ==
    IF k \in DOMAIN Options(nodes) THEN {Options(nodes)[k].value} ELSE {}

(* any_selected, which the browser answers as it checks a required field   *)
AnySelected(chosen, b) == chosen[b] # {}

(* refresh_icons                                                           *)
Icons(nodes, chosen) ==
    {x \in Buttons :
        \/ x = "add" /\ AnySelected(chosen, "from")
        \/ x = "remove" /\ AnySelected(chosen, "to")
        \/ x = "add_all" /\ Options(nodes["from"]) # <<>>
        \/ x = "remove_all" /\ Options(nodes["to"]) # <<>>}

(* SelectBox.filter                                                        *)
Filter(nodes, w) ==
    [k \in DOMAIN nodes |->
        [nodes[k] EXCEPT !.displayed = (w = "" \/ nodes[k].value \in Match[w])]]

(* refresh_filtered_selects                                                *)
FilterBoth(nodes) == [b \in Boxes |-> Filter(nodes[b], text[b])]

(* Where the options are that have the values.                             *)
Moving(nodes, values) ==
    {k \in DOMAIN nodes : nodes[k].displayed /\ nodes[k].value \in values}

(* Mutant: a choice that moves stays where it was as well.                 *)
Copy(b, values) ==
    [cache EXCEPT ![Other(b)] = @ \o Picked(cache[b], Moving(cache[b], values))]

(* SelectBox.move and move_all: options that are in the cache of the box   *)
(* go to the end of the other one, and are shown there.                    *)
Move(b, values) ==
    LET moving == Moving(cache[b], values)
    IN  [cache EXCEPT ![b] = Picked(@, DOMAIN @ \ moving),
                      ![Other(b)] = @ \o Picked(cache[b], moving)]

-----------------------------------------------------------------------------
(* A loaded page, with some choices chosen: init moves them across.        *)
Loaded(all, chosen) ==
    LET nodes(S) == [k \in 1..Cardinality(S) |->
                        [value |-> SetToSeq(S)[k], displayed |-> TRUE]]
        both == [b \in Boxes |-> IF b = "to" THEN nodes(chosen) ELSE nodes(all \ chosen)]
    IN  [cache |-> both, enabled |-> Icons(both, Unselected)]

Init ==
    LET page == Loaded(Items \ Later, Preselected)
    IN  /\ cache = page.cache /\ enabled = page.enabled
        /\ selected = Unselected
        /\ text = [b \in Boxes |-> ""]
        /\ warned = 0
        /\ known = Items \ Later
        /\ form = NotSent

Open == form = NotSent

(* The user selects options of a box.                                      *)
Pick(b, chosen) ==
    /\ Open /\ chosen # selected[b]
    /\ selected' = [selected EXCEPT ![b] = chosen]
    /\ enabled' = Icons(cache, selected')
    /\ UNCHANGED <<cache, text, warned, known, form>>

(* move_selection: the icons are refreshed before the boxes are filtered   *)
(* again.                                                                  *)
MoveSelection(b, button, chosen) ==
    /\ Open /\ button \in enabled
    /\ enabled' = Icons(Move(b, chosen), Unselected)
    /\ cache' = FilterBoth(Move(b, chosen))
    /\ selected' = Unselected
    /\ warned' = HiddenChosen(cache')
    /\ UNCHANGED <<text, known, form>>

AddSelected == MoveSelection("from", "add", selected["from"])
RemoveSelected == MoveSelection("to", "remove", selected["to"])
ChooseAll == MoveSelection("from", "add_all", AllOptions(cache["from"]))
ClearAll == MoveSelection("to", "remove_all", AllOptions(cache["to"]))

(* A double click selects an option and moves it, without the filters.     *)
DoubleClick(b, c) ==
    /\ Open
    /\ cache' = Move(b, {c})
    /\ selected' = Unselected
    /\ enabled' = Icons(cache', Unselected)
    /\ UNCHANGED <<text, warned, known, form>>

(* Text gets into a filter; a key that is released applies it and puts the *)
(* selection back by its index.                                            *)
Input(b, w) ==
    /\ Open /\ w # text[b]
    /\ text' = [text EXCEPT ![b] = w]
    /\ UNCHANGED <<cache, selected, enabled, warned, known, form>>

(* Mutant: the hidden choices are counted before the filter is applied.    *)
WarnBeforeFilter(b) ==
    /\ Open
    /\ cache' = [cache EXCEPT ![b] = Filter(@, text[b])]
    /\ selected' = [selected EXCEPT ![b] = OptionAt(cache'[b], SelectedIndex(b))]
    /\ warned' = HiddenChosen(cache)
    /\ enabled' = Icons(cache', selected')
    /\ UNCHANGED <<text, known, form>>

KeyUp(b) ==
    /\ Open
    /\ cache' = [cache EXCEPT ![b] = Filter(@, text[b])]
    /\ selected' = [selected EXCEPT ![b] = OptionAt(cache'[b], SelectedIndex(b))]
    /\ warned' = HiddenChosen(cache')
    /\ enabled' = Icons(cache', selected')
    /\ UNCHANGED <<text, known, form>>

(* Enter moves the first option the filter left, and selects the next one. *)
EnterPressed(b) ==
    /\ Open
    /\ cache' = Move(b, OptionAt(cache[b], 1))
    /\ selected' = [Unselected EXCEPT ![b] = OptionAt(cache'[b], 1)]
    /\ UNCHANGED <<text, enabled, warned, known, form>>

(* The arrow towards the other box moves what is selected, and selects     *)
(* what took its place.                                                    *)
ArrowAcross(b) ==
    LET old == SelectedIndex(b)
    IN  /\ Open
        /\ cache' = FilterBoth(Move(b, selected[b]))
        /\ warned' = HiddenChosen(cache')
        /\ LET left == Len(Options(cache'[b]))
           IN  selected' = [Unselected EXCEPT ![b] =
                    OptionAt(cache'[b], IF old = left + 1 THEN left ELSE old)]
        /\ UNCHANGED <<text, enabled, known, form>>

(* Up and down go around.                                                  *)
ArrowDown(b) ==
    LET old == SelectedIndex(b)
    IN  /\ Open
        /\ selected' = [selected EXCEPT ![b] = OptionAt(cache[b],
                            IF old = Len(Options(cache[b])) THEN 1 ELSE old + 1)]
        /\ UNCHANGED <<cache, text, enabled, warned, known, form>>

ArrowUp(b) ==
    LET old == SelectedIndex(b)
    IN  /\ Open
        /\ selected' = [selected EXCEPT ![b] = OptionAt(cache[b],
                            IF old = 1 THEN Len(Options(cache[b])) ELSE old - 1)]
        /\ UNCHANGED <<cache, text, enabled, warned, known, form>>

(* "k selected options not visible (click to clear)".                      *)
ClearFilter ==
    /\ Open
    /\ text' = [text EXCEPT !["to"] = ""]
    /\ cache' = [cache EXCEPT !["to"] = Filter(@, "")]
    /\ selected' = [selected EXCEPT !["to"] = {}]
    /\ warned' = HiddenChosen(cache')
    /\ enabled' = Icons(cache', selected')
    /\ UNCHANGED <<known, form>>

(* dismissAddRelatedObjectPopup: what was created through the add link is  *)
(* chosen at once.                                                         *)
RelatedAdded(c) ==
    /\ Open /\ c \notin known
    /\ known' = known \cup {c}
    /\ cache' = [cache EXCEPT !["to"] = Append(@, [value |-> c, displayed |-> TRUE])]
    /\ selected' = [selected EXCEPT !["to"] = {}]
    /\ UNCHANGED <<text, enabled, warned, form>>

(* The form sends the selected options of the box on the right.            *)
Submit ==
    /\ Open
    /\ cache' = [cache EXCEPT !["to"] = Filter(@, "")]
    /\ selected' = [selected EXCEPT !["to"] = AllOptions(cache'["to"])]
    /\ form' = [sent |-> TRUE, values |-> selected'["to"]]
    /\ UNCHANGED <<text, enabled, warned, known>>

(* The page is loaded again with what was sent.                            *)
Reopen ==
    /\ ~Open
    /\ LET page == Loaded(known, form.values)
       IN  cache' = page.cache /\ enabled' = page.enabled
    /\ selected' = Unselected
    /\ text' = [b \in Boxes |-> ""]
    /\ warned' = 0
    /\ form' = NotSent
    /\ UNCHANGED known

Next ==
    \/ \E b \in Boxes : \E chosen \in SUBSET Values(Options(cache[b])) : Pick(b, chosen)
    \/ AddSelected \/ RemoveSelected \/ ChooseAll \/ ClearAll
    \/ \E b \in Boxes : \E c \in Values(Options(cache[b])) : DoubleClick(b, c)
    \/ \E b \in Boxes, w \in Texts : Input(b, w)
    \/ \E b \in Boxes : KeyUp(b)
    \/ \E b \in Boxes : EnterPressed(b)
    \/ \E b \in Boxes : ArrowAcross(b) \/ ArrowDown(b) \/ ArrowUp(b)
    \/ ClearFilter
    \/ \E c \in Later : RelatedAdded(c)
    \/ Submit
    \/ Reopen

Spec == Init /\ [][Next]_vars

-----------------------------------------------------------------------------
(* Whatever is moved, filtered, typed and created, in any order, every     *)
(* choice is in exactly one of the boxes, once.                            *)
ChoicesConserved ==
    /\ Values(cache["from"]) \cup Values(cache["to"]) = known
    /\ Len(cache["from"]) + Len(cache["to"]) = Cardinality(known)

(* What the filter hides of the chosen box counts as chosen: the page      *)
(* tells how many it is hiding, and the form sends them with the others,   *)
(* and nothing else.                                                       *)
HiddenAreChosen ==
    IF Open THEN warned = HiddenChosen(cache)
            ELSE form.values = Values(cache["to"])

=============================================================================
