---------------------------- MODULE MCAdminPages ----------------------------
(***************************************************************************)
(* Every page of AdminPages on a small instance.                           *)
(***************************************************************************)
EXTENDS AdminPages, TLC

CONSTANTS p1, p2, p3            \* permissions

ThreeItems == {p1, p2, p3}
OneLater == {p3}
OnePreselected == {p1}
OneWord == {"can"}
WordMatches == "can" :> {p2, p3}

(* Half past two in the afternoon by UTC on the last of March of a leap    *)
(* year: half past eleven at night in Seoul, and April in Auckland,        *)
(* where half an hour ago summer time ended.                               *)
LastOfMarch == [date |-> [y |-> 2040, m |-> 3, d |-> 31], minute |-> 870]
Seoul == [before |-> 540, after |-> 540, change |-> 0]
NewYork == [before |-> -240, after |-> -240, change |-> 0]
Auckland == [before |-> 780, after |-> 720, change |-> 840]
ThreeZones == {Seoul, NewYork, Auckland}

(* A date that does not exist, a year of two digits, the end of February   *)
(* in a year that is no leap year although 4 divides it.                   *)
SomeDates == {[y |-> 2023, m |-> 2, d |-> 30], [y |-> 24, m |-> 12, d |-> 3],
              [y |-> 1900, m |-> 2, d |-> 28]}
FirstAndLast == {1, 29}

CONSTANTS t1, t2                \* tabs

TwoTabs == {t1, t2}
TwoModels == {"Menus", "Set menus"}
ThreeTexts == {"Set", "set", "x"}
InLowerCase == [w \in ThreeTexts |-> IF w = "Set" THEN "set" ELSE w]
TitlesWith == "set" :> {"Set menus"} @@ "x" :> {}
OrdersAndMenus == {"orders", "menus"}
FiltersThere == "orders" :> {"status"} @@ "menus" :> {}
=============================================================================
