------------------------------ MODULE Catalog ------------------------------
(***************************************************************************)
(* What a booth sells: plain menus, whose stock is counted, set menus made *)
(* of plain menus, and the seat fee, whose stock is never looked at.       *)
(* A cart or an order is a function from products to the quantity of its   *)
(* line (0: no such line; the database keeps at most one line per product).*)
(***************************************************************************)
EXTENDS Integers, FiniteSets, Totals

CONSTANTS
    Menus,      \* Menu rows whose category is not FEE
    Sets,       \* SetMenu rows
    Fee,        \* the booth's FEE menu
    Comp,       \* Comp[s][m]: SetMenuItem.quantity of menu m in set s, 0 if absent
    MaxLine     \* bound on the quantity of one line

Products == Menus \cup Sets \cup {Fee}

Lines == [Products -> 0..MaxLine]

Empty == [p \in Products |-> 0]

ASSUME CatalogAssumption ==
    /\ MaxLine \in Nat
    /\ IsFiniteSet(Sets)
    /\ Menus \cap Sets = {} /\ Fee \notin Menus \cup Sets
    /\ Comp \in [Sets -> [Menus -> Nat]]
    /\ \A s \in Sets : \E m \in Menus : Comp[s][m] > 0

(* Units of each menu that a cart or an order takes from the stock: its    *)
(* direct lines plus what its sets are made of. The fee takes none.        *)
Need(lines) ==
    [m \in Menus |->
        lines[m] + Total([s \in Sets |-> lines[s] * Comp[s][m]])]

(* Every menu has the units asked of it.                                   *)
Covers(shelf, need) == \A m \in Menus : need[m] \in 0..shelf[m]

=============================================================================
