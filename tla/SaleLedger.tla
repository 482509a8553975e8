----------------------------- MODULE SaleLedger -----------------------------
(***************************************************************************)
(* What the checkout promises, without carts, reservations or payment      *)
(* states: a shelf of units and a ledger of sales that only grows. A sale  *)
(* takes its units from the shelf in the same step, the rounds of a cart   *)
(* are sold once each and in order, and a coupon code buys one sale.       *)
(***************************************************************************)
EXTENDS Integers, Sequences

CONSTANTS
    Menus,
    Lines, Empty,   \* the contents a sale may have, and the empty one
    Need(_),        \* units of each menu that given contents take
    Carts, Codes, NoCode,
    MaxRound,       \* bound on the rounds of a cart
    StockLevels     \* stock values the booth opens with

VARIABLES
    shelf,      \* units of each menu that can be sold
    sales       \* sequence of [cart, round, lines, code]

Sale == [cart : Carts, round : 0..MaxRound, lines : Lines,
         code : Codes \cup {NoCode}]

Sold == {sales[i] : i \in DOMAIN sales}

Sell(s) ==
    /\ sales' = Append(sales, s)
    /\ \A t \in Sold : t.cart = s.cart => t.round < s.round
    /\ s.round > 0 => \E t \in Sold : t.cart = s.cart /\ t.round = s.round - 1
    /\ s.code # NoCode => \A t \in Sold : t.code # s.code
    /\ s.lines # Empty
    /\ \A m \in Menus : Need(s.lines)[m] <= shelf[m]
    /\ shelf' = [m \in Menus |-> shelf[m] - Need(s.lines)[m]]

(* The administrator sets the stock of a menu to any legal value.          *)
Restock(m) ==
    /\ shelf'[m] \in Nat
    /\ shelf' = [shelf EXCEPT ![m] = shelf'[m]]
    /\ UNCHANGED sales

Init ==
    /\ shelf \in [Menus -> StockLevels]
    /\ sales = <<>>

Next ==
    \/ \E s \in Sale : Sell(s)
    \/ \E m \in Menus : Restock(m)

Spec == Init /\ [][Next]_<<shelf, sales>>

=============================================================================
