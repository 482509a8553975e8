------------------------------ MODULE Checkout ------------------------------
(***************************************************************************)
(* The checkout of one booth: every table's cart on its way from filling,  *)
(* through the bank-transfer payment request, to an order, with the menu   *)
(* stock, the stock reservations of pending payments and the coupon codes  *)
(* the carts compete for. Each action is one database transaction of       *)
(* django/cart/services.py, coupon/services.py or menu/services.py; the    *)
(* row locks they take (cart first, then menus, then coupon code) make     *)
(* each of them take effect at one instant, except the menu PATCH, which   *)
(* reads the row without a lock and writes it back later.                  *)
(***************************************************************************)
EXTENDS Catalog, Sequences

CONSTANTS
    Carts,          \* one cart per table usage (OneToOneField)
    Codes, NoCode,  \* coupon codes, and the absence of one
    SeatType,       \* Booth.SEAT_TYPE: "NO", "PP" or "PT"
    MaxRound,       \* bound on Cart.round
    StockLevels     \* the stock values an administrator may set

ASSUME CheckoutAssumption ==
    /\ IsFiniteSet(Carts)
    /\ NoCode \notin Codes
    /\ SeatType \in {"NO", "PP", "PT"}
    /\ MaxRound \in Nat
    /\ StockLevels \subseteq Nat

VARIABLES
    stock,      \* Menu.stock
    items,      \* CartItem rows of each cart
    status,     \* Cart.status
    round,      \* Cart.round
    live,       \* Cart.pending_expires_at is set and still in the future
    open,       \* TableUsage.ended_at is null
    applied,    \* CartCouponApply rows
    used,       \* codes whose CouponCode.used_at is set
    orders,     \* Order rows as they were made, with their lines and coupon
    edits       \* menu PATCH requests that have read their row

cartVars == <<items, status, round, live>>
vars == <<stock, items, status, round, live, open, applied, used, orders, edits>>

Status == {"ACTIVE", "PENDING", "ORDERED"}
Apply == [cart : Carts, round : 0..MaxRound, code : Codes]
Order == [cart : Carts, round : 0..MaxRound, lines : Lines,
          code : Codes \cup {NoCode}]

TypeOK ==
    /\ stock \in [Menus -> Int]
    /\ items \in [Carts -> Lines]
    /\ status \in [Carts -> Status]
    /\ round \in [Carts -> 0..MaxRound]
    /\ live \in [Carts -> BOOLEAN]
    /\ open \in [Carts -> BOOLEAN]
    /\ applied \subseteq Apply
    /\ used \subseteq Codes
    /\ orders \in Seq(Order)
    /\ edits \subseteq [menu : Menus, seen : Int]

Init ==
    /\ stock \in [Menus -> StockLevels]
    /\ items = [c \in Carts |-> Empty]
    /\ status = [c \in Carts |-> "ACTIVE"]
    /\ round = [c \in Carts |-> 0]
    /\ live = [c \in Carts |-> FALSE]
    /\ open = [c \in Carts |-> TRUE]
    /\ applied = {} /\ used = {} /\ orders = <<>> /\ edits = {}

-----------------------------------------------------------------------------
(* Filling the cart.                                                       *)

WithLine(c, p, q) == [items[c] EXCEPT ![p] = q]

(* The checks on a line set to a positive quantity: a fee needs a booth    *)
(* that charges one, anything else needs the stock for the whole cart      *)
(* (reservations of other carts are not counted here).                     *)
LineAllowed(c, p, q) ==
    IF p = Fee THEN SeatType # "NO"
               ELSE Covers(stock, Need(WithLine(c, p, q)))

AddToCart(c, p, q) ==
    /\ open[c] /\ status[c] = "ACTIVE"
    /\ items[c][p] + q <= MaxLine
    /\ LineAllowed(c, p, items[c][p] + q)
    /\ items' = [items EXCEPT ![c] = WithLine(c, p, items[c][p] + q)]
    /\ UNCHANGED <<stock, status, round, live, open, applied, used, orders, edits>>

(* Mutant of UpdateItem: the status of the cart is not looked at.          *)
UpdateWhilePending(c, p, q) ==
    /\ items[c][p] > 0
    /\ q > 0 => LineAllowed(c, p, q)
    /\ items' = [items EXCEPT ![c] = WithLine(c, p, q)]
    /\ UNCHANGED <<stock, status, round, live, open, applied, used, orders, edits>>

(* The only cart operation that does not ask whether the usage has ended.  *)
UpdateItem(c, p, q) ==
    /\ status[c] = "ACTIVE"
    /\ items[c][p] > 0
    /\ q > 0 => LineAllowed(c, p, q)
    /\ items' = [items EXCEPT ![c] = WithLine(c, p, q)]
    /\ UNCHANGED <<stock, status, round, live, open, applied, used, orders, edits>>

DeleteItem(c, p) ==
    /\ open[c] /\ status[c] = "ACTIVE"
    /\ items[c][p] > 0
    /\ items' = [items EXCEPT ![c] = WithLine(c, p, 0)]
    /\ UNCHANGED <<stock, status, round, live, open, applied, used, orders, edits>>

-----------------------------------------------------------------------------
(* Coupons.                                                                *)

(* The row, if any, that applies a code to the cart's current round.       *)
AppliedNow(c) == {a \in applied : a.cart = c /\ a.round = round[c]}

(* Mutant: a code applied by another cart is not refused.                  *)
ApplySharedCoupon(c, k) ==
    /\ open[c] /\ status[c] = "ACTIVE"
    /\ k \notin used
    /\ AppliedNow(c) = {}
    /\ applied' = applied \cup {[cart |-> c, round |-> round[c], code |-> k]}
    /\ UNCHANGED <<stock, cartVars, open, used, orders, edits>>

ApplyCoupon(c, k) ==
    /\ open[c] /\ status[c] = "ACTIVE"
    /\ k \notin used
    /\ \A a \in applied : a.code = k => a.cart = c
    /\ AppliedNow(c) = {}
    /\ applied' = applied \cup {[cart |-> c, round |-> round[c], code |-> k]}
    /\ UNCHANGED <<stock, cartVars, open, used, orders, edits>>

CancelCoupon(c) ==
    /\ open[c] /\ status[c] = "ACTIVE"
    /\ AppliedNow(c) # {}
    /\ applied' = applied \ AppliedNow(c)
    /\ UNCHANGED <<stock, cartVars, open, used, orders, edits>>

-----------------------------------------------------------------------------
(* Payment.                                                                *)

(* The carts whose items count as reserved: pending, deadline not reached; *)
(* and the units of a menu that some carts hold together.                  *)
Reserving == {c \in Carts : status[c] = "PENDING" /\ live[c]}

Reserved(m, C) == Total([c \in C |-> Need(items[c])[m]])

(* Mutants: the payment request looks at the stock and not at what others  *)
(* have reserved; the fee is asked for in later rounds only.               *)
UnreservedStockSuffices(c) == Covers(stock, Need(items[c]))

FeeIncludedLater(c) ==
    round[c] > 0 /\ SeatType # "NO" => items[c][Fee] > 0

(* The stock is checked, net of the other carts' reservations, for the     *)
(* menus the cart needs.                                                   *)
ReservationAllowed(c) ==
    LET need == Need(items[c])
    IN  \A m \in Menus : need[m] # 0 => need[m] + Reserved(m, Reserving \ {c}) <= stock[m]

FeeIncluded(c) ==
    round[c] = 0 /\ SeatType # "NO" => items[c][Fee] > 0

EnterPayment(c) ==
    /\ open[c] /\ status[c] = "ACTIVE"
    /\ items[c] # Empty
    /\ FeeIncluded(c)
    /\ ReservationAllowed(c)
    /\ \A a \in AppliedNow(c) : a.code \notin used
    /\ status' = [status EXCEPT ![c] = "PENDING"]
    /\ live' = [live EXCEPT ![c] = TRUE]
    /\ UNCHANGED <<stock, items, round, open, applied, used, orders, edits>>

(* Three minutes pass. Nothing else happens: the cart stays pending.       *)
ReservationLapses(c) ==
    /\ live[c]
    /\ live' = [live EXCEPT ![c] = FALSE]
    /\ UNCHANGED <<stock, items, status, round, open, applied, used, orders, edits>>

CancelPayment(c) ==
    /\ status[c] = "PENDING"
    /\ status' = [status EXCEPT ![c] = "ACTIVE"]
    /\ live' = [live EXCEPT ![c] = FALSE]
    /\ UNCHANGED <<stock, items, round, open, applied, used, orders, edits>>

(* The rejection event leaves pending_expires_at as it was, and is ignored *)
(* for a cart that has any order, of this round or an earlier one.         *)
RejectPayment(c) ==
    /\ \A i \in DOMAIN orders : orders[i].cart # c
    /\ status[c] = "PENDING"
    /\ status' = [status EXCEPT ![c] = "ACTIVE"]
    /\ UNCHANGED <<stock, items, round, live, open, applied, used, orders, edits>>

CodeOf(c) ==
    IF AppliedNow(c) = {} THEN NoCode ELSE (CHOOSE a \in AppliedNow(c) : TRUE).code

OrderFrom(c) ==
    [cart |-> c, round |-> round[c], lines |-> items[c], code |-> CodeOf(c)]

(* The mutants below spend no code, or one that is not there; leave the    *)
(* stock as it is; do not check it; confirm a cart that is already ordered.*)
CodesKept(c) == used

CodesSpentAlways(c) == used \cup {CodeOf(c)}

CodesSpent(c) == used \cup ({CodeOf(c)} \ {NoCode})

StockKept(c) == stock

StockTaken(c) == [m \in Menus |-> stock[m] - Need(items[c])[m]]

StockUnchecked(c) == TRUE

StockSuffices(c) == Covers(stock, Need(items[c]))

NotActive(c) == status[c] # "ACTIVE"

AwaitingPayment(c) == status[c] = "PENDING"

(* Staff confirmed the transfer. Neither the end of the usage nor other    *)
(* carts' reservations are looked at.                                      *)
ConfirmPayment(c) ==
    /\ AwaitingPayment(c)
    /\ StockSuffices(c)
    /\ CodeOf(c) \notin used
    /\ used' = CodesSpent(c)
    /\ orders' = Append(orders, OrderFrom(c))
    /\ stock' = StockTaken(c)
    /\ status' = [status EXCEPT ![c] = "ORDERED"]
    /\ live' = [live EXCEPT ![c] = FALSE]
    /\ UNCHANGED <<items, round, open, applied, edits>>

ResetOrderedCart(c) ==
    /\ open[c] /\ status[c] = "ORDERED"
    /\ round[c] < MaxRound
    /\ items' = [items EXCEPT ![c] = Empty]
    /\ round' = [round EXCEPT ![c] = @ + 1]
    /\ status' = [status EXCEPT ![c] = "ACTIVE"]
    /\ live' = [live EXCEPT ![c] = FALSE]
    /\ UNCHANGED <<stock, open, applied, used, orders, edits>>

-----------------------------------------------------------------------------
(* The booth's side.                                                       *)

(* A table reset ends the usages of its tables and leaves their carts.     *)
EndUsages(C) ==
    /\ C # {} /\ \A c \in C : open[c]
    /\ open' = [c \in Carts |-> open[c] /\ c \notin C]
    /\ UNCHANGED <<stock, cartVars, applied, used, orders, edits>>

(* A menu PATCH fetches the row without a lock ...                         *)
EditMenu(m) ==
    /\ \A e \in edits : e.menu # m
    /\ edits' = edits \cup {[menu |-> m, seen |-> stock[m]]}
    /\ UNCHANGED <<stock, cartVars, open, applied, used, orders>>

(* ... and saves every column of it: a stock given in the request, or the  *)
(* stock that was fetched.                                                 *)
SaveMenu(e, n) ==
    /\ n \in StockLevels \cup {e.seen}
    /\ stock' = [stock EXCEPT ![e.menu] = n]
    /\ edits' = edits \ {e}
    /\ UNCHANGED <<cartVars, open, applied, used, orders>>

-----------------------------------------------------------------------------
Next ==
    \/ \E c \in Carts, p \in Products, q \in 1..MaxLine : AddToCart(c, p, q)
    \/ \E c \in Carts, p \in Products, q \in 0..MaxLine : UpdateItem(c, p, q)
    \/ \E c \in Carts, p \in Products : DeleteItem(c, p)
    \/ \E c \in Carts, k \in Codes : ApplyCoupon(c, k)
    \/ \E c \in Carts : CancelCoupon(c)
    \/ \E c \in Carts : EnterPayment(c)
    \/ \E c \in Carts : ReservationLapses(c)
    \/ \E c \in Carts : CancelPayment(c)
    \/ \E c \in Carts : RejectPayment(c)
    \/ \E c \in Carts : ConfirmPayment(c)
    \/ \E c \in Carts : ResetOrderedCart(c)
    \/ \E C \in SUBSET Carts : EndUsages(C)
    \/ \E m \in Menus : EditMenu(m)
    \/ \E e \in edits : \E n \in StockLevels \cup {e.seen} : SaveMenu(e, n)

Spec == Init /\ [][Next]_vars

-----------------------------------------------------------------------------
(* Safety.                                                                 *)

(* No order is accepted for units the booth does not have: whatever the    *)
(* carts, reservations and menu edits do meanwhile, the stock never goes   *)
(* below zero (_validate_menu_stock under the menu locks).                 *)
NeverOversold == \A m \in Menus : stock[m] >= 0

(* A payment is turned into an order once: a repeated or late confirmation *)
(* (REST, or a Redis message) never yields a second order for the same     *)
(* round of a cart, and every finished round has its order.                *)
OneOrderPerRound ==
    /\ \A i, j \in DOMAIN orders :
            orders[i].cart = orders[j].cart /\ orders[i].round = orders[j].round => i = j
    /\ \A c \in Carts, r \in 0..MaxRound :
            (r < round[c] \/ (r = round[c] /\ status[c] = "ORDERED"))
                <=> \E i \in DOMAIN orders : orders[i].cart = c /\ orders[i].round = r

(* A coupon code discounts one order, although several tables may try it.  *)
CouponSpentOnce ==
    \A i, j \in DOMAIN orders :
        orders[i].code = orders[j].code /\ orders[i].code # NoCode => i = j

(* A code a cart has applied to a round it has not paid for is held for it *)
(* alone and is still good, so confirming the payment never fails on the   *)
(* coupon after the customer has transferred the discounted amount.        *)
CouponStillGood ==
    \A a \in applied :
        a.round = round[a.cart] /\ status[a.cart] # "ORDERED" =>
            /\ a.code \notin used
            /\ \A b \in applied : b.code = a.code => b = a

(* The first order of a usage pays the seat fee where the booth charges    *)
(* one, although the cart can be edited between any two requests.          *)
FeePaidFirst ==
    \A i \in DOMAIN orders :
        orders[i].round = 0 /\ SeatType # "NO" => orders[i].lines[Fee] > 0

(* While a payment is pending the cart and its coupon do not change, and   *)
(* the order made from it has the contents the payment was asked for.      *)
FrozenWhilePending ==
    [][\A c \in Carts : status[c] = "PENDING" =>
            /\ items'[c] = items[c] /\ round'[c] = round[c]
            /\ AppliedNow(c)' = AppliedNow(c)
            /\ \A i \in DOMAIN orders' \ DOMAIN orders : orders'[i].cart = c =>
                    orders'[i].lines = items[c] /\ orders'[i].code = CodeOf(c)]_vars

-----------------------------------------------------------------------------
(* Reservations.                                                           *)

(* The stock covers what all the live reservations hold together.          *)
Honoured == \A m \in Menus : Reserved(m, Reserving) <= stock[m]

Lapsed(c) == status[c] = "PENDING" /\ ~live[c]

(* A stock that covers every live reservation stops covering them only     *)
(* when a payment whose own reservation has lapsed is confirmed, or when   *)
(* an administrator saves a menu: no other order, and no payment request,  *)
(* takes units that a pending customer has been promised.                  *)
ReservationErodedOnlyByLapsed ==
    [][Honoured /\ ~Honoured' =>
            \/ edits' # edits
            \/ \E c \in Carts : Lapsed(c) /\ status'[c] = "ORDERED"]_vars

-----------------------------------------------------------------------------
(* The checkout implements the ledger of sales.                            *)
Ledger == INSTANCE SaleLedger WITH shelf <- stock, sales <- orders

(* Seen from the stock and the orders alone, the checkout is a ledger:     *)
(* units leave the stock only with the order that took them, the rounds of *)
(* a cart are sold in order and once, and codes are spent once.            *)
LedgerSpec == Ledger!Spec

=============================================================================
