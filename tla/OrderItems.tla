----------------------------- MODULE OrderItems -----------------------------
(***************************************************************************)
(* The orders of one table usage after they are paid: kitchen and hall     *)
(* staff move items from COOKING to SERVED, Spring reports what the        *)
(* servers do, and staff cancel units and refund them. Each action is a    *)
(* transaction of django/order/services.py, or the part of one that others *)
(* can run between (READ COMMITTED): a status update holds its item's lock *)
(* while it looks at the committed status of the other items; a            *)
(* cancellation reads the order row, unlocked, with its first statement.   *)
(***************************************************************************)
EXTENDS Integers, FiniteSets, Totals

CONSTANTS
    Items, Orders, Menus,
    OrderOf,            \* OrderOf[i]: the order of an item
    Sort,               \* Sort[i]: "MENU", "FEE", "SET", or "PART" of a set
    Parts,              \* Parts[i]: the children of a set, {} otherwise
    MenuOf,             \* MenuOf[i]: the menu of an item that is not a SET
    Bought,             \* Bought[i]: the quantity ordered
    FixedPrice,         \* FixedPrice[i]: the price of one unit
    Paid,               \* Paid[o]: the amount paid for an order
    Staff, Listener     \* the requests in flight, and the Redis listener

Workers == Staff \cup {Listener}
Leaves == {i \in Items : Sort[i] # "SET"}
Tops == {i \in Items : Sort[i] # "PART"}

ASSUME OrderItemsAssumption ==
    /\ Listener \notin Staff
    /\ IsFiniteSet(Items) /\ IsFiniteSet(Orders)
    /\ OrderOf \in [Items -> Orders]
    /\ Sort \in [Items -> {"MENU", "FEE", "SET", "PART"}]
    /\ Parts \in [Items -> SUBSET Items]
    /\ \A i, j \in Items : j \in Parts[i] =>
            Sort[i] = "SET" /\ Sort[j] = "PART" /\ OrderOf[j] = OrderOf[i]
    /\ \A j \in Items : Sort[j] = "PART" => \E i \in Items : j \in Parts[i]
    /\ \A i, k \in Items : i # k => Parts[i] \cap Parts[k] = {}
    /\ MenuOf \in [Leaves -> Menus]
    /\ Bought \in [Items -> Nat \ {0}]
    /\ \A i \in Items : \A j \in Parts[i] : Bought[j] % Bought[i] = 0
    /\ FixedPrice \in [Items -> Nat]
    /\ Paid \in [Orders -> Int]

VARIABLES
    qty,            \* OrderItem.quantity
    stat,           \* OrderItem.status
    servedAt,       \* OrderItem.served_at is set
    orderStatus,    \* Order.order_status
    price,          \* Order.order_price
    accumulated,    \* TableUsage.accumulated_amount
    revenues,       \* Booth.total_revenues, of this usage's orders
    stock,          \* Menu.stock, relative to when the orders were made
    tx              \* what each worker is in the middle of

itemVars == <<qty, stat, servedAt>>
moneyVars == <<price, accumulated, revenues>>
vars == <<itemVars, orderStatus, moneyVars, stock, tx>>

Targets == {"COOKING", "COOKED", "SERVED"}      \* VALID_STATUSES
ItemStatus == Targets \cup {"SERVING", "CANCELLED"}
OrderStatus == {"PAID", "COMPLETED", "CANCELLED"}
Units == UNION {1..Bought[i] : i \in Items}

Idle == [op |-> "idle"]
Cancelling == [op : {"cancel"}, item : Items, n : Units, price : Int]
Updating == [op : {"status"}, item : Leaves, to : ItemStatus, done : BOOLEAN]

TypeOK ==
    /\ qty \in [Items -> Nat] /\ \A i \in Items : qty[i] <= Bought[i]
    /\ stat \in [Items -> ItemStatus]
    /\ servedAt \in [Items -> BOOLEAN]
    /\ orderStatus \in [Orders -> OrderStatus]
    /\ price \in [Orders -> Int]
    /\ accumulated \in Int /\ revenues \in Int
    /\ stock \in [Menus -> Nat]
    /\ tx \in [Workers -> {Idle} \cup Cancelling \cup Updating]

Init ==
    /\ qty = Bought
    /\ stat = [i \in Items |-> "COOKING"]
    /\ servedAt = [i \in Items |-> FALSE]
    /\ orderStatus = [o \in Orders |-> "PAID"]
    /\ price = Paid
    /\ accumulated = Total(Paid) /\ revenues = Total(Paid)
    /\ stock = [m \in Menus |-> 0]
    /\ tx = [w \in Workers |-> Idle]

-----------------------------------------------------------------------------
(* Serving.                                                                *)

(* A status update in flight has locked its item's row.                    *)
Locked(i) == \E w \in Workers : tx[w].op = "status" /\ tx[w].item = i

(* Mutant: an item on its way to the table counts as served.               *)
AllOnTheirWay(o, st) ==
    \A i \in Leaves : OrderOf[i] = o /\ Sort[i] # "FEE" =>
        st[i] \in {"SERVING", "SERVED", "CANCELLED"}

(* Every item of the order that somebody has to serve is served or         *)
(* cancelled, by a status function.                                        *)
AllServed(o, st) ==
    \A i \in Leaves : OrderOf[i] = o /\ Sort[i] # "FEE" =>
        st[i] \in {"SERVED", "CANCELLED"}

(* The verdict of a status update: its own write over what is committed.   *)
Verdict(i, s) == AllServed(OrderOf[i], [stat EXCEPT ![i] = s])

(* update_order_item_status takes the lock, writes and looks at the order. *)
UpdateStatus(w, i, s) ==
    /\ tx[w] = Idle /\ ~Locked(i)
    /\ stat[i] # s
    /\ tx' = [tx EXCEPT ![w] =
                [op |-> "status", item |-> i, to |-> s, done |-> Verdict(i, s)]]
    /\ UNCHANGED <<itemVars, orderStatus, moneyVars, stock>>

(* handle_serving_event for "served": the same, whatever the status was.   *)
HandleServed(i) ==
    /\ tx[Listener] = Idle /\ ~Locked(i)
    /\ tx' = [tx EXCEPT ![Listener] =
                [op |-> "status", item |-> i, to |-> "SERVED",
                 done |-> Verdict(i, "SERVED")]]
    /\ UNCHANGED <<itemVars, orderStatus, moneyVars, stock>>

(* The transaction of either commits.                                      *)
CommitStatus(w) ==
    /\ tx[w].op = "status"
    /\ stat' = [stat EXCEPT ![tx[w].item] = tx[w].to]
    /\ servedAt' = [servedAt EXCEPT ![tx[w].item] = @ \/ tx[w].to = "SERVED"]
    /\ orderStatus' = IF tx[w].done
                      THEN [orderStatus EXCEPT ![OrderOf[tx[w].item]] = "COMPLETED"]
                      ELSE orderStatus
    /\ tx' = [tx EXCEPT ![w] = Idle]
    /\ UNCHANGED <<qty, moneyVars, stock>>

(* handle_serving_event for "serving": whatever the status was.            *)
HandleServing(i) ==
    /\ tx[Listener] = Idle /\ ~Locked(i)
    /\ stat' = [stat EXCEPT ![i] = "SERVING"]
    /\ UNCHANGED <<qty, servedAt, orderStatus, moneyVars, stock, tx>>

(* handle_serving_cancelled: back to COOKED; the order stays as it is.     *)
HandleServingCancelled(i) ==
    /\ tx[Listener] = Idle /\ ~Locked(i)
    /\ stat[i] \in {"SERVING", "SERVED"}
    /\ stat' = [stat EXCEPT ![i] = "COOKED"]
    /\ UNCHANGED <<qty, servedAt, orderStatus, moneyVars, stock, tx>>

-----------------------------------------------------------------------------
(* Cancellation of n units of an item.                                     *)

(* The first statement of _cancel_order_item_atomic joins the order row to *)
(* the item it locks: when it waits for that lock, the item is read again  *)
(* afterwards and the order is not.                                        *)
RequestCancel(w, i, n) ==
    /\ tx[w] = Idle
    /\ tx' = [tx EXCEPT ![w] =
                [op |-> "cancel", item |-> i, n |-> n, price |-> price[OrderOf[i]]]]
    /\ UNCHANGED <<itemVars, orderStatus, moneyVars, stock>>

(* Mutants: the share is taken of the quantity once ordered; the refund is *)
(* for the whole line; the quantity is not compared; the fee is no item.   *)
CutOfBought(i, n, j) ==
    IF j = i THEN n
    ELSE IF j \in Parts[i] THEN (n * qty[j]) \div Bought[i]
    ELSE 0

RefundOfLine(i, n) == FixedPrice[i] * qty[i]

CancellableInAnyNumber(i, n) == stat[i] # "CANCELLED"

AllButFeeCancelled(o, st) ==
    \A j \in Leaves : OrderOf[j] = o /\ Sort[j] # "FEE" => st[j] = "CANCELLED"

(* The units of j that go when n units of i do: the same share of a set's  *)
(* children, rounded down.                                                 *)
Cut(i, n, j) ==
    IF j = i THEN n
    ELSE IF j \in Parts[i] THEN (n * qty[j]) \div qty[i]
    ELSE 0

RefundOf(i, n) == FixedPrice[i] * n

AllCancelled(o, st) ==
    \A j \in Leaves : OrderOf[j] = o => st[j] = "CANCELLED"

Cancellable(i, n) == stat[i] # "CANCELLED" /\ n <= qty[i]

(* The rest of it: under the item's and its children's locks the units go, *)
(* then, under the order's lock, the money, the order and the usage.       *)
CancelOrderItem(w) ==
    /\ tx[w].op = "cancel"
    /\ LET i == tx[w].item
           n == tx[w].n
           o == OrderOf[i]
           refund == RefundOf(i, n)
           touched == {i} \cup Parts[i]
       IN  /\ Cancellable(i, n)
           /\ \A j \in touched : ~Locked(j)
           /\ qty' = [j \in Items |-> qty[j] - Cut(i, n, j)]
           /\ stat' = [j \in Items |->
                        IF j \in touched /\ qty'[j] = 0 THEN "CANCELLED" ELSE stat[j]]
           /\ stock' = [m \in Menus |-> stock[m] +
                            Total([j \in {k \in Leaves : MenuOf[k] = m} |-> Cut(i, n, j)])]
           /\ price' = [price EXCEPT ![o] = tx[w].price - refund]
           /\ accumulated' = accumulated - refund
           /\ revenues' = revenues - refund
           /\ orderStatus' =
                IF AllCancelled(o, stat')
                THEN [orderStatus EXCEPT ![o] = "CANCELLED"] ELSE orderStatus
    /\ tx' = [tx EXCEPT ![w] = Idle]
    /\ UNCHANGED servedAt

(* The item was cancelled, or has too few units, by the time it is locked. *)
RefuseCancel(w) ==
    /\ tx[w].op = "cancel"
    /\ ~Locked(tx[w].item)
    /\ ~Cancellable(tx[w].item, tx[w].n)
    /\ tx' = [tx EXCEPT ![w] = Idle]
    /\ UNCHANGED <<itemVars, orderStatus, moneyVars, stock>>

-----------------------------------------------------------------------------
Next ==
    \/ \E w \in Staff, i \in Leaves, s \in Targets : UpdateStatus(w, i, s)
    \/ \E w \in Workers : CommitStatus(w)
    \/ \E i \in Leaves : HandleServed(i)
    \/ \E i \in Leaves : HandleServing(i)
    \/ \E i \in Leaves : HandleServingCancelled(i)
    \/ \E w \in Staff, i \in Tops : \E n \in 1..Bought[i] : RequestCancel(w, i, n)
    \/ \E w \in Staff : CancelOrderItem(w)
    \/ \E w \in Staff : RefuseCancel(w)

Spec == Init /\ [][Next]_vars

-----------------------------------------------------------------------------
(* Safety.                                                                 *)

(* The money given back for an order's items, as their quantities tell it. *)
Refunded(o) ==
    Total([i \in {k \in Tops : OrderOf[k] = o} |-> FixedPrice[i] * (Bought[i] - qty[i])])

(* However many cancellations overlap, the amount a usage owes and the     *)
(* revenue of the booth go down by the price of the units cancelled, each  *)
(* once (the usage row is locked, the booth's column is decremented in the *)
(* database).                                                              *)
RefundsCountedOnce ==
    LET left == Total(Paid) - Total([o \in Orders |-> Refunded(o)])
    IN  accumulated = left /\ revenues = left

(* Units of a menu in one unit of an item a customer bought.               *)
Content(i, m) ==
    IF Sort[i] = "SET"
    THEN Total([j \in {k \in Parts[i] : MenuOf[k] = m} |-> Bought[j] \div Bought[i]])
    ELSE IF MenuOf[i] = m THEN 1 ELSE 0

(* Cancelled units return to the stock, and sets return what they are made *)
(* of: partial cancellations, rounded down one after the other, neither    *)
(* lose a unit nor make one.                                               *)
UnitsReturned ==
    \A m \in Menus :
        stock[m] = Total([i \in Tops |-> (Bought[i] - qty[i]) * Content(i, m)])

(* An order is CANCELLED once everything in it is, also when two requests  *)
(* cancel its last two items at the same time, and a cancelled order has   *)
(* no unit left that was paid for and not refunded.                        *)
CancelledTogether ==
    \A o \in Orders :
        LET mine == {i \in Leaves : OrderOf[i] = o}
        IN  /\ (mine # {} /\ \A i \in mine : stat[i] = "CANCELLED")
                    => orderStatus[o] = "CANCELLED"
            /\ orderStatus[o] = "CANCELLED" => \A i \in mine : qty[i] = 0

(* A completed order has served every unit it kept, whatever updates,      *)
(* rollbacks and cancellations were under way when it was completed.       *)
CompletedWasServed ==
    \A i \in Leaves :
        orderStatus[OrderOf[i]] = "COMPLETED" /\ Sort[i] # "FEE" =>
            servedAt[i] \/ qty[i] = 0

-----------------------------------------------------------------------------
(* What the docstrings say.                                                *)

(* update_order_item_status: when all items are SERVED, the order becomes  *)
(* COMPLETED. The update to SERVED after which every item of the order     *)
(* that somebody has to serve is SERVED completes it.                      *)
AllServedCompletes ==
    [][\A w \in Workers :
            LET i == tx[w].item
                o == OrderOf[i]
                ToServe == {j \in Leaves : OrderOf[j] = o /\ Sort[j] # "FEE"}
            IN  (/\ tx[w].op = "status" /\ tx[w].to = "SERVED" /\ tx'[w] = Idle
                 /\ i \in ToServe
                 /\ \A j \in ToServe : stat'[j] = "SERVED")
                => orderStatus'[o] = "COMPLETED"]_vars

(* _cancel_order_item_atomic: Order.order_price goes down by the refund.   *)
OrderPriceRefunded == \A o \in Orders : price[o] = Paid[o] - Refunded(o)

=============================================================================
