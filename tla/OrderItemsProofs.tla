-------------------------- MODULE OrderItemsProofs --------------------------
(***************************************************************************)
(* Theorems about the items of an order, for every set of items, orders,   *)
(* quantities and workers: first what the statuses say, then, with the     *)
(* sums of TotalsProofs, where the money and the units go.                 *)
(***************************************************************************)
EXTENDS OrderItems, TotalsProofs

(* Types of what the theorems speak of. A status update never carries      *)
(* CANCELLED, and a cancellation takes at least one unit.                  *)
Typed ==
    /\ qty \in [Items -> Int]
    /\ stat \in [Items -> ItemStatus]
    /\ servedAt \in [Items -> BOOLEAN]
    /\ orderStatus \in [Orders -> OrderStatus]
    /\ price \in [Orders -> Int]
    /\ tx \in [Workers -> {Idle} \cup Cancelling \cup Updating]
    /\ \A w \in Workers : tx[w].op = "status" => tx[w].to # "CANCELLED"

(* What a status says of the row it is in.                                 *)
StatusInv ==
    \A i \in Items : /\ stat[i] = "SERVED" => servedAt[i]
                     /\ stat[i] = "CANCELLED" => qty[i] = 0

(* An item is settled when it was served once or nothing of it is left;    *)
(* settled items stay settled.                                             *)
Settled(i) == servedAt[i] \/ qty[i] = 0

(* The verdict a status update carries to its commit: every item of the    *)
(* order but its own is settled, and its own will be.                      *)
VerdictInv ==
    \A w \in Workers : tx[w].op = "status" /\ tx[w].done =>
        \A j \in Leaves : OrderOf[j] = OrderOf[tx[w].item] /\ Sort[j] # "FEE" =>
            Settled(j) \/ (j = tx[w].item /\ tx[w].to = "SERVED")

IInv ==
    /\ Typed
    /\ StatusInv
    /\ VerdictInv
    /\ CompletedWasServed
    /\ CancelledTogether

(* The three kinds of record a worker can hold are told apart by op.       *)
LEMMA TxCases ==
    ASSUME Typed, NEW w \in Workers
    PROVE  /\ tx[w].op = "status" => tx[w] \in Updating
           /\ tx[w].op = "cancel" => tx[w] \in Cancelling
BY DEF Typed, Idle, Cancelling, Updating

LEMMA UnitsArePositive == Units \subseteq Nat \ {0}
BY OrderItemsAssumption DEF Units

LEMMA IInvInit == Init => IInv
<1> SUFFICES ASSUME Init PROVE IInv
    OBVIOUS
<1>1. Typed
    BY OrderItemsAssumption DEF Init, Typed, ItemStatus, Targets, OrderStatus, Idle
<1>2. StatusInv /\ VerdictInv /\ CompletedWasServed /\ CancelledTogether
    BY OrderItemsAssumption DEF Init, StatusInv, VerdictInv, CompletedWasServed,
       CancelledTogether, Idle, Leaves
<1> QED
    BY <1>1, <1>2 DEF IInv

(* A worker takes on a status update: its verdict counts served items,     *)
(* which have been served, and cancelled ones, of which nothing is left.   *)
LEMMA UpdateTaken ==
    ASSUME IInv, NEW w \in Workers, NEW i \in Leaves, NEW s \in Targets,
           tx' = [tx EXCEPT ![w] = [op |-> "status", item |-> i, to |-> s,
                                    done |-> Verdict(i, s)]],
           UNCHANGED <<itemVars, orderStatus, price>>
    PROVE  IInv'
<1> DEFINE r == [op |-> "status", item |-> i, to |-> s, done |-> Verdict(i, s)]
<1>1. /\ tx'[w] = r /\ \A v \in Workers \ {w} : tx'[v] = tx[v]
      /\ r.op = "status" /\ r.item = i /\ r.to = s /\ r.done = Verdict(i, s)
    BY DEF IInv, Typed
<1>2. Typed'
    <2>1. Verdict(i, s) \in BOOLEAN
        BY DEF Verdict, AllServed
    <2>2. r \in Updating /\ s # "CANCELLED"
        BY <2>1 DEF Updating, Targets, ItemStatus
    <2> QED
        BY <1>1, <2>2 DEF IInv, Typed, itemVars
<1>3. ASSUME Verdict(i, s), NEW j \in Leaves, OrderOf[j] = OrderOf[i], Sort[j] # "FEE"
      PROVE  Settled(j) \/ (j = i /\ s = "SERVED")
    <2>1. [stat EXCEPT ![i] = s][j] \in {"SERVED", "CANCELLED"}
        BY <1>3 DEF Verdict, AllServed
    <2>2. j \in Items /\ i \in Items
        BY DEF Leaves
    <2>3. CASE j = i
        BY <2>1, <2>2, <2>3 DEF IInv, Typed, Targets
    <2>4. CASE j # i
        BY <2>1, <2>2, <2>4 DEF IInv, Typed, StatusInv, Settled
    <2> QED
        BY <2>3, <2>4
<1>4. VerdictInv'
    BY <1>1, <1>3 DEF IInv, VerdictInv, Settled, itemVars
<1> QED
    BY <1>2, <1>4 DEF IInv, StatusInv, CompletedWasServed, CancelledTogether, itemVars

(* A status change that is not a verdict's.                                *)
LEMMA StatusChanged ==
    ASSUME IInv, NEW i \in Leaves, NEW s \in {"SERVING", "COOKED"},
           stat' = [stat EXCEPT ![i] = s],
           UNCHANGED <<qty, servedAt, orderStatus, price, tx>>
    PROVE  IInv'
<1>1. i \in Items /\ s # "CANCELLED" /\ s # "SERVED" /\ s \in ItemStatus
    BY DEF Leaves, ItemStatus, Targets
<1>2. Typed' /\ StatusInv'
    BY <1>1 DEF IInv, Typed, StatusInv
<1>3. VerdictInv' /\ CompletedWasServed'
    BY DEF IInv, VerdictInv, CompletedWasServed, Settled
<1>4. CancelledTogether'
    BY <1>1 DEF IInv, Typed, CancelledTogether, Leaves
<1> QED
    BY <1>2, <1>3, <1>4 DEF IInv

LEMMA StatusCommitted ==
    ASSUME IInv, NEW w \in Workers, CommitStatus(w)
    PROVE  IInv'
<1> DEFINE i == tx[w].item
           s == tx[w].to
           o == OrderOf[tx[w].item]
<1>1. /\ tx[w].op = "status" /\ qty' = qty
      /\ stat' = [stat EXCEPT ![i] = s]
      /\ servedAt' = [servedAt EXCEPT ![i] = @ \/ s = "SERVED"]
      /\ orderStatus' = IF tx[w].done THEN [orderStatus EXCEPT ![o] = "COMPLETED"]
                        ELSE orderStatus
      /\ tx' = [tx EXCEPT ![w] = Idle] /\ price' = price
    BY DEF CommitStatus, moneyVars
<1>2. /\ i \in Leaves /\ i \in Items /\ s \in ItemStatus /\ s # "CANCELLED"
      /\ o \in Orders /\ tx[w].done \in BOOLEAN
    BY <1>1, TxCases, OrderItemsAssumption DEF IInv, Typed, Updating, Leaves
<1>3. /\ stat'[i] = s /\ \A j \in Items \ {i} : stat'[j] = stat[j]
      /\ \A j \in Items : servedAt'[j] <=> servedAt[j] \/ (j = i /\ s = "SERVED")
    BY <1>1, <1>2 DEF IInv, Typed
<1>4. Typed'
    <2>1. tx' \in [Workers -> {Idle} \cup Cancelling \cup Updating]
        BY <1>1 DEF IInv, Typed
    <2>2. \A v \in Workers : tx'[v].op = "status" => tx'[v].to # "CANCELLED"
        BY <1>1 DEF IInv, Typed, Idle
    <2>3. stat' \in [Items -> ItemStatus] /\ servedAt' \in [Items -> BOOLEAN]
        BY <1>1, <1>2 DEF IInv, Typed
    <2>4. orderStatus' \in [Orders -> OrderStatus]
        BY <1>1, <1>2 DEF IInv, Typed, OrderStatus
    <2> QED
        BY <1>1, <2>1, <2>2, <2>3, <2>4 DEF IInv, Typed
<1>5. StatusInv'
    BY <1>1, <1>2, <1>3 DEF IInv, StatusInv
<1>6. VerdictInv'
    BY <1>1, <1>3 DEF IInv, Typed, VerdictInv, Settled, Idle, Leaves
<1>7. CompletedWasServed'
    <2>1. \A j \in Leaves : tx[w].done /\ OrderOf[j] = o /\ Sort[j] # "FEE"
                => Settled(j) \/ (j = i /\ s = "SERVED")
        BY <1>1 DEF IInv, VerdictInv
    <2>2. \A j \in Leaves : j \in Items /\ OrderOf[j] \in Orders
        BY OrderItemsAssumption DEF Leaves
    <2>3. \A j \in Leaves :
                orderStatus'[OrderOf[j]] = "COMPLETED" =>
                    orderStatus[OrderOf[j]] = "COMPLETED" \/ (tx[w].done /\ OrderOf[j] = o)
        BY <1>1, <1>2, <2>2 DEF IInv, Typed
    <2> QED
        BY <1>1, <1>3, <2>1, <2>2, <2>3 DEF IInv, CompletedWasServed, Settled
<1>8. CancelledTogether'
    <2>1. \A q \in Orders : orderStatus'[q] = "CANCELLED" => orderStatus[q] = "CANCELLED"
        BY <1>1, <1>2 DEF IInv, Typed
    <2>2. \A q \in Orders : q # o => orderStatus'[q] = orderStatus[q]
        BY <1>1, <1>2 DEF IInv, Typed
    <2>3. \A j \in Leaves : j \in Items
        BY DEF Leaves
    <2> QED
        BY <1>1, <1>2, <1>3, <2>1, <2>2, <2>3 DEF IInv, CancelledTogether
<1> QED
    BY <1>4, <1>5, <1>6, <1>7, <1>8 DEF IInv

(* Cancelling units of an item takes none of what is not there, and        *)
(* touches only rows of the item's order.                                  *)
LEMMA CutFacts ==
    ASSUME Typed, NEW i \in Items, NEW n \in Nat \ {0}, Cancellable(i, n), NEW j \in Items
    PROVE  /\ Cut(i, n, j) \in Int
           /\ qty[j] = 0 => Cut(i, n, j) = 0
           /\ Cut(i, n, j) # 0 => j \in {i} \cup Parts[i]
<1>1. qty[i] \in Int /\ qty[j] \in Int /\ n <= qty[i]
    BY DEF Typed, Cancellable
<1>2. qty[i] > 0
    BY <1>1
<1>3. n * qty[j] \in Int /\ (qty[j] = 0 => n * qty[j] = 0)
    BY <1>1
<1>4. \A x \in Int : x \div qty[i] \in Int /\ (x = 0 => x \div qty[i] = 0)
    BY <1>1, <1>2
<1>5. (n * qty[j]) \div qty[i] \in Int /\ (qty[j] = 0 => (n * qty[j]) \div qty[i] = 0)
    BY <1>3, <1>4
<1> QED
    BY <1>1, <1>2, <1>5 DEF Cut

LEMMA ItemCancelled ==
    ASSUME IInv, NEW w \in Staff, CancelOrderItem(w)
    PROVE  IInv'
<1> DEFINE i == tx[w].item
           n == tx[w].n
           o == OrderOf[tx[w].item]
           touched == {i} \cup Parts[i]
<1>1. w \in Workers /\ tx[w].op = "cancel"
    BY DEF CancelOrderItem, Workers
<1>2. i \in Items /\ n \in Nat \ {0} /\ o \in Orders
    BY <1>1, TxCases, UnitsArePositive, OrderItemsAssumption DEF IInv, Cancelling
<1>3. /\ Cancellable(i, n)
      /\ qty' = [j \in Items |-> qty[j] - Cut(i, n, j)]
      /\ stat' = [j \in Items |->
                    IF j \in touched /\ qty'[j] = 0 THEN "CANCELLED" ELSE stat[j]]
      /\ orderStatus' = IF AllCancelled(o, stat')
                        THEN [orderStatus EXCEPT ![o] = "CANCELLED"] ELSE orderStatus
      /\ servedAt' = servedAt
      /\ price' = [price EXCEPT ![o] = tx[w].price - RefundOf(i, n)]
      /\ tx' = [tx EXCEPT ![w] = Idle]
    BY DEF CancelOrderItem
<1>4. \A j \in Items : /\ qty'[j] \in Int /\ (qty[j] = 0 => qty'[j] = 0)
                       /\ j \notin touched => qty'[j] = qty[j] /\ stat'[j] = stat[j]
    <2> SUFFICES ASSUME NEW j \in Items
                 PROVE  /\ qty'[j] \in Int /\ (qty[j] = 0 => qty'[j] = 0)
                        /\ j \notin touched => qty'[j] = qty[j] /\ stat'[j] = stat[j]
        OBVIOUS
    <2>1. qty'[j] = qty[j] - Cut(i, n, j) /\ qty[j] \in Int
        BY <1>3 DEF IInv, Typed
    <2>2. /\ Cut(i, n, j) \in Int /\ (qty[j] = 0 => Cut(i, n, j) = 0)
          /\ (Cut(i, n, j) # 0 => j \in touched)
        BY <1>2, <1>3, CutFacts DEF IInv
    <2>3. j \notin touched => stat'[j] = stat[j]
        BY <1>3
    <2> QED
        BY <2>1, <2>2, <2>3
<1>5. \A j \in touched \cap Items : OrderOf[j] = o
    BY <1>2, OrderItemsAssumption
<1>6. \A j \in Items : stat'[j] = "CANCELLED" => qty'[j] = 0
    BY <1>3, <1>4 DEF IInv, StatusInv
<1>7. \A j \in Items : stat'[j] = "SERVED" => stat[j] = "SERVED"
    BY <1>3
<1>8. Typed'
    <2>1. qty' \in [Items -> Int] /\ stat' \in [Items -> ItemStatus]
        BY <1>3, <1>4 DEF IInv, Typed, ItemStatus
    <2>2. orderStatus' \in [Orders -> OrderStatus]
        BY <1>2, <1>3 DEF IInv, Typed, OrderStatus
    <2>3. /\ tx' \in [Workers -> {Idle} \cup Cancelling \cup Updating]
          /\ \A v \in Workers : tx'[v].op = "status" => tx'[v].to # "CANCELLED"
        BY <1>3 DEF IInv, Typed, Idle
    <2>4. price' \in [Orders -> Int]
        <3>1. tx[w].price \in Int
            BY <1>1, TxCases DEF IInv, Cancelling
        <3>2. RefundOf(i, n) \in Int
            BY <1>2, OrderItemsAssumption DEF RefundOf
        <3> QED
            BY <1>2, <1>3, <3>1, <3>2 DEF IInv, Typed
    <2> QED
        BY <1>3, <2>1, <2>2, <2>3, <2>4 DEF IInv, Typed
<1>9. StatusInv'
    BY <1>3, <1>6, <1>7 DEF IInv, StatusInv
<1>10. \A j \in Leaves : j \in Items /\ OrderOf[j] \in Orders /\ (Settled(j) => Settled(j)')
    BY <1>3, <1>4, OrderItemsAssumption DEF Leaves, Settled
<1>11. VerdictInv'
    BY <1>3, <1>10 DEF IInv, Typed, VerdictInv, Idle
<1>12. CompletedWasServed'
    <2>1. \A q \in Orders : orderStatus'[q] = "COMPLETED" => orderStatus[q] = "COMPLETED"
        BY <1>2, <1>3 DEF IInv, Typed
    <2> QED
        BY <2>1, <1>10 DEF IInv, CompletedWasServed, Settled
<1>13. CancelledTogether'
    <2> SUFFICES ASSUME NEW q \in Orders
                 PROVE  LET mine == {j \in Leaves : OrderOf[j] = q}
                        IN  /\ (mine # {} /\ \A j \in mine : stat'[j] = "CANCELLED")
                                    => orderStatus'[q] = "CANCELLED"
                            /\ orderStatus'[q] = "CANCELLED" => \A j \in mine : qty'[j] = 0
        BY DEF CancelledTogether
    <2>1. CASE q # o
        <3>1. \A j \in Leaves : OrderOf[j] = q => stat'[j] = stat[j] /\ qty'[j] = qty[j]
            BY <2>1, <1>4, <1>5, <1>10
        <3>2. orderStatus'[q] = orderStatus[q]
            BY <2>1, <1>2, <1>3 DEF IInv, Typed
        <3> QED
            BY <3>1, <3>2 DEF IInv, CancelledTogether
    <2>2. CASE q = o /\ AllCancelled(o, stat')
        <3>1. orderStatus'[q] = "CANCELLED"
            BY <2>2, <1>2, <1>3 DEF IInv, Typed
        <3>2. \A j \in Leaves : OrderOf[j] = q => qty'[j] = 0
            BY <2>2, <1>6, <1>10 DEF AllCancelled
        <3> QED
            BY <3>1, <3>2
    <2>3. CASE q = o /\ ~AllCancelled(o, stat')
        <3>1. orderStatus'[q] = orderStatus[q]
            BY <2>3, <1>3
        <3>2. orderStatus[q] = "CANCELLED" => \A j \in Leaves : OrderOf[j] = q => qty'[j] = 0
            BY <1>4, <1>10 DEF IInv, CancelledTogether
        <3> QED
            BY <2>3, <3>1, <3>2 DEF AllCancelled
    <2> QED
        BY <2>1, <2>2, <2>3
<1> QED
    BY <1>8, <1>9, <1>11, <1>12, <1>13 DEF IInv

LEMMA IInvNext == IInv /\ [Next]_vars => IInv'
<1> SUFFICES ASSUME IInv, [Next]_vars PROVE IInv'
    OBVIOUS
<1>1. ASSUME NEW w \in Staff, NEW i \in Leaves, NEW s \in Targets, UpdateStatus(w, i, s)
      PROVE  IInv'
    BY <1>1, UpdateTaken DEF UpdateStatus, Workers, moneyVars
<1>2. ASSUME NEW w \in Workers, CommitStatus(w)
      PROVE  IInv'
    BY <1>2, StatusCommitted
<1>3. ASSUME NEW i \in Leaves, HandleServed(i)
      PROVE  IInv'
    BY <1>3, UpdateTaken DEF HandleServed, Workers, Targets, moneyVars
<1>4. ASSUME NEW i \in Leaves, HandleServing(i) \/ HandleServingCancelled(i)
      PROVE  IInv'
    BY <1>4, StatusChanged DEF HandleServing, HandleServingCancelled, moneyVars
<1>5. ASSUME NEW w \in Staff, NEW i \in Tops, NEW n \in 1..Bought[i], RequestCancel(w, i, n)
      PROVE  IInv'
    <2> DEFINE r == [op |-> "cancel", item |-> i, n |-> n, price |-> price[OrderOf[i]]]
    <2>1. tx' = [tx EXCEPT ![w] = r] /\ UNCHANGED <<itemVars, orderStatus, price>>
        BY <1>5 DEF RequestCancel, moneyVars
    <2>2. i \in Items /\ price[OrderOf[i]] \in Int /\ n \in Units
        BY OrderItemsAssumption DEF Tops, Units, IInv, Typed
    <2>3. r \in Cancelling /\ r.op = "cancel" /\ w \in Workers
        BY <2>2 DEF Cancelling, Workers
    <2>4. tx'[w].op = "cancel" /\ \A v \in Workers \ {w} : tx'[v] = tx[v]
        BY <2>1, <2>3 DEF IInv, Typed
    <2>5. Typed'
        BY <2>1, <2>3, <2>4 DEF IInv, Typed, itemVars
    <2>6. VerdictInv'
        BY <2>1, <2>4 DEF IInv, VerdictInv, Settled, itemVars
    <2> QED
        BY <2>1, <2>5, <2>6 DEF IInv, StatusInv, CompletedWasServed, CancelledTogether,
           itemVars
<1>6. ASSUME NEW w \in Staff, CancelOrderItem(w)
      PROVE  IInv'
    BY <1>6, ItemCancelled
<1>7. ASSUME NEW w \in Staff, RefuseCancel(w)
      PROVE  IInv'
    <2>1. tx' = [tx EXCEPT ![w] = Idle] /\ UNCHANGED <<itemVars, orderStatus, price>>
        BY <1>7 DEF RefuseCancel, moneyVars
    <2> QED
        BY <2>1, ZenonT(60) DEF IInv, Typed, Idle, StatusInv, VerdictInv, Settled, CompletedWasServed,
           CancelledTogether, itemVars
<1>8. CASE UNCHANGED vars
    BY <1>8 DEF vars, itemVars, moneyVars, IInv, Typed, StatusInv, VerdictInv, Settled,
       CompletedWasServed, CancelledTogether
<1> QED
    BY <1>1, <1>2, <1>3, <1>4, <1>5, <1>6, <1>7, <1>8 DEF Next

LEMMA IInvAlways == Spec => []IInv
BY IInvInit, IInvNext, PTL DEF Spec

(* No order is completed while a unit the customer kept was never served.  *)
THEOREM CompletedOrdersWereServed == Spec => []CompletedWasServed
BY IInvAlways, PTL DEF IInv

(* An order is cancelled when, and only when, nothing of it is left.       *)
THEOREM OrdersCancelledTogether == Spec => []CancelledTogether
BY IInvAlways, PTL DEF IInv

-----------------------------------------------------------------------------

-----------------------------------------------------------------------------
(* Money and stock.                                                        *)

(* How many units of a part one unit of its set has.                       *)
Share(i, j) == Bought[j] \div Bought[i]

(* However many units of a set are left, its parts are left in proportion, *)
(* so that the division in Cut never rounds.                               *)
InProportion ==
    \A i \in Items : \A j \in Parts[i] : qty[j] = qty[i] * Share(i, j)

Counted ==
    /\ \A i \in Items : qty[i] \in 0..Bought[i]
    /\ stock \in [Menus -> Nat]
    /\ accumulated \in Int /\ revenues \in Int
    /\ \A w \in Workers : tx[w].op = "cancel" => tx[w].item \in Tops

(* A part never has parts, and belongs to one set.                         *)
LEMMA PartsApart ==
    ASSUME NEW i \in Items, NEW j \in Parts[i]
    PROVE  /\ j \in Items \ Tops /\ i \in Tops \ Leaves /\ j \in Leaves
           /\ \A k \in Items \ {i} : j \notin Parts[k]
           /\ Share(i, j) \in Nat
<1>1. /\ j \in Items /\ Sort[i] = "SET" /\ Sort[j] = "PART"
      /\ Bought[i] \in Nat \ {0} /\ Bought[j] \in Nat \ {0}
    BY OrderItemsAssumption
<1>2. \A x \in Nat, y \in Nat \ {0} : x \div y \in Nat
    OBVIOUS
<1>3. Share(i, j) \in Nat
    BY <1>1, <1>2 DEF Share
<1>4. \A k \in Items \ {i} : j \notin Parts[k]
    BY OrderItemsAssumption
<1> QED
    BY <1>1, <1>3, <1>4 DEF Tops, Leaves

LEMMA ExactDivision == \A x \in Nat, y \in Nat \ {0} : (y * x) \div y = x
OBVIOUS

(* What a cancellation takes, when the parts are in proportion.            *)
LEMMA CutExact ==
    ASSUME Typed, InProportion, Counted, NEW i \in Tops, NEW n \in Nat \ {0},
           Cancellable(i, n), NEW j \in Items
    PROVE  /\ Cut(i, n, j) = IF j = i THEN n
                             ELSE IF j \in Parts[i] THEN n * Share(i, j) ELSE 0
           /\ Cut(i, n, j) \in 0..qty[j]
<1>1. i \in Items /\ qty[i] \in Nat \ {0} /\ qty[j] \in Nat /\ n <= qty[i]
    BY OrderItemsAssumption DEF Cancellable, Counted, Tops
<1>2. CASE j = i
    BY <1>1, <1>2 DEF Cut
<1>3. CASE j # i /\ j \in Parts[i]
    <2> DEFINE c == Share(i, j)
               q == qty[i]
    <2>1. c \in Nat /\ qty[j] = q * c
        BY <1>1, <1>3, PartsApart DEF InProportion
    <2>2. n * (q * c) = q * (n * c) /\ n * c \in Nat /\ n * c <= q * c
        BY <1>1, <2>1
    <2>3. (q * (n * c)) \div q = n * c
        BY <1>1, <2>2, ExactDivision
    <2>4. Cut(i, n, j) = (n * qty[j]) \div q
        BY <1>3 DEF Cut
    <2>5. Cut(i, n, j) = n * c
        BY <2>1, <2>2, <2>3, <2>4
    <2> QED
        BY <1>1, <1>3, <2>1, <2>2, <2>5
<1>4. CASE j # i /\ j \notin Parts[i]
    BY <1>1, <1>4 DEF Cut
<1> QED
    BY <1>2, <1>3, <1>4

MInv ==
    /\ IInv
    /\ InProportion
    /\ Counted
    /\ RefundsCountedOnce
    /\ UnitsReturned

(* What was given back for an item, and the units it gave back.            *)
LEMMA LinesTyped ==
    ASSUME Counted
    PROVE  /\ \A i \in Items : /\ Bought[i] - qty[i] \in Nat
                               /\ FixedPrice[i] * (Bought[i] - qty[i]) \in Int
           /\ Tops \subseteq Items /\ IsFiniteSet(Tops)
           /\ \A o \in Orders : IsFiniteSet({i \in Tops : OrderOf[i] = o})
<1>1. \A i \in Items : /\ Bought[i] - qty[i] \in Nat
                       /\ FixedPrice[i] * (Bought[i] - qty[i]) \in Int
    <2> SUFFICES ASSUME NEW i \in Items
                 PROVE  /\ Bought[i] - qty[i] \in Nat
                        /\ FixedPrice[i] * (Bought[i] - qty[i]) \in Int
        OBVIOUS
    <2>1. Bought[i] \in Nat /\ qty[i] \in 0..Bought[i] /\ FixedPrice[i] \in Nat
        BY OrderItemsAssumption DEF Counted
    <2> QED
        BY <2>1
<1>2. Tops \subseteq Items /\ \A o \in Orders : {i \in Tops : OrderOf[i] = o} \subseteq Items
    BY DEF Tops
<1> QED
    BY <1>1, <1>2, FS_Subset, OrderItemsAssumption

LEMMA RefundedTyped ==
    ASSUME Counted, NEW o \in Orders
    PROVE  Refunded(o) \in Int
<1> DEFINE S == {k \in Tops : OrderOf[k] = o}
           f == [i \in S |-> FixedPrice[i] * (Bought[i] - qty[i])]
<1>1. IsFiniteSet(S) /\ f \in [S -> Int]
    BY LinesTyped
<1>2. Total(f) \in Int
    <2> HIDE DEF f, S
    <2> QED
        BY <1>1, TotalType
<1> QED
    BY <1>2 DEF Refunded

LEMMA ContentTyped == \A i \in Items : \A m \in Menus : Content(i, m) \in Nat
<1> SUFFICES ASSUME NEW i \in Items, NEW m \in Menus PROVE Content(i, m) \in Nat
    OBVIOUS
<1> DEFINE S == {k \in Parts[i] : MenuOf[k] = m}
           f == [j \in S |-> Bought[j] \div Bought[i]]
<1>1. f \in [S -> Nat]
    BY PartsApart DEF Share
<1>2. IsFiniteSet(S)
    <2>1. S \subseteq Items
        BY OrderItemsAssumption
    <2> QED
        BY <2>1, FS_Subset, OrderItemsAssumption
<1>3. Total(f) \in Nat
    <2> HIDE DEF f, S
    <2> QED
        BY <1>1, <1>2, TotalNat
<1> QED
    BY <1>3 DEF Content

(* The units a cancellation of n units of an item puts back on a shelf.    *)
LEMMA CutReturns ==
    ASSUME Typed, InProportion, Counted, NEW i \in Tops, NEW n \in Nat \ {0},
           Cancellable(i, n), NEW m \in Menus
    PROVE  Total([j \in {k \in Leaves : MenuOf[k] = m} |-> Cut(i, n, j)]) = n * Content(i, m)
<1> DEFINE S == {k \in Leaves : MenuOf[k] = m}
           f == [j \in S |-> Cut(i, n, j)]
<1>1. i \in Items /\ S \subseteq Items /\ IsFiniteSet(S)
    <2>1. i \in Items /\ S \subseteq Items
        BY DEF Tops, Leaves
    <2> QED
        BY <2>1, FS_Subset, OrderItemsAssumption
<1>2. \A j \in S : /\ f[j] \in Int
                   /\ f[j] = IF j = i THEN n
                             ELSE IF j \in Parts[i] THEN n * Share(i, j) ELSE 0
    <2> SUFFICES ASSUME NEW j \in S
                 PROVE  /\ Cut(i, n, j) \in Int
                        /\ Cut(i, n, j) = IF j = i THEN n
                                          ELSE IF j \in Parts[i] THEN n * Share(i, j) ELSE 0
        OBVIOUS
    <2>1. j \in Items /\ qty[j] \in Int
        BY <1>1 DEF Typed
    <2> HIDE DEF S
    <2> QED
        BY <2>1, CutExact
<1>3. f \in [S -> Int]
    BY <1>2
<1>4. CASE Sort[i] = "SET"
    <2> DEFINE R == {k \in Parts[i] : MenuOf[k] = m}
               g == [j \in R |-> Bought[j] \div Bought[i]]
               h == [j \in R |-> f[j]]
               z == [j \in R |-> 0]
    <2>1. R \subseteq S /\ IsFiniteSet(R) /\ i \notin S
        <3>1. R \subseteq S
            BY <1>1, PartsApart
        <3> QED
            BY <1>1, <1>4, <3>1, FS_Subset DEF Leaves
    <2>2. \A j \in S \ R : f[j] = 0
        BY <1>2, <2>1
    <2>3. Total(f) = Total(h)
        <3> HIDE DEF f, S, R
        <3> QED
            BY <1>1, <1>3, <2>1, <2>2, TotalRest
    <2>4. \A j \in R : g[j] \in Nat /\ h[j] = n * g[j] /\ h[j] \in Int
        BY <1>1, <1>2, <2>1, PartsApart DEF Share
    <2>5. /\ g = [j \in R |-> g[j]] /\ h = [j \in R |-> h[j]] /\ z = [j \in R |-> z[j]]
          /\ \A j \in R : z[j] = 0
        OBVIOUS
    <2>6. /\ g \in [R -> Int] /\ h \in [R -> Int] /\ z \in [R -> Int]
          /\ \A j \in R : h[j] = z[j] + n * g[j]
        <3> HIDE DEF g, h, z, f, R
        <3>1. \A j \in R : g[j] \in Int /\ h[j] \in Int /\ z[j] \in Int
            BY <2>4, <2>5
        <3>2. g \in [R -> Int] /\ h \in [R -> Int] /\ z \in [R -> Int]
            BY <2>5, <3>1
        <3>3. \A j \in R : h[j] = z[j] + n * g[j]
            BY <2>4, <2>5, <3>1
        <3> QED
            BY <3>2, <3>3
    <2>7. Total(z) = 0
        BY <2>1, TotalZero
    <2>8. Total(h) = Total(z) + n * Total(g) /\ Total(g) \in Int
        <3> HIDE DEF h, z, g, R
        <3> QED
            BY <2>1, <2>6, TotalLinear, TotalType
    <2>9. Content(i, m) = Total(g)
        BY <1>4 DEF Content
    <2> QED
        BY <2>3, <2>7, <2>8, <2>9
<1>5. CASE Sort[i] # "SET"
    <2>1. i \in Leaves /\ Parts[i] = {}
        BY <1>1, <1>5, OrderItemsAssumption DEF Leaves
    <2>2. \A j \in S : j # i => f[j] = 0
        BY <1>2, <2>1
    <2>3. CASE MenuOf[i] = m
        <3>1. i \in S /\ \A j \in S \ {i} : f[j] = 0
            BY <2>1, <2>2, <2>3
        <3>2. Total(f) = f[i]
            <4> HIDE DEF f, S
            <4> QED
                BY <1>1, <1>3, <3>1, TotalOfOne
        <3> QED
            BY <1>2, <1>5, <2>3, <3>1, <3>2 DEF Content
    <2>4. CASE MenuOf[i] # m
        <3>1. i \notin S /\ \A j \in S : f[j] = 0
            BY <2>2, <2>4
        <3>2. Total(f) = 0
            BY <1>1, <3>1, TotalZero
        <3> QED
            BY <1>5, <2>4, <3>2 DEF Content
    <2> QED
        BY <2>3, <2>4
<1> QED
    BY <1>4, <1>5

-----------------------------------------------------------------------------

(* A sum over a menu's rows, or an order's, when one line changes.         *)
LEMMA RefundedChanges ==
    ASSUME Counted, Counted', NEW i \in Tops, NEW n \in Nat,
           qty'[i] = qty[i] - n, \A k \in Tops \ {i} : qty'[k] = qty[k]
    PROVE  Total([o \in Orders |-> Refunded(o)])'
                = Total([o \in Orders |-> Refunded(o)]) + RefundOf(i, n)
<1> DEFINE o == OrderOf[i]
           S(q) == {k \in Tops : OrderOf[k] = q}
           line(k) == FixedPrice[k] * (Bought[k] - qty[k])
           after(k) == FixedPrice[k] * (Bought[k] - qty'[k])
           old(q) == [k \in S(q) |-> line(k)]
           new(q) == [k \in S(q) |-> after(k)]
           before == [q \in Orders |-> Refunded(q)]
           now == [q \in Orders |-> Refunded(q)']
<1>1. /\ i \in Items /\ o \in Orders /\ i \in S(o)
      /\ FixedPrice[i] \in Nat /\ qty[i] \in Int /\ Bought[i] \in Nat
    BY OrderItemsAssumption DEF Tops, Counted
<1>2. \A q \in Orders : /\ IsFiniteSet(S(q))
                        /\ old(q) \in [S(q) -> Int] /\ new(q) \in [S(q) -> Int]
    <2>1. \A k \in Tops : line(k) \in Int
        BY LinesTyped
    <2>2. \A k \in Tops : after(k) \in Int
        <3> SUFFICES ASSUME NEW k \in Tops PROVE after(k) \in Int
            OBVIOUS
        <3>1. qty'[k] \in Int /\ Bought[k] \in Int /\ FixedPrice[k] \in Int
            BY OrderItemsAssumption DEF Counted, Tops
        <3> QED
            BY <3>1
    <2>3. \A q \in Orders : IsFiniteSet(S(q))
        BY LinesTyped
    <2> QED
        BY <2>1, <2>2, <2>3
<1>3. \A q \in Orders : Refunded(q) = Total(old(q)) /\ Refunded(q)' = Total(new(q))
    BY DEF Refunded
<1>4. ASSUME NEW q \in Orders \ {o} PROVE Refunded(q)' = Refunded(q)
    <2>1. old(q) = new(q)
        BY <1>4
    <2> QED
        BY <1>3, <2>1
<1>5. Refunded(o)' = Refunded(o) + RefundOf(i, n)
    <2>1. \A k \in S(o) \ {i} : new(o)[k] = old(o)[k]
        OBVIOUS
    <2>2. Total(new(o)) = Total(old(o)) + (new(o)[i] - old(o)[i])
        <3>1. /\ IsFiniteSet(S(o)) /\ old(o) \in [S(o) -> Int]
              /\ new(o) \in [S(o) -> Int] /\ i \in S(o)
            BY <1>1, <1>2
        <3> HIDE DEF old, new, S
        <3> QED
            BY <2>1, <3>1, TotalChange
    <2>3. new(o)[i] - old(o)[i] = RefundOf(i, n)
        <3>1. new(o)[i] = after(i) /\ old(o)[i] = line(i)
            BY <1>1
        <3>2. after(i) - line(i) = FixedPrice[i] * n
            <4>1. \A p, b, r \in Int : p * (b - (r - n)) - p * (b - r) = p * n
                OBVIOUS
            <4> QED
                BY <1>1, <4>1
        <3> QED
            BY <3>1, <3>2 DEF RefundOf
    <2> QED
        BY <1>1, <1>3, <2>2, <2>3
<1>6. now \in [Orders -> Int] /\ before \in [Orders -> Int]
    <2>1. \A q \in Orders : Refunded(q) \in Int
        BY RefundedTyped
    <2>2. \A q \in Orders : Refunded(q)' \in Int
        <3>1. \A q \in Orders : Total(new(q)) \in Int
            <4> SUFFICES ASSUME NEW q \in Orders PROVE Total(new(q)) \in Int
                OBVIOUS
            <4>1. IsFiniteSet(S(q)) /\ new(q) \in [S(q) -> Int]
                BY <1>2
            <4> HIDE DEF new, S
            <4> QED
                BY <4>1, TotalType
        <3> QED
            BY <1>3, <3>1
    <2> QED
        BY <2>1, <2>2
<1>7. Total(now) = Total(before) + (now[o] - before[o])
    <2>1. \A q \in Orders \ {o} : now[q] = before[q]
        BY <1>4
    <2> HIDE DEF now, before, o
    <2> QED
        BY <1>1, <1>6, <2>1, TotalChange, OrderItemsAssumption
<1>8. now[o] - before[o] = RefundOf(i, n)
    <2>1. Refunded(o) \in Int /\ RefundOf(i, n) \in Int
        BY <1>1, RefundedTyped DEF RefundOf
    <2> QED
        BY <1>1, <1>5, <2>1
<1> QED
    BY <1>7, <1>8

LEMMA UnitsChange ==
    ASSUME Counted, Counted', NEW i \in Tops, NEW n \in Nat, NEW m \in Menus,
           qty'[i] = qty[i] - n, \A k \in Tops \ {i} : qty'[k] = qty[k]
    PROVE  /\ Total([k \in Tops |-> (Bought[k] - qty[k]) * Content(k, m)]) \in Int
           /\ Total([k \in Tops |-> (Bought[k] - qty[k]) * Content(k, m)])'
                = Total([k \in Tops |-> (Bought[k] - qty[k]) * Content(k, m)])
                    + n * Content(i, m)
<1> DEFINE old == [k \in Tops |-> (Bought[k] - qty[k]) * Content(k, m)]
           new == [k \in Tops |-> (Bought[k] - qty'[k]) * Content(k, m)]
<1>1. \A k \in Tops : /\ Bought[k] \in Int /\ qty[k] \in Int /\ qty'[k] \in Int
                      /\ Content(k, m) \in Int
    BY ContentTyped, OrderItemsAssumption DEF Counted, Tops
<1>2. old \in [Tops -> Int] /\ new \in [Tops -> Int] /\ IsFiniteSet(Tops)
    <2>1. \A b, r, c \in Int : (b - r) * c \in Int
        OBVIOUS
    <2> QED
        BY <1>1, <2>1, LinesTyped
<1>3. \A k \in Tops \ {i} : new[k] = old[k]
    OBVIOUS
<1>4. Total(new) = Total(old) + (new[i] - old[i]) /\ Total(old) \in Int
    <2> HIDE DEF old, new
    <2> QED
        BY <1>2, <1>3, TotalChange, TotalType
<1>5. new[i] - old[i] = n * Content(i, m)
    <2>1. \A b, r, c \in Int : (b - (r - n)) * c - (b - r) * c = n * c
        OBVIOUS
    <2> QED
        BY <1>1, <2>1
<1>6. Total([k \in Tops |-> (Bought[k] - qty[k]) * Content(k, m)])' = Total(new)
    BY DEF Content
<1> QED
    BY <1>4, <1>5, <1>6

-----------------------------------------------------------------------------

LEMMA MInvInit == Init => MInv
<1> SUFFICES ASSUME Init PROVE MInv
    OBVIOUS
<1>1. IInv
    BY IInvInit
<1>2. qty = Bought /\ \A i \in Items : Bought[i] \in Nat \ {0} /\ FixedPrice[i] \in Nat
    BY OrderItemsAssumption DEF Init
<1>3. Total(Paid) \in Int
    BY TotalType, OrderItemsAssumption
<1>4. Counted
    BY <1>2, <1>3 DEF Init, Counted, Idle
<1>5. InProportion
    <2> SUFFICES ASSUME NEW i \in Items, NEW j \in Parts[i]
                 PROVE  Bought[j] = Bought[i] * Share(i, j)
        BY <1>2 DEF InProportion
    <2>1. j \in Items /\ Bought[j] \in Nat /\ Bought[i] \in Nat \ {0} /\ Bought[j] % Bought[i] = 0
        BY <1>2, OrderItemsAssumption
    <2>2. \A x \in Nat, y \in Nat \ {0} : x % y = 0 => x = y * (x \div y)
        OBVIOUS
    <2> QED
        BY <2>1, <2>2 DEF Share
<1>6. \A o \in Orders : Refunded(o) = 0
    <2> SUFFICES ASSUME NEW o \in Orders PROVE Refunded(o) = 0
        OBVIOUS
    <2> DEFINE S == {k \in Tops : OrderOf[k] = o}
               f == [i \in S |-> FixedPrice[i] * (Bought[i] - qty[i])]
    <2>1. \A i \in S : f[i] = 0
        BY <1>2 DEF Tops
    <2>2. Total(f) = 0
        BY <1>4, <2>1, LinesTyped, TotalZero
    <2> QED
        BY <2>2 DEF Refunded
<1>7. Total([o \in Orders |-> Refunded(o)]) = 0
    BY <1>6, TotalZero, OrderItemsAssumption
<1>8. RefundsCountedOnce
    BY <1>3, <1>7 DEF Init, RefundsCountedOnce
<1>9. UnitsReturned
    <2> SUFFICES ASSUME NEW m \in Menus
                 PROVE  stock[m] = Total([i \in Tops |-> (Bought[i] - qty[i]) * Content(i, m)])
        BY DEF UnitsReturned
    <2> DEFINE f == [i \in Tops |-> (Bought[i] - qty[i]) * Content(i, m)]
    <2>1. \A i \in Tops : f[i] = 0
        <3> SUFFICES ASSUME NEW i \in Tops PROVE (Bought[i] - qty[i]) * Content(i, m) = 0
            OBVIOUS
        <3>1. Content(i, m) \in Nat /\ Bought[i] - qty[i] = 0
            BY <1>2, ContentTyped DEF Tops
        <3> QED
            BY <3>1
    <2>2. Total(f) = 0
        BY <1>4, <2>1, LinesTyped, TotalZero
    <2> QED
        BY <2>2 DEF Init
<1> QED
    BY <1>1, <1>4, <1>5, <1>8, <1>9 DEF MInv

LEMMA MoneyCancelled ==
    ASSUME MInv, NEW w \in Staff, CancelOrderItem(w)
    PROVE  InProportion' /\ Counted' /\ RefundsCountedOnce' /\ UnitsReturned'
<1> DEFINE i == tx[w].item
           n == tx[w].n
           refund == RefundOf(tx[w].item, tx[w].n)
<1>1. w \in Workers /\ tx[w].op = "cancel"
    BY DEF CancelOrderItem, Workers
<1>2. i \in Items /\ i \in Tops /\ n \in Nat \ {0}
    BY <1>1, TxCases, UnitsArePositive DEF MInv, IInv, Cancelling, Counted
<1>3. /\ Cancellable(i, n)
      /\ qty' = [j \in Items |-> qty[j] - Cut(i, n, j)]
      /\ stock' = [m \in Menus |-> stock[m] +
                        Total([j \in {k \in Leaves : MenuOf[k] = m} |-> Cut(i, n, j)])]
      /\ accumulated' = accumulated - refund
      /\ revenues' = revenues - refund
      /\ tx' = [tx EXCEPT ![w] = Idle]
    BY DEF CancelOrderItem
<1>4. \A j \in Items : /\ Cut(i, n, j) = IF j = i THEN n
                                          ELSE IF j \in Parts[i] THEN n * Share(i, j) ELSE 0
                       /\ Cut(i, n, j) \in 0..qty[j]
                       /\ qty[j] \in 0..Bought[j] /\ Bought[j] \in Nat
    <2>1. Typed /\ InProportion /\ Counted /\ i \in Tops
        BY <1>2 DEF MInv, IInv
    <2>2. ASSUME NEW j \in Items
          PROVE  /\ Cut(i, n, j) = IF j = i THEN n
                                   ELSE IF j \in Parts[i] THEN n * Share(i, j) ELSE 0
                 /\ Cut(i, n, j) \in 0..qty[j]
        BY <1>2, <1>3, <2>1, CutExact
    <2>3. \A j \in Items : qty[j] \in 0..Bought[j] /\ Bought[j] \in Nat
        BY <2>1, OrderItemsAssumption DEF Counted
    <2> QED
        BY <2>2, <2>3
<1>5. \A j \in Items : qty'[j] = qty[j] - Cut(i, n, j) /\ qty'[j] \in 0..Bought[j]
    <2> SUFFICES ASSUME NEW j \in Items
                 PROVE  qty'[j] = qty[j] - Cut(i, n, j) /\ qty'[j] \in 0..Bought[j]
        OBVIOUS
    <2>1. qty'[j] = qty[j] - Cut(i, n, j)
        BY <1>3
    <2>2. Cut(i, n, j) \in 0..qty[j] /\ qty[j] \in 0..Bought[j] /\ Bought[j] \in Nat
        BY <1>4
    <2> QED
        BY <2>1, <2>2
<1>6. Parts[i] \cap Tops = {}
    BY <1>2, PartsApart
<1>7. qty'[i] = qty[i] - n /\ \A k \in Tops \ {i} : qty'[k] = qty[k]
    <2>1. \A k \in Tops \ {i} : k \in Items /\ Cut(i, n, k) = 0
        BY <1>4, <1>6 DEF Tops
    <2> QED
        BY <1>2, <1>4, <1>5, <2>1
<1>8. InProportion'
    <2> SUFFICES ASSUME NEW k \in Items, NEW j \in Parts[k]
                 PROVE  qty'[j] = qty'[k] * Share(k, j)
        BY DEF InProportion, Share
    <2>1. /\ j \in Items \ Tops /\ k \in Tops /\ Share(k, j) \in Nat
          /\ qty[j] = qty[k] * Share(k, j) /\ qty[k] \in Int
        BY <1>4, PartsApart DEF MInv, InProportion
    <2>2. CASE k = i
        <3>1. qty'[j] = qty[j] - n * Share(k, j) /\ qty'[k] = qty[k] - n
            BY <1>2, <1>4, <1>5, <2>1, <2>2
        <3>2. \A q, c \in Int : q * c - n * c = (q - n) * c
            BY <1>2
        <3> QED
            BY <2>1, <3>1, <3>2
    <2>3. CASE k # i
        <3>1. j # i /\ j \notin Parts[i]
            BY <1>2, <2>1, <2>3, PartsApart
        <3>2. qty'[j] = qty[j] /\ qty'[k] = qty[k]
            BY <1>4, <1>5, <1>7, <2>1, <2>3, <3>1
        <3> QED
            BY <2>1, <3>2
    <2> QED
        BY <2>2, <2>3
<1>9. \A m \in Menus : stock'[m] = stock[m] + n * Content(i, m)
    BY <1>2, <1>3, CutReturns DEF MInv, IInv
<1>10. Counted'
    <2>1. refund \in Int
        BY <1>2, OrderItemsAssumption DEF RefundOf
    <2>2. \A m \in Menus : stock'[m] \in Nat
        <3>1. \A m \in Menus : stock[m] \in Nat /\ Content(i, m) \in Nat
            BY <1>2, ContentTyped DEF MInv, Counted
        <3>2. \A x, c \in Nat : x + n * c \in Nat
            BY <1>2
        <3> QED
            BY <1>9, <3>1, <3>2
    <2>3. stock' \in [Menus -> Nat]
        BY <1>3, <2>2
    <2>4. \A v \in Workers : tx'[v].op = "cancel" => tx'[v].item \in Tops
        BY <1>3 DEF MInv, IInv, Typed, Counted, Idle
    <2> QED
        BY <1>3, <1>5, <2>1, <2>3, <2>4 DEF MInv, Counted
<1>11. RefundsCountedOnce'
    <2>1. Total([o \in Orders |-> Refunded(o)])'
                = Total([o \in Orders |-> Refunded(o)]) + refund
        BY <1>2, <1>7, <1>10, RefundedChanges DEF MInv
    <2>2. /\ Total(Paid) \in Int /\ refund \in Int
          /\ Total([o \in Orders |-> Refunded(o)]) \in Int
        <3>1. [o \in Orders |-> Refunded(o)] \in [Orders -> Int]
            BY RefundedTyped DEF MInv
        <3> QED
            BY <1>2, <3>1, TotalType, OrderItemsAssumption DEF RefundOf
    <2> QED
        BY <1>3, <2>1, <2>2 DEF MInv, RefundsCountedOnce
<1>12. UnitsReturned'
    <2>1. \A m \in Menus :
            Total([k \in Tops |-> (Bought[k] - qty[k]) * Content(k, m)])'
                = Total([k \in Tops |-> (Bought[k] - qty[k]) * Content(k, m)])
                    + n * Content(i, m)
        BY <1>2, <1>7, <1>10, UnitsChange DEF MInv
    <2> QED
        BY <1>9, <2>1 DEF MInv, UnitsReturned
<1> QED
    BY <1>8, <1>10, <1>11, <1>12

LEMMA MInvNext == MInv /\ [Next]_vars => MInv'
<1> SUFFICES ASSUME MInv, [Next]_vars PROVE MInv'
    OBVIOUS
<1> USE DEF MInv
<1>1. IInv'
    BY IInvNext
<1>2. ASSUME UNCHANGED <<qty, accumulated, revenues, stock>>,
             \A v \in Workers : tx'[v].op = "cancel" => tx'[v].item \in Tops
      PROVE  InProportion' /\ Counted' /\ RefundsCountedOnce' /\ UnitsReturned'
    <2>1. InProportion' /\ Counted'
        BY <1>2 DEF InProportion, Share, Counted
    <2>2. RefundsCountedOnce'
        BY <1>2 DEF RefundsCountedOnce, Refunded
    <2>3. UnitsReturned'
        BY <1>2 DEF UnitsReturned, Content
    <2> QED
        BY <2>1, <2>2, <2>3
<1>3. ASSUME NEW w \in Workers, NEW r, tx' = [tx EXCEPT ![w] = r],
             r.op = "cancel" => r.item \in Tops,
             UNCHANGED <<qty, accumulated, revenues, stock>>
      PROVE  InProportion' /\ Counted' /\ RefundsCountedOnce' /\ UnitsReturned'
    <2>1. \A v \in Workers : tx'[v].op = "cancel" => tx'[v].item \in Tops
        BY <1>3 DEF IInv, Typed, Counted
    <2> QED
        BY <1>2, <1>3, <2>1
<1>4. ASSUME NEW w \in Staff, NEW i \in Leaves, NEW s \in Targets, UpdateStatus(w, i, s)
      PROVE  InProportion' /\ Counted' /\ RefundsCountedOnce' /\ UnitsReturned'
    BY <1>3, <1>4 DEF UpdateStatus, Workers, moneyVars, itemVars
<1>5. ASSUME NEW w \in Workers, CommitStatus(w) \/ (w \in Staff /\ RefuseCancel(w))
      PROVE  InProportion' /\ Counted' /\ RefundsCountedOnce' /\ UnitsReturned'
    BY <1>3, <1>5 DEF CommitStatus, RefuseCancel, moneyVars, itemVars, Idle
<1>6. ASSUME NEW i \in Leaves, HandleServed(i)
      PROVE  InProportion' /\ Counted' /\ RefundsCountedOnce' /\ UnitsReturned'
    BY <1>3, <1>6 DEF HandleServed, Workers, moneyVars, itemVars
<1>7. ASSUME NEW i \in Leaves, HandleServing(i) \/ HandleServingCancelled(i)
      PROVE  InProportion' /\ Counted' /\ RefundsCountedOnce' /\ UnitsReturned'
    BY <1>2, <1>7 DEF HandleServing, HandleServingCancelled, moneyVars, Counted
<1>8. ASSUME NEW w \in Staff, NEW i \in Tops, NEW n \in 1..Bought[i], RequestCancel(w, i, n)
      PROVE  InProportion' /\ Counted' /\ RefundsCountedOnce' /\ UnitsReturned'
    BY <1>3, <1>8 DEF RequestCancel, Workers, moneyVars, itemVars
<1>9. ASSUME NEW w \in Staff, CancelOrderItem(w)
      PROVE  InProportion' /\ Counted' /\ RefundsCountedOnce' /\ UnitsReturned'
    BY <1>9, MoneyCancelled
<1>10. ASSUME UNCHANGED vars
       PROVE  InProportion' /\ Counted' /\ RefundsCountedOnce' /\ UnitsReturned'
    BY <1>2, <1>10 DEF vars, itemVars, moneyVars, Counted
<1>11. InProportion' /\ Counted' /\ RefundsCountedOnce' /\ UnitsReturned'
    BY <1>4, <1>5, <1>6, <1>7, <1>8, <1>9, <1>10 DEF Next, Workers
<1> QED
    BY <1>1, <1>11

LEMMA MInvAlways == Spec => []MInv
BY MInvInit, MInvNext, PTL DEF Spec

(* Quantities stay between nothing and what was bought, the stock never    *)
(* loses a unit by a cancellation, and a worker's business is one of those *)
(* there are.                                                              *)
THEOREM TypeCorrect == Spec => []TypeOK
<1>1. MInv => TypeOK
    <2> SUFFICES ASSUME MInv PROVE TypeOK
        OBVIOUS
    <2>1. qty \in [Items -> Nat] /\ \A i \in Items : qty[i] <= Bought[i]
        BY OrderItemsAssumption DEF MInv, IInv, Typed, Counted
    <2> QED
        BY <2>1 DEF MInv, IInv, Typed, Counted, TypeOK
<1> QED
    BY <1>1, MInvAlways, PTL

(* Every unit cancelled is paid back once, in the usage's amount and in    *)
(* the booth's revenue, however many cancellations overlap.                *)
THEOREM RefundsAreCountedOnce == Spec => []RefundsCountedOnce
BY MInvAlways, PTL DEF MInv

(* The stock gets back exactly the units cancelled, those in sets          *)
(* included, in however many parts a set is cancelled.                     *)
THEOREM CancelledUnitsReturn == Spec => []UnitsReturned
BY MInvAlways, PTL DEF MInv

=============================================================================
