--------------------------- MODULE CheckoutProofs ---------------------------
(***************************************************************************)
(* Theorems about the checkout, for every set of carts, menus, sets and    *)
(* codes: what is true of its states, what its steps promise to a pending  *)
(* payment and to the stock reserved for it, and that it implements the    *)
(* ledger of sales.                                                        *)
(***************************************************************************)
EXTENDS Checkout, TotalsProofs

LEMMA LineType ==
    ASSUME NEW lines \in Lines, NEW p \in Products, NEW q \in 0..MaxLine
    PROVE  [lines EXCEPT ![p] = q] \in Lines
BY DEF Lines

LEMMA EmptyType == Empty \in Lines
BY CatalogAssumption DEF Empty, Lines

(* The code an order carries is a code or none, and comes from the row     *)
(* that applies a code to the cart's current round.                        *)
LEMMA CodeOfFact ==
    ASSUME TypeOK, NEW c \in Carts
    PROVE  /\ CodeOf(c) \in Codes \cup {NoCode}
           /\ AppliedNow(c) = {} <=> CodeOf(c) = NoCode
           /\ AppliedNow(c) # {} =>
                \E a \in applied : a.cart = c /\ a.round = round[c] /\ a.code = CodeOf(c)
<1>1. CASE AppliedNow(c) = {}
    BY <1>1 DEF CodeOf
<1>2. CASE AppliedNow(c) # {}
    <2> DEFINE a == CHOOSE x \in AppliedNow(c) : TRUE
    <2>1. a \in AppliedNow(c)
        BY <1>2
    <2>2. a \in applied /\ a.cart = c /\ a.round = round[c] /\ a.code \in Codes
        BY <2>1 DEF AppliedNow, TypeOK, Apply
    <2>3. CodeOf(c) = a.code
        BY <1>2 DEF CodeOf
    <2> QED
        BY <1>2, <2>2, <2>3, CheckoutAssumption
<1> QED
    BY <1>1, <1>2

(***************************************************************************)
(* Types, and the stock.                                                   *)
(***************************************************************************)
StockInv == TypeOK /\ NeverOversold /\ \A e \in edits : e.seen >= 0

LEMMA StockInvInit == Init => StockInv
<1> SUFFICES ASSUME Init PROVE StockInv
    OBVIOUS
<1>1. Empty \in Lines
    BY EmptyType
<1>2. stock \in [Menus -> Nat]
    BY CheckoutAssumption DEF Init
<1> QED
    BY <1>1, <1>2, CheckoutAssumption DEF Init, StockInv, TypeOK, NeverOversold, Status

LEMMA StockInvNext == StockInv /\ [Next]_vars => StockInv'
<1> SUFFICES ASSUME StockInv, [Next]_vars PROVE StockInv'
    OBVIOUS
<1> USE DEF StockInv, NeverOversold
<1>1. ASSUME NEW c \in Carts, NEW p \in Products, NEW q \in 1..MaxLine, AddToCart(c, p, q)
      PROVE  StockInv'
    <2>1. items[c] \in Lines /\ items[c][p] + q \in 0..MaxLine
        BY <1>1, CatalogAssumption DEF TypeOK, AddToCart, Lines
    <2>2. WithLine(c, p, items[c][p] + q) \in Lines
        BY <2>1, LineType DEF WithLine
    <2> QED
        BY <1>1, <2>2 DEF AddToCart, TypeOK
<1>2. ASSUME NEW c \in Carts, NEW p \in Products, NEW q \in 0..MaxLine, UpdateItem(c, p, q)
      PROVE  StockInv'
    <2>1. WithLine(c, p, q) \in Lines
        BY LineType DEF WithLine, TypeOK
    <2> QED
        BY <1>2, <2>1 DEF UpdateItem, TypeOK
<1>3. ASSUME NEW c \in Carts, NEW p \in Products, DeleteItem(c, p)
      PROVE  StockInv'
    <2>1. WithLine(c, p, 0) \in Lines
        BY LineType, CatalogAssumption DEF WithLine, TypeOK
    <2> QED
        BY <1>3, <2>1 DEF DeleteItem, TypeOK
<1>4. ASSUME NEW c \in Carts, NEW k \in Codes, ApplyCoupon(c, k)
      PROVE  StockInv'
    BY <1>4 DEF ApplyCoupon, TypeOK, Apply, cartVars
<1>5. ASSUME NEW c \in Carts, CancelCoupon(c)
      PROVE  StockInv'
    BY <1>5 DEF CancelCoupon, TypeOK, cartVars
<1>6. ASSUME NEW c \in Carts, EnterPayment(c)
      PROVE  StockInv'
    BY <1>6 DEF EnterPayment, TypeOK, Status
<1>7. ASSUME NEW c \in Carts, ReservationLapses(c)
      PROVE  StockInv'
    BY <1>7 DEF ReservationLapses, TypeOK
<1>8. ASSUME NEW c \in Carts, CancelPayment(c)
      PROVE  StockInv'
    BY <1>8 DEF CancelPayment, TypeOK, Status
<1>9. ASSUME NEW c \in Carts, RejectPayment(c)
      PROVE  StockInv'
    BY <1>9 DEF RejectPayment, TypeOK, Status
<1>10. ASSUME NEW c \in Carts, ConfirmPayment(c)
       PROVE  StockInv'
    <2>1. \A m \in Menus : stock'[m] \in Int /\ stock'[m] >= 0
        BY <1>10 DEF ConfirmPayment, StockSuffices, StockTaken, Covers, TypeOK
    <2>2. stock' \in [Menus -> Int]
        BY <1>10, <2>1 DEF ConfirmPayment, StockTaken
    <2>3. OrderFrom(c) \in Order
        BY CodeOfFact DEF OrderFrom, Order, TypeOK
    <2>4. used' \subseteq Codes
        BY <1>10, CodeOfFact DEF ConfirmPayment, CodesSpent, TypeOK
    <2>6. orders' \in Seq(Order)
        BY <1>10, <2>3 DEF ConfirmPayment, TypeOK
    <2>5. status' \in [Carts -> Status] /\ live' \in [Carts -> BOOLEAN]
        BY <1>10 DEF ConfirmPayment, TypeOK, Status
    <2> QED
        BY <1>10, <2>1, <2>2, <2>4, <2>5, <2>6 DEF ConfirmPayment, TypeOK
<1>11. ASSUME NEW c \in Carts, ResetOrderedCart(c)
       PROVE  StockInv'
    BY <1>11, EmptyType, CheckoutAssumption DEF ResetOrderedCart, TypeOK, Status
<1>12. ASSUME NEW C \in SUBSET Carts, EndUsages(C)
       PROVE  StockInv'
    BY <1>12 DEF EndUsages, TypeOK, cartVars
<1>13. ASSUME NEW m \in Menus, EditMenu(m)
       PROVE  StockInv'
    BY <1>13 DEF EditMenu, TypeOK, cartVars
<1>14. ASSUME NEW e \in edits, NEW n \in StockLevels \cup {e.seen}, SaveMenu(e, n)
       PROVE  StockInv'
    <2>1. n \in Int /\ n >= 0 /\ e.menu \in Menus
        BY <1>14, CheckoutAssumption DEF TypeOK
    <2> QED
        BY <1>14, <2>1 DEF SaveMenu, TypeOK, cartVars
<1>15. CASE UNCHANGED vars
    BY <1>15 DEF vars, TypeOK, cartVars
<1> QED
    BY <1>1, <1>2, <1>3, <1>4, <1>5, <1>6, <1>7, <1>8, <1>9, <1>10, <1>11, <1>12,
       <1>13, <1>14, <1>15 DEF Next

LEMMA StockInvAlways == Spec => []StockInv
BY StockInvInit, StockInvNext, PTL DEF Spec

(* Every reachable state is made of rows the database schema allows.       *)
THEOREM TypeCorrect == Spec => []TypeOK
BY StockInvAlways, PTL DEF StockInv

(* However many carts contend for a menu, and whatever a menu PATCH writes *)
(* back, no order takes units that are not there.                          *)
THEOREM StockNeverOversold == Spec => []NeverOversold
BY StockInvAlways, PTL DEF StockInv

(***************************************************************************)
(* Rounds and coupons: the inductive invariant.                            *)
(***************************************************************************)

(* A round of a cart is over once its payment is confirmed.                *)
Over(c, r) == r < round[c] \/ (r = round[c] /\ status[c] = "ORDERED")

(* Each round has at most one coupon row and each code at most one round;  *)
(* the code of a row is spent exactly when its round is over, and an order *)
(* only carries a spent code.                                              *)
CouponInv ==
    /\ \A a, b \in applied : a.code = b.code => a = b
    /\ \A a, b \in applied : a.cart = b.cart /\ a.round = b.round => a = b
    /\ \A a \in applied : a.round <= round[a.cart]
    /\ \A a \in applied : Over(a.cart, a.round) <=> a.code \in used
    /\ \A i \in DOMAIN orders : orders[i].code # NoCode => orders[i].code \in used

(* A pending cart has what enter_payment_info asked of it.                 *)
PendingInv ==
    \A c \in Carts : status[c] = "PENDING" => items[c] # Empty /\ FeeIncluded(c)

RoundInv ==
    /\ \A i, j \in DOMAIN orders :
            orders[i].cart = orders[j].cart /\ orders[i].round = orders[j].round => i = j
    /\ \A c \in Carts, r \in 0..MaxRound :
            Over(c, r) <=> \E i \in DOMAIN orders : orders[i].cart = c /\ orders[i].round = r

IInv ==
    /\ TypeOK
    /\ RoundInv
    /\ CouponInv
    /\ CouponSpentOnce
    /\ PendingInv
    /\ FeePaidFirst

LEMMA IInvInit == Init => IInv
<1> SUFFICES ASSUME Init PROVE IInv
    OBVIOUS
<1>1. TypeOK
    BY StockInvInit DEF StockInv
<1>2. RoundInv
    BY <1>1 DEF Init, RoundInv, Over
<1> QED
    BY <1>1, <1>2 DEF Init, IInv, CouponInv, CouponSpentOnce, PendingInv, FeePaidFirst

(* Only ConfirmPayment and ResetOrderedCart touch what the round and       *)
(* coupon invariants speak of beyond a cart between ACTIVE and PENDING.    *)
LEMMA IInvNext == StockInv /\ IInv /\ [Next]_vars => IInv'
<1> SUFFICES ASSUME StockInv, IInv, [Next]_vars PROVE IInv'
    OBVIOUS
<1> USE DEF IInv
<1>0. TypeOK'
    BY StockInvNext DEF StockInv
<1> DEFINE Quiet == /\ orders' = orders /\ used' = used /\ round' = round
                    /\ \A c \in Carts : status'[c] = "ORDERED" <=> status[c] = "ORDERED"
(* Steps that neither finish a round nor start one.                        *)
<1>q. ASSUME Quiet
      PROVE  RoundInv' /\ CouponSpentOnce' /\ FeePaidFirst'
    BY <1>q DEF RoundInv, CouponSpentOnce, FeePaidFirst, Over
<1>r. ASSUME Quiet, applied' = applied
      PROVE  CouponInv'
    <2>1. \A a \in applied : a.cart \in Carts
        BY DEF TypeOK, Apply
    <2> QED
        BY <1>r, <2>1 DEF CouponInv, Over
(* Steps that change at most the lines of active carts.                    *)
<1>s. ASSUME round' = round,
             \A c \in Carts : status'[c] = "PENDING" =>
                    status[c] = "PENDING" /\ items'[c] = items[c]
      PROVE  PendingInv'
    BY <1>s DEF PendingInv, FeeIncluded
<1>1. ASSUME NEW c \in Carts, NEW p \in Products, NEW q \in 1..MaxLine, AddToCart(c, p, q)
      PROVE  IInv'
    BY <1>0, <1>1, <1>q, <1>r, <1>s DEF AddToCart, TypeOK
<1>2. ASSUME NEW c \in Carts, NEW p \in Products, NEW q \in 0..MaxLine, UpdateItem(c, p, q)
      PROVE  IInv'
    BY <1>0, <1>2, <1>q, <1>r, <1>s DEF UpdateItem, TypeOK
<1>3. ASSUME NEW c \in Carts, NEW p \in Products, DeleteItem(c, p)
      PROVE  IInv'
    BY <1>0, <1>3, <1>q, <1>r, <1>s DEF DeleteItem, TypeOK
<1>4. ASSUME NEW c \in Carts, NEW k \in Codes, ApplyCoupon(c, k)
      PROVE  IInv'
    <2> DEFINE n == [cart |-> c, round |-> round[c], code |-> k]
    <2>1. /\ Quiet /\ status' = status /\ items' = items
          /\ applied' = applied \cup {n} /\ k \notin used
          /\ status[c] = "ACTIVE" /\ AppliedNow(c) = {}
          /\ \A a \in applied : a.code = k => a.cart = c
        BY <1>4 DEF ApplyCoupon, cartVars
    <2>2. n.cart = c /\ n.round = round[c] /\ n.code = k
        OBVIOUS
    <2>3. \A a \in applied : ~(a.cart = c /\ a.round = round[c])
        BY <2>1 DEF AppliedNow
    <2>4. \A a \in applied : a.code # k
        <3> SUFFICES ASSUME NEW a \in applied, a.code = k PROVE FALSE
            OBVIOUS
        <3>1. a.cart = c /\ a.round \in 0..MaxRound /\ round[c] \in 0..MaxRound
            BY <2>1 DEF TypeOK, Apply
        <3>2. a.round < round[c]
            BY <2>3, <3>1 DEF CouponInv
        <3>3. a.code \in used
            BY <3>1, <3>2 DEF CouponInv, Over
        <3> QED
            BY <2>1, <3>3
    <2>5. ~Over(c, round[c]) /\ round[c] \in Int
        BY <2>1 DEF Over, TypeOK
    <2>6. \A a \in applied : a.cart \in Carts
        BY DEF TypeOK, Apply
    <2>7. CouponInv'
        BY <2>1, <2>2, <2>3, <2>4, <2>5, <2>6 DEF CouponInv, Over
    <2> QED
        BY <1>0, <2>1, <2>7, <1>q, <1>s
<1>5. ASSUME NEW c \in Carts, CancelCoupon(c)
      PROVE  IInv'
    <2>1. Quiet /\ status' = status /\ items' = items /\ applied' \subseteq applied
        BY <1>5 DEF CancelCoupon, cartVars
    <2>2. CouponInv'
        BY <2>1 DEF CouponInv, Over
    <2> QED
        BY <1>0, <2>1, <2>2, <1>q, <1>s
<1>6. ASSUME NEW c \in Carts, EnterPayment(c)
      PROVE  IInv'
    <2>1. Quiet /\ applied' = applied
        BY <1>6 DEF EnterPayment, TypeOK
    <2>2. PendingInv'
        BY <1>6 DEF EnterPayment, PendingInv, FeeIncluded, TypeOK
    <2> QED
        BY <1>0, <2>1, <2>2, <1>q, <1>r
<1>7. ASSUME NEW c \in Carts, ReservationLapses(c)
      PROVE  IInv'
    BY <1>0, <1>7, <1>q, <1>r, <1>s DEF ReservationLapses
<1>8. ASSUME NEW c \in Carts, CancelPayment(c)
      PROVE  IInv'
    BY <1>0, <1>8, <1>q, <1>r, <1>s DEF CancelPayment, TypeOK
<1>9. ASSUME NEW c \in Carts, RejectPayment(c)
      PROVE  IInv'
    BY <1>0, <1>9, <1>q, <1>r, <1>s DEF RejectPayment, TypeOK
<1>10. ASSUME NEW c \in Carts, ConfirmPayment(c)
       PROVE  IInv'
    <2> DEFINE o == OrderFrom(c)
    <2>1. /\ status[c] = "PENDING" /\ CodeOf(c) \notin used
          /\ orders' = Append(orders, o) /\ used' = used \cup ({CodeOf(c)} \ {NoCode})
          /\ applied' = applied /\ round' = round /\ items' = items
          /\ status' = [status EXCEPT ![c] = "ORDERED"]
        BY <1>10 DEF ConfirmPayment, AwaitingPayment, CodesSpent
    <2>2. /\ o.cart = c /\ o.round = round[c]
          /\ o.lines = items[c] /\ o.code = CodeOf(c)
        BY DEF OrderFrom
    <2>n. /\ DOMAIN orders' = DOMAIN orders \cup {Len(orders) + 1}
          /\ Len(orders) + 1 \notin DOMAIN orders
          /\ \A i \in DOMAIN orders : orders'[i] = orders[i]
          /\ orders'[Len(orders) + 1] = o
        BY <2>1 DEF TypeOK
    <2>3. status'[c] = "ORDERED" /\ \A d \in Carts \ {c} : status'[d] = status[d]
        BY <2>1 DEF TypeOK
    <2>4. round[c] \in 0..MaxRound /\ ~Over(c, round[c])
        BY <2>1 DEF TypeOK, Over
    <2>5. \A d \in Carts, r \in 0..MaxRound :
                Over(d, r)' <=> Over(d, r) \/ (d = c /\ r = round[c])
        BY <2>1, <2>3, <2>4 DEF Over
    <2>6. \A i \in DOMAIN orders : ~(orders[i].cart = c /\ orders[i].round = round[c])
        BY <2>4 DEF RoundInv
    <2>7. RoundInv'
        BY <2>n, <2>2, <2>5, <2>6 DEF RoundInv
    <2>8. \A a \in applied :
                /\ a.cart \in Carts /\ a.round \in 0..MaxRound
                /\ a.code \in Codes /\ a.code # NoCode
        BY CheckoutAssumption DEF TypeOK, Apply
    <2>9. \A a \in applied :
                a.code = CodeOf(c) <=> a.cart = c /\ a.round = round[c]
        <3> SUFFICES ASSUME NEW a \in applied
                     PROVE  a.code = CodeOf(c) <=> a.cart = c /\ a.round = round[c]
            OBVIOUS
        <3>1. ASSUME a.code = CodeOf(c) PROVE a.cart = c /\ a.round = round[c]
            BY <3>1, <2>8, CodeOfFact DEF CouponInv
        <3>2. ASSUME a.cart = c, a.round = round[c] PROVE a.code = CodeOf(c)
            BY <3>2, CodeOfFact DEF CouponInv, AppliedNow
        <3> QED
            BY <3>1, <3>2
    <2>10. CouponInv'
        <3>1. \A a \in applied : Over(a.cart, a.round)' <=> a.code \in used'
            BY <2>1, <2>5, <2>8, <2>9 DEF CouponInv
        <3>2. \A i \in DOMAIN orders' : orders'[i].code # NoCode => orders'[i].code \in used'
            BY <2>n, <2>1, <2>2 DEF CouponInv
        <3> QED
            BY <2>1, <3>1, <3>2 DEF CouponInv
    <2>11. CouponSpentOnce'
        BY <2>n, <2>1, <2>2 DEF CouponSpentOnce, CouponInv
    <2>12. FeePaidFirst' /\ PendingInv'
        BY <2>n, <2>1, <2>2, <2>3 DEF FeePaidFirst, PendingInv, FeeIncluded
    <2> QED
        BY <1>0, <2>7, <2>10, <2>11, <2>12
<1>11. ASSUME NEW c \in Carts, ResetOrderedCart(c)
       PROVE  IInv'
    <2>1. /\ status[c] = "ORDERED" /\ orders' = orders /\ used' = used
          /\ applied' = applied
          /\ round' = [round EXCEPT ![c] = @ + 1]
          /\ status' = [status EXCEPT ![c] = "ACTIVE"]
          /\ items' = [items EXCEPT ![c] = Empty]
        BY <1>11 DEF ResetOrderedCart
    <2>2. /\ round'[c] = round[c] + 1 /\ status'[c] = "ACTIVE"
          /\ \A d \in Carts \ {c} :
                round'[d] = round[d] /\ status'[d] = status[d] /\ items'[d] = items[d]
        BY <2>1 DEF TypeOK
    <2>3. \A d \in Carts, r \in 0..MaxRound : Over(d, r)' <=> Over(d, r)
        BY <2>1, <2>2 DEF Over, TypeOK
    <2>4. RoundInv'
        BY <2>1, <2>3 DEF RoundInv
    <2>5. \A a \in applied : a.cart \in Carts /\ a.round \in 0..MaxRound
        BY DEF TypeOK, Apply
    <2>6. CouponInv'
        BY <2>1, <2>2, <2>3, <2>5 DEF CouponInv, TypeOK
    <2>7. PendingInv'
        BY <2>1, <2>2 DEF PendingInv, FeeIncluded
    <2>8. CouponSpentOnce' /\ FeePaidFirst'
        BY <2>1 DEF CouponSpentOnce, FeePaidFirst
    <2> QED
        BY <1>0, <2>4, <2>6, <2>7, <2>8
<1>12. ASSUME NEW C \in SUBSET Carts, EndUsages(C)
       PROVE  IInv'
    BY <1>0, <1>12, <1>q, <1>r, <1>s DEF EndUsages, cartVars
<1>13. ASSUME NEW m \in Menus, EditMenu(m)
       PROVE  IInv'
    BY <1>0, <1>13, <1>q, <1>r, <1>s DEF EditMenu, cartVars
<1>14. ASSUME NEW e \in edits, NEW n \in StockLevels \cup {e.seen}, SaveMenu(e, n)
       PROVE  IInv'
    BY <1>0, <1>14, <1>q, <1>r, <1>s DEF SaveMenu, cartVars
<1>15. CASE UNCHANGED vars
    BY <1>0, <1>15, <1>q, <1>r, <1>s DEF vars
<1> QED
    BY <1>1, <1>2, <1>3, <1>4, <1>5, <1>6, <1>7, <1>8, <1>9, <1>10, <1>11, <1>12,
       <1>13, <1>14, <1>15 DEF Next

LEMMA IInvAlways == Spec => []IInv
BY StockInvAlways, IInvInit, IInvNext, PTL DEF Spec

(* Every finished round has exactly one order, and no other round has one. *)
THEOREM OrderOncePerRound == Spec => []OneOrderPerRound
<1>1. IInv => OneOrderPerRound
    BY DEF IInv, RoundInv, OneOrderPerRound, Over
<1> QED
    BY <1>1, IInvAlways, PTL

(* No two orders carry the same coupon code.                               *)
THEOREM CouponNeverSpentTwice == Spec => []CouponSpentOnce
<1>1. IInv => CouponSpentOnce
    BY DEF IInv
<1> QED
    BY <1>1, IInvAlways, PTL

(* The coupon of an unpaid round is unspent and held by that round alone.  *)
THEOREM AppliedCouponStillGood == Spec => []CouponStillGood
<1>1. IInv => CouponStillGood
    BY DEF IInv, CouponInv, CouponStillGood, Over, TypeOK, Apply
<1> QED
    BY <1>1, IInvAlways, PTL

(* In a booth with a seat fee, the first order of every usage includes it. *)
THEOREM FirstOrderPaysFee == Spec => []FeePaidFirst
<1>1. IInv => FeePaidFirst
    BY DEF IInv
<1> QED
    BY <1>1, IInvAlways, PTL

-----------------------------------------------------------------------------

(***************************************************************************)
(* What the steps promise: a pending payment freezes its cart, and the     *)
(* checkout implements the ledger of sales.                                *)
(***************************************************************************)

(* The steps other than the four that matter to a pending cart or to the   *)
(* ledger leave stock and orders alone, and change the lines, the round or *)
(* the coupons of active carts only.                                       *)
Bystander ==
    /\ orders' = orders /\ round' = round
    /\ \A c \in Carts : status[c] = "PENDING" =>
            items'[c] = items[c] /\ AppliedNow(c)' = AppliedNow(c)

LEMMA BystandersKeepOut ==
    ASSUME TypeOK, [Next]_vars
    PROVE  \/ Bystander /\ stock' = stock
           \/ Bystander /\ \E m \in Menus, n \in Int :
                                stock' = [stock EXCEPT ![m] = n]
           \/ \E c \in Carts : ConfirmPayment(c)
           \/ \E c \in Carts : ResetOrderedCart(c)
<1> USE DEF Bystander, AppliedNow
<1>1. ASSUME NEW c \in Carts, NEW p \in Products, NEW q \in 1..MaxLine, AddToCart(c, p, q)
      PROVE  Bystander /\ stock' = stock
    BY <1>1 DEF AddToCart, TypeOK
<1>2. ASSUME NEW c \in Carts, NEW p \in Products, NEW q \in 0..MaxLine, UpdateItem(c, p, q)
      PROVE  Bystander /\ stock' = stock
    BY <1>2 DEF UpdateItem, TypeOK
<1>3. ASSUME NEW c \in Carts, NEW p \in Products, DeleteItem(c, p)
      PROVE  Bystander /\ stock' = stock
    BY <1>3 DEF DeleteItem, TypeOK
<1>4. ASSUME NEW c \in Carts, NEW k \in Codes, ApplyCoupon(c, k)
      PROVE  Bystander /\ stock' = stock
    BY <1>4 DEF ApplyCoupon, TypeOK, cartVars
<1>5. ASSUME NEW c \in Carts, CancelCoupon(c)
      PROVE  Bystander /\ stock' = stock
    BY <1>5 DEF CancelCoupon, TypeOK, cartVars
<1>6. ASSUME NEW c \in Carts, EnterPayment(c)
      PROVE  Bystander /\ stock' = stock
    BY <1>6 DEF EnterPayment
<1>7. ASSUME NEW c \in Carts, ReservationLapses(c) \/ CancelPayment(c) \/ RejectPayment(c)
      PROVE  Bystander /\ stock' = stock
    BY <1>7 DEF ReservationLapses, CancelPayment, RejectPayment
<1>8. ASSUME NEW C \in SUBSET Carts, EndUsages(C)
      PROVE  Bystander /\ stock' = stock
    BY <1>8 DEF EndUsages, cartVars
<1>9. ASSUME NEW m \in Menus, EditMenu(m)
      PROVE  Bystander /\ stock' = stock
    BY <1>9 DEF EditMenu, cartVars
<1>10. ASSUME NEW e \in edits, NEW n \in StockLevels \cup {e.seen}, SaveMenu(e, n)
       PROVE  Bystander /\ \E m \in Menus, k \in Int : stock' = [stock EXCEPT ![m] = k]
    <2>1. e.menu \in Menus /\ n \in Int
        BY CheckoutAssumption DEF TypeOK
    <2> QED
        BY <1>10, <2>1 DEF SaveMenu, cartVars
<1>11. CASE UNCHANGED vars
    BY <1>11 DEF vars
<1> QED
    BY <1>1, <1>2, <1>3, <1>4, <1>5, <1>6, <1>7, <1>8, <1>9, <1>10, <1>11 DEF Next

(* Nothing a customer, another table or the booth does between a payment   *)
(* request and its answer changes what the payment is for.                 *)
THEOREM PaymentFreezesCart == Spec => FrozenWhilePending
<1> DEFINE Frozen(c) ==
        /\ items'[c] = items[c] /\ round'[c] = round[c]
        /\ AppliedNow(c)' = AppliedNow(c)
        /\ \A i \in DOMAIN orders' \ DOMAIN orders : orders'[i].cart = c =>
                orders'[i].lines = items[c] /\ orders'[i].code = CodeOf(c)
<1>1. ASSUME TypeOK, [Next]_vars, NEW c \in Carts, status[c] = "PENDING"
      PROVE  Frozen(c)
    <2>1. CASE Bystander
        BY <1>1, <2>1 DEF Bystander
    <2>2. ASSUME NEW d \in Carts, ConfirmPayment(d)
          PROVE  Frozen(c)
        <3>1. /\ items' = items /\ round' = round /\ applied' = applied
              /\ orders' = Append(orders, OrderFrom(d))
            BY <2>2 DEF ConfirmPayment
        <3>2. \A i \in DOMAIN orders' \ DOMAIN orders : orders'[i] = OrderFrom(d)
            BY <1>1, <3>1 DEF TypeOK
        <3> QED
            BY <3>1, <3>2 DEF OrderFrom, AppliedNow
    <2>3. ASSUME NEW d \in Carts, ResetOrderedCart(d)
          PROVE  Frozen(c)
        BY <1>1, <2>3 DEF ResetOrderedCart, TypeOK, AppliedNow
    <2> QED
        BY <1>1, <2>1, <2>2, <2>3, BystandersKeepOut
<1>2. TypeOK /\ [Next]_vars =>
        [\A c \in Carts : status[c] = "PENDING" => Frozen(c)]_vars
    BY <1>1
<1>3. Spec => [][\A c \in Carts : status[c] = "PENDING" => Frozen(c)]_vars
    BY <1>2, TypeCorrect, PTL DEF Spec
<1> QED
    BY <1>3 DEF FrozenWhilePending

(* A confirmed payment is a sale: of contents that are not empty, that the *)
(* shelf had, in the next round of the cart, with a code not spent before. *)
LEMMA ConfirmationIsSale ==
    ASSUME StockInv, IInv, NEW c \in Carts, ConfirmPayment(c)
    PROVE  Ledger!Sell(OrderFrom(c)) /\ OrderFrom(c) \in Order
<1> DEFINE o == OrderFrom(c)
<1>1. /\ status[c] = "PENDING" /\ StockSuffices(c) /\ CodeOf(c) \notin used
      /\ orders' = Append(orders, o) /\ stock' = StockTaken(c)
    BY DEF ConfirmPayment, AwaitingPayment
<1>2. /\ o.cart = c /\ o.round = round[c]
      /\ o.lines = items[c] /\ o.code = CodeOf(c)
    BY DEF OrderFrom
<1>3. o \in Order
    BY CodeOfFact DEF OrderFrom, Order, StockInv, TypeOK
<1>4. round[c] \in 0..MaxRound /\ MaxRound \in Nat
    BY CheckoutAssumption DEF StockInv, TypeOK
<1>5. ASSUME NEW i \in DOMAIN orders
      PROVE  /\ orders[i].cart = c => orders[i].round < round[c]
             /\ o.code # NoCode => orders[i].code # o.code
    <2>1. orders[i] \in Order
        BY DEF StockInv, TypeOK
    <2>2. orders[i].cart \in Carts /\ orders[i].round \in 0..MaxRound
        BY <2>1 DEF Order
    <2>3. Over(orders[i].cart, orders[i].round)
        BY <2>2 DEF IInv, RoundInv
    <2>4. orders[i].cart = c => orders[i].round < round[c]
        BY <1>1, <2>3 DEF Over
    <2> QED
        BY <1>1, <1>2, <2>4 DEF IInv, CouponInv
<1>6. round[c] > 0 => \E i \in DOMAIN orders :
                            orders[i].cart = c /\ orders[i].round = round[c] - 1
    <2> SUFFICES ASSUME round[c] > 0
                 PROVE  \E i \in DOMAIN orders :
                            orders[i].cart = c /\ orders[i].round = round[c] - 1
        OBVIOUS
    <2>1. round[c] - 1 \in 0..MaxRound /\ Over(c, round[c] - 1)
        BY <1>4 DEF Over
    <2> QED
        BY <2>1 DEF IInv, RoundInv
<1>7. items[c] # Empty
    BY <1>1 DEF IInv, PendingInv
<1>8. \A m \in Menus : Need(items[c])[m] <= stock[m]
    BY <1>1 DEF StockSuffices, Covers, StockInv, TypeOK
<1>9. /\ \A t \in Ledger!Sold : t.cart = o.cart => t.round < o.round
      /\ o.round > 0 => \E t \in Ledger!Sold : t.cart = o.cart /\ t.round = o.round - 1
      /\ o.code # NoCode => \A t \in Ledger!Sold : t.code # o.code
    BY <1>2, <1>5, <1>6 DEF Ledger!Sold
<1>10. stock' = [m \in Menus |-> stock[m] - Need(o.lines)[m]]
    BY <1>1, <1>2 DEF StockTaken
<1> QED
    BY <1>1, <1>2, <1>3, <1>7, <1>8, <1>9, <1>10 DEF Ledger!Sell

(* Seen from the stock and the orders alone, the checkout is a ledger of   *)
(* sales: whatever carts, coupons and reservations go through in between,  *)
(* units leave the stock only with the order that took them.               *)
THEOREM CheckoutIsLedger == Spec => LedgerSpec
<1>1. Init => Ledger!Init
    BY DEF Init, Ledger!Init
<1>2. StockInv /\ StockInv' /\ IInv /\ [Next]_vars => [Ledger!Next]_<<stock, orders>>
    <2> SUFFICES ASSUME StockInv, StockInv', IInv, [Next]_vars
                 PROVE  Ledger!Next \/ UNCHANGED <<stock, orders>>
        OBVIOUS
    <2>1. CASE Bystander /\ stock' = stock
        BY <2>1 DEF Bystander
    <2>2. ASSUME Bystander, NEW m \in Menus, NEW n \in Int,
                 stock' = [stock EXCEPT ![m] = n]
          PROVE  Ledger!Next
        <3>1. stock'[m] = n /\ n \in Nat
            BY <2>2 DEF StockInv, NeverOversold, TypeOK
        <3> QED
            BY <2>2, <3>1 DEF Bystander, Ledger!Next, Ledger!Restock
    <2>3. ASSUME NEW c \in Carts, ConfirmPayment(c)
          PROVE  Ledger!Next
        <3>1. Ledger!Sell(OrderFrom(c)) /\ OrderFrom(c) \in Ledger!Sale
            BY <2>3, ConfirmationIsSale DEF Order, Ledger!Sale
        <3> QED
            BY <3>1 DEF Ledger!Next
    <2>4. ASSUME NEW c \in Carts, ResetOrderedCart(c)
          PROVE  UNCHANGED <<stock, orders>>
        BY <2>4 DEF ResetOrderedCart
    <2> QED
        BY <2>1, <2>2, <2>3, <2>4, BystandersKeepOut DEF StockInv
<1> QED
    BY <1>1, <1>2, StockInvAlways, IInvAlways, PTL DEF Spec, LedgerSpec, Ledger!Spec

-----------------------------------------------------------------------------

(***************************************************************************)
(* Reservations.                                                           *)
(***************************************************************************)

LEMMA NeedIsNatural ==
    ASSUME NEW lines \in Lines, NEW m \in Menus
    PROVE  Need(lines)[m] \in Nat
<1> DEFINE f == [s \in Sets |-> lines[s] * Comp[s][m]]
<1>1. \A s \in Sets : lines[s] \in Nat /\ Comp[s][m] \in Nat
    BY CatalogAssumption DEF Lines, Products
<1>2. f \in [Sets -> Nat]
    <2>1. \A x, y \in Nat : x * y \in Nat
        OBVIOUS
    <2> QED
        BY <1>1, <2>1
<1>3. Total(f) \in Nat
    <2> HIDE DEF f
    <2> QED
        BY <1>2, TotalNat, CatalogAssumption
<1>4. lines[m] \in Nat
    BY CatalogAssumption DEF Lines, Products
<1> QED
    BY <1>3, <1>4 DEF Need

(* What carts hold together, when some of them let go, and when one more   *)
(* joins.                                                                  *)
LEMMA ReservedTyped ==
    ASSUME TypeOK, NEW C \in SUBSET Carts, NEW m \in Menus
    PROVE  /\ IsFiniteSet(C)
           /\ [c \in C |-> Need(items[c])[m]] \in [C -> Nat]
           /\ Reserved(m, C) \in Nat
<1> DEFINE f == [c \in C |-> Need(items[c])[m]]
<1>1. IsFiniteSet(C)
    BY FS_Subset, CheckoutAssumption
<1>2. f \in [C -> Nat]
    BY NeedIsNatural DEF TypeOK
<1>3. Total(f) \in Nat
    <2> HIDE DEF f
    <2> QED
        BY <1>1, <1>2, TotalNat
<1> QED
    BY <1>1, <1>2, <1>3 DEF Reserved

LEMMA ReservedFewer ==
    ASSUME TypeOK, NEW C \in SUBSET Carts, NEW D \in SUBSET C, NEW m \in Menus
    PROVE  Reserved(m, D) <= Reserved(m, C)
<1> DEFINE f == [c \in C |-> Need(items[c])[m]]
<1>1. [c \in D |-> f[c]] = [c \in D |-> Need(items[c])[m]]
    OBVIOUS
<1>2. Total([c \in D |-> f[c]]) <= Total(f)
    <2>1. IsFiniteSet(C) /\ f \in [C -> Nat]
        BY ReservedTyped
    <2> HIDE DEF f
    <2> QED
        BY <2>1, TotalFewer
<1> QED
    BY <1>1, <1>2 DEF Reserved

LEMMA ReservedOneMore ==
    ASSUME TypeOK, NEW C \in SUBSET Carts, NEW c \in C, NEW m \in Menus
    PROVE  Reserved(m, C) = Need(items[c])[m] + Reserved(m, C \ {c})
<1> DEFINE f == [d \in C |-> Need(items[d])[m]]
<1>1. [d \in C \ {c} |-> f[d]] = [d \in C \ {c} |-> Need(items[d])[m]]
    OBVIOUS
<1>2. Total(f) = f[c] + Total([d \in C \ {c} |-> f[d]])
    <2>1. IsFiniteSet(C) /\ f \in [C -> Int]
        BY ReservedTyped
    <2> HIDE DEF f
    <2> QED
        BY <2>1, TotalSplit
<1> QED
    BY <1>1, <1>2 DEF Reserved

(* Steps in which no cart joins those that reserve, and none of these      *)
(* changes, take nothing from anybody.                                     *)
LEMMA NobodyJoins ==
    ASSUME TypeOK, TypeOK', Honoured, stock' = stock, Reserving' \subseteq Reserving,
           \A c \in Reserving' : items'[c] = items[c]
    PROVE  Honoured'
<1> SUFFICES ASSUME NEW m \in Menus PROVE Reserved(m, Reserving)' <= stock[m]
    BY DEF Honoured
<1>1. Reserved(m, Reserving)' = Reserved(m, Reserving')
    BY DEF Reserved
<1>2. Reserving \in SUBSET Carts
    BY DEF Reserving
<1>3. Reserved(m, Reserving') <= Reserved(m, Reserving)
    BY <1>2, ReservedFewer
<1>4. Reserved(m, Reserving) \in Int /\ Reserved(m, Reserving') \in Int /\ stock[m] \in Int
    <2>1. stock[m] \in Int
        BY DEF TypeOK
    <2>2. Reserving' \in SUBSET Carts
        BY <1>2
    <2>3. Reserved(m, Reserving) \in Nat
        BY <1>2, ReservedTyped
    <2>4. Reserved(m, Reserving') \in Nat
        BY <2>2, ReservedTyped
    <2> QED
        BY <2>1, <2>3, <2>4
<1> QED
    BY <1>1, <1>3, <1>4 DEF Honoured

(* A customer who has been asked to pay keeps the units: they are lost     *)
(* only to a payment whose own deadline had passed, or to an administrator *)
(* who edits the menu.                                                     *)
THEOREM PromisedUnitsAreKept == Spec => ReservationErodedOnlyByLapsed
<1>1. ASSUME TypeOK, TypeOK', [Next]_vars, Honoured, ~Honoured', edits' = edits
      PROVE  \E c \in Carts : Lapsed(c) /\ status'[c] = "ORDERED"
    <2>1. ASSUME NEW c \in Carts, status[c] = "ACTIVE",
                 UNCHANGED <<stock, status, live>>,
                 \A d \in Carts \ {c} : items'[d] = items[d]
          PROVE  FALSE
        BY <1>1, <2>1, NobodyJoins DEF Reserving
    <2>2. ASSUME UNCHANGED <<stock, items, status, live>>
          PROVE  FALSE
        BY <1>1, <2>2, NobodyJoins DEF Reserving
    <2>3. ASSUME NEW c \in Carts, NEW p \in Products, NEW q,
                 AddToCart(c, p, q) \/ UpdateItem(c, p, q) \/ DeleteItem(c, p)
          PROVE  FALSE
        BY <1>1, <2>1, <2>3 DEF AddToCart, UpdateItem, DeleteItem, TypeOK
    <2>4. ASSUME NEW c \in Carts, NEW k, ApplyCoupon(c, k) \/ CancelCoupon(c)
          PROVE  FALSE
        BY <2>2, <2>4 DEF ApplyCoupon, CancelCoupon, cartVars
    <2>5. ASSUME NEW c \in Carts, EnterPayment(c)
          PROVE  FALSE
        <3>1. /\ c \notin Reserving /\ Reserving' = Reserving \cup {c}
              /\ Reserving' \in SUBSET Carts /\ Reserving' \ {c} = Reserving
              /\ Reserving \ {c} = Reserving /\ Reserving \in SUBSET Carts
              /\ items' = items /\ stock' = stock /\ ReservationAllowed(c)
            BY <1>1, <2>5 DEF EnterPayment, Reserving, TypeOK
        <3>2. ASSUME NEW m \in Menus PROVE Reserved(m, Reserving)' <= stock'[m]
            <4>1. Reserved(m, Reserving)' = Reserved(m, Reserving')
                BY <3>1 DEF Reserved
            <4>2. Reserved(m, Reserving') = Need(items[c])[m] + Reserved(m, Reserving)
                BY <1>1, <3>1, ReservedOneMore
            <4>3. Need(items[c])[m] # 0 => Need(items[c])[m] + Reserved(m, Reserving) <= stock[m]
                BY <3>1 DEF ReservationAllowed
            <4>4. Reserved(m, Reserving) \in Nat /\ Reserved(m, Reserving) <= stock[m]
                BY <1>1, <3>1, ReservedTyped DEF Honoured
            <4> QED
                BY <3>1, <4>1, <4>2, <4>3, <4>4
        <3> QED
            BY <1>1, <3>2 DEF Honoured
    <2>6. ASSUME NEW c \in Carts,
                 ReservationLapses(c) \/ CancelPayment(c) \/ RejectPayment(c)
                    \/ ResetOrderedCart(c)
          PROVE  FALSE
        <3>1. /\ stock' = stock /\ Reserving' \subseteq Reserving \ {c}
              /\ \A d \in Carts \ {c} : items'[d] = items[d]
            BY <1>1, <2>6 DEF ReservationLapses, CancelPayment, RejectPayment,
               ResetOrderedCart, Reserving, TypeOK
        <3>2. \A d \in Reserving' : items'[d] = items[d]
            BY <3>1 DEF Reserving
        <3> QED
            BY <1>1, <3>1, <3>2, NobodyJoins
    <2>7. ASSUME NEW c \in Carts, ConfirmPayment(c)
          PROVE  Lapsed(c) /\ status'[c] = "ORDERED"
        <3>1. /\ status[c] = "PENDING" /\ status'[c] = "ORDERED" /\ items' = items
              /\ stock' = StockTaken(c) /\ Reserving' = Reserving \ {c}
              /\ Reserving \in SUBSET Carts /\ Reserving' \in SUBSET Carts
            BY <1>1, <2>7 DEF ConfirmPayment, AwaitingPayment, Reserving, TypeOK
        <3>2. ASSUME c \in Reserving, NEW m \in Menus
              PROVE  Reserved(m, Reserving)' <= stock'[m]
            <4>1. Reserved(m, Reserving)' = Reserved(m, Reserving \ {c})
                BY <3>1 DEF Reserved
            <4>2. Reserved(m, Reserving) = Need(items[c])[m] + Reserved(m, Reserving \ {c})
                BY <1>1, <3>1, <3>2, ReservedOneMore
            <4>3. stock'[m] = stock[m] - Need(items[c])[m] /\ stock[m] \in Int
                BY <1>1, <3>1 DEF StockTaken, TypeOK
            <4>4. /\ Reserved(m, Reserving) <= stock[m]
                  /\ Reserved(m, Reserving \ {c}) \in Nat /\ Need(items[c])[m] \in Nat
                BY <1>1, <3>1, ReservedTyped, NeedIsNatural DEF Honoured, TypeOK
            <4> QED
                BY <4>1, <4>2, <4>3, <4>4
        <3>3. c \notin Reserving
            BY <1>1, <3>2 DEF Honoured
        <3> QED
            BY <3>1, <3>3 DEF Reserving, Lapsed
    <2>8. ASSUME NEW C \in SUBSET Carts, EndUsages(C)
          PROVE  FALSE
        BY <2>2, <2>8 DEF EndUsages, cartVars
    <2>9. ASSUME NEW m \in Menus, EditMenu(m)
          PROVE  FALSE
        <3>1. [menu |-> m, seen |-> stock[m]] \in edits
            BY <1>1, <2>9 DEF EditMenu
        <3>2. [menu |-> m, seen |-> stock[m]].menu # m
            BY <2>9, <3>1 DEF EditMenu
        <3> QED
            BY <3>2
    <2>10. ASSUME NEW e \in edits, NEW n, SaveMenu(e, n)
           PROVE  FALSE
        BY <1>1, <2>10 DEF SaveMenu
    <2>11. CASE UNCHANGED vars
        BY <2>2, <2>11 DEF vars, cartVars
    <2> QED
        BY <1>1, <2>3, <2>4, <2>5, <2>6, <2>7, <2>8, <2>9, <2>10, <2>11 DEF Next
<1>2. TypeOK /\ TypeOK' /\ [Next]_vars =>
        [Honoured /\ ~Honoured' =>
            \/ edits' # edits
            \/ \E c \in Carts : Lapsed(c) /\ status'[c] = "ORDERED"]_vars
    BY <1>1
<1> QED
    BY <1>2, TypeCorrect, PTL DEF Spec, ReservationErodedOnlyByLapsed

=============================================================================
