---------------------------- MODULE MCOrderItems ----------------------------
(* An instance of OrderItems for TLC: two orders of one usage, o1 of two   *)
(* dishes and o2 with a set bought twice, made of two units of m1, and the *)
(* seat fee.                                                               *)
EXTENDS OrderItems, TLC

CONSTANTS a, b, s, p, f, o1, o2, m1, m2, mf, w1, w2, listener

TwoStaff == {w1, w2}
StaffSymmetry == Permutations(TwoStaff)
TwoOrders == {o1, o2}
PaidFour == [o \in TwoOrders |-> 4]

AllItems == {a, b, s, p, f}
AllMenus == {m1, m2, mf}
ItsOrder == [i \in AllItems |-> IF i \in {a, b} THEN o1 ELSE o2]
ItsSort == a :> "MENU" @@ b :> "MENU" @@ s :> "SET" @@ p :> "PART" @@ f :> "FEE"
ItsParts == [i \in AllItems |-> IF i = s THEN {p} ELSE {}]
ItsMenu == a :> m1 @@ b :> m2 @@ p :> m1 @@ f :> mf
ItsNumber == a :> 1 @@ b :> 1 @@ s :> 2 @@ p :> 4 @@ f :> 1
ItsPrice == a :> 2 @@ b :> 1 @@ s :> 1 @@ p :> 0 @@ f :> 1

(* The order is as it was paid and no request is about it.                 *)
Untouched(o) ==
    /\ \A i \in Items : OrderOf[i] = o =>
            qty[i] = Bought[i] /\ stat[i] = "COOKING" /\ ~servedAt[i]
    /\ \A w \in Workers : tx[w] # Idle => OrderOf[tx[w].item] # o

(* Requests about different orders meet in the sums only: TLC follows the  *)
(* staff as long as one of the orders is left alone.                       *)
OneOrderAtATime == (\E o \in Orders : Untouched(o))'

=============================================================================
