----------------------------- MODULE MCCheckout -----------------------------
(* Instances of Checkout for TLC. *)
EXTENDS Checkout, TLC

CONSTANTS c1, c2, c3, m1, m2, s1, fee, k1, none

(* Rounds, coupons and the fee: two tables, one menu that a set takes two  *)
(* units of, one coupon code.                                              *)
RoundCarts == {c1, c2}
RoundMenus == {m1}
RoundSets == {s1}
RoundCodes == {k1}
RoundComp == (s1 :> (m1 :> 2))
RoundStock == {2}
RoundSymmetry == Permutations(RoundCarts)

(* Stock and reservations: three tables contend for two menus, directly    *)
(* and through a set, with too few units for all of them.                  *)
StockCarts == {c1, c2, c3}
StockMenus == {m1, m2}
StockSets == {s1}
StockComp == (s1 :> (m1 :> 1 @@ m2 :> 2))
StockStock == {2}
StockSymmetry == Permutations(StockCarts)
NoCodes == {}

=============================================================================
