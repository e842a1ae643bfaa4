------------------------------ MODULE MCGoods -------------------------------
(***************************************************************************)
(* An instance of Goods.                                                   *)
(*                                                                         *)
(* Sales: two SRs, one of them with two approved orders, sell to two       *)
(* customers, up to three times, with a buy-two-get-one promotion and a    *)
(* rebate.  Each limit of a promotion can be the one that refuses a sale:  *)
(* the gift is given once, the rebate once per customer and up to 3 in all.*)
(*                                                                         *)
(* Stockroom: an order of two lines, one of a product already in stock,    *)
(* one batch and two handlers.                                             *)
(***************************************************************************)
EXTENDS Goods, TLC

CONSTANTS
    r1, r2, amin, babu, asha, rina, gift, rebate,
    k1, k2, tea, oil

MCBuy == gift :> 2 @@ rebate :> 1
MCFree == gift :> 1 @@ rebate :> 0
MCRebate == gift :> 0 @@ rebate :> 2
MCMaxUses == gift :> 1 @@ rebate :> 3
MCMaxPerCustomer == gift :> 2 @@ rebate :> 1
MCBudget == gift :> 2 @@ rebate :> 3
MCOrders == amin :> 2 @@ babu :> 1
MCTaken == amin :> 2 @@ babu :> 2
MCOwing == asha :> 0 @@ rina :> 1
MCSaved == asha :> 1 @@ rina :> 0

MCAdjustments == {-1, 1}
MCOrdered == tea :> 1 @@ oil :> 1
MCFirstStock == tea :> 1 @@ oil :> 0
MCFirstCost == tea :> 1 @@ oil :> 4

Symmetry == Permutations(Requests) \cup Permutations(Staff)
=============================================================================
