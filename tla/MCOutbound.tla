----------------------------- MODULE MCOutbound -----------------------------
(***************************************************************************)
(* Instances of Outbound. Order 2 is for the second destination, which has *)
(* neither buffer nor dispatch. Quantities: order 1 takes two products of   *)
(* the one SKU, the others one. Mixed: order 1 wants two products of the    *)
(* first SKU, order 2 one of each, order 3 one of the first. Crossed: order *)
(* 1 wants one of each SKU, order 4 one of the second, the others one of    *)
(* the first.                                                               *)
(***************************************************************************)
EXTENDS Outbound, TLC

CONSTANTS d1, d2, s1, s2

OrderDestination == [o \in Orders |-> IF o = 2 THEN d2 ELSE d1]
OneSku == [p \in Products |-> s1]
Quantities == [o \in Orders |-> [s \in Skus |-> IF o = 1 THEN 2 ELSE 1]]
TwoSkus == [p \in Products |-> IF p = 2 THEN s2 ELSE s1]
Mixed == [o \in Orders |-> [s \in Skus |->
             IF s = s1 THEN IF o = 1 THEN 2 ELSE 1 ELSE IF o = 2 THEN 1 ELSE 0]]
Crossed == [o \in Orders |-> [s \in Skus |->
               IF o = 1 \/ (s = s1 <=> o # 4) THEN 1 ELSE 0]]
Buffers == [b \in ShippingBins |-> d1]
Vehicles == [v \in Dispatches |-> d1]

Symm == Permutations(Requests) \union Permutations(Ops)
    \union Permutations(ShippingBins) \union Permutations(Dispatches)
=============================================================================
