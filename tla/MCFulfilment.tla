---------------------------- MODULE MCFulfilment ----------------------------
(* Small instances of Fulfilment for TLC.                                  *)
EXTENDS Fulfilment

CONSTANTS A, B, P, l1, l2, o1

(* A line sells A with B as its gift, packed in P.                         *)
Unit(product, gift, packaging) ==
    [product |-> product, gift |-> gift, packaging |-> packaging]
Boxed == {[i \in Items |-> IF i = A THEN Unit(1, 0, 0)
                           ELSE IF i = B THEN Unit(0, 1, 0)
                           ELSE Unit(0, 0, 1)]}

Enough == [i \in Items |-> 8]
OneOrder == [l \in Lines |-> o1]
Costs == [i \in Items |-> IF i = A THEN 3 ELSE 1]
OnePrice == {[revenue |-> 9, productCost |-> 3, giftCost |-> 1,
              packagingCost |-> 0]}

(* Couriers correct every outcome into every other one.                    *)
AnyCorrection == Outcomes \X (Outcomes \ {"none"})
=============================================================================
