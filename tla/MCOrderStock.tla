---------------------------- MODULE MCOrderStock ----------------------------
(* Small instances of OrderStock for TLC.                                  *)
EXTENDS OrderStock

CONSTANTS A, B, l1, l2, l3, o1, o2

R(i, product, gift, packaging) ==
    [j \in Items |-> IF j = i
                     THEN [product |-> product, gift |-> gift,
                           packaging |-> packaging]
                     ELSE [product |-> 0, gift |-> 0, packaging |-> 0]]

(* A product A with gift B; edited to B alone; unmatched.  Packaging has   *)
(* items of its own, which MCFulfilment has.                               *)
EditedRecipes == {Unmatched, R(B, 1, 0, 0),
    [j \in Items |-> [product |-> IF j = A THEN 1 ELSE 0,
                      gift |-> IF j = B THEN 1 ELSE 0,
                      packaging |-> 0]]}
OneUnit == {R(A, 1, 0, 0)}

PlusMinusOne == {-1, 1}
OneEach == [i \in Items |-> 1]
TwoEach == [i \in Items |-> 2]

TwoOrders == [l \in Lines |-> IF l = l2 THEN o2 ELSE o1]
OneOrder == [l \in Lines |-> o1]
=============================================================================
