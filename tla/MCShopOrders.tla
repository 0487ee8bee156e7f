---------------------------- MODULE MCShopOrders ----------------------------
(* Small instances of ShopOrders for TLC.                                  *)
EXTENDS ShopOrders, TLC

CONSTANTS s1, s2, p1, p2, v1, t1, t2

TwoStores == {s1, s2}
TwoProducts == {p1, p2}
OneOption == {v1}
OptionOfFirst == [v \in OneOption |-> p1]
TwoTaps == {t1, t2}
Prices == [k \in Keys |-> IF k = p2 THEN 2 ELSE 1]
Ranks == [k \in Keys |-> IF k = p1 THEN 1 ELSE IF k = p2 THEN 2 ELSE 3]
UnitStock == [k \in Keys |-> 1]
Symmetric == Permutations(TwoStores) \cup Permutations(TwoTaps)
=============================================================================
