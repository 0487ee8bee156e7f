---------------------------- MODULE MCOrderSync ----------------------------
(* Small instances of OrderSync for TLC.                                   *)
EXTENDS OrderSync

TwoOrders == 1 .. 2

(* Listed tries the pages, Hooked the webhooks and the counts, YouCan the  *)
(* timeline, with the states that each of these tells apart.               *)
Listed == [platform |-> "SHOPIFY", orders |-> {1, 2}, states |-> {"OPEN"},
           updates |-> 3, hooked |-> FALSE]
Hooked == [platform |-> "SHOPIFY", orders |-> {1},
           states |-> {"OPEN", "CANCELLED"}, updates |-> 2, hooked |-> TRUE]
YouCan == [platform |-> "YOUCAN", orders |-> {1},
           states |-> {"OPEN", "DELIVERED", "CANCELLED"}, updates |-> 3,
           hooked |-> FALSE]
ThreeShops == {Listed, Hooked, YouCan}
=============================================================================
