----------------------------- MODULE MCReturns -----------------------------
(* Small instances of Returns for TLC.                                     *)
EXTENDS Returns, TLC

CONSTANTS l1, l2, s1, s2, c1

TwoLines == {l1, l2}
TwoCalls == {s1, s2}
OneClerk == {c1}
LimitOfTwo == [k \in Counted |-> 2]
Symmetric == Permutations(TwoLines) \cup Permutations(TwoCalls)
=============================================================================
