------------------------------ MODULE MCBooks -------------------------------
(* Small instances of Books for TLC.                                       *)
EXTENDS Books, TLC

CONSTANTS a, m1, i1, k1, b1

OneMember == {a}
OneRow == {m1}
OneItem == {i1}
OneKey == {k1}
OneBatchKey == {b1}
Sources == (Staff \X Days) \cup Manual \cup Delivered
=============================================================================
