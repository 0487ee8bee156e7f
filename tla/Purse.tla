------------------------------- MODULE Purse -------------------------------
(***************************************************************************)
(* What Zomaal promises a merchant about the WhatsApp balance: it is never *)
(* overdrawn, a message carries at most one charge at a time, and what     *)
(* comes back for it is exactly what is still charged.  WhatsApp           *)
(* implements it.  A refund that failed leaves a message owing: only such  *)
(* a message may be charged on top of a charge.                            *)
(***************************************************************************)
EXTENDS Integers

CONSTANTS Messages

VARIABLES
    balance,    \* credit of the store
    charged,    \* what a message costs the store at present
    owing       \* messages whose charge should have come back and did not

purseVars == <<balance, charged, owing>>

PurseInit ==
    /\ balance \in Nat
    /\ charged = [m \in Messages |-> 0]
    /\ owing = {}

(* An administrator adds credit or takes it away.                          *)
Credit ==
    /\ balance' \in Nat
    /\ UNCHANGED <<charged, owing>>

Charge(m) ==
    /\ charged[m] = 0 \/ m \in owing
    /\ balance' \in Nat /\ balance' < balance
    /\ charged' = [charged EXCEPT ![m] = @ + (balance - balance')]
    /\ UNCHANGED owing

Refund(m) ==
    /\ charged[m] > 0
    /\ balance' = balance + charged[m]
    /\ charged' = [charged EXCEPT ![m] = 0]
    /\ UNCHANGED owing

LoseRefund(m) ==
    /\ charged[m] > 0
    /\ owing' = owing \cup {m}
    /\ UNCHANGED <<balance, charged>>

PurseNext ==
    Credit \/ \E m \in Messages : Charge(m) \/ Refund(m) \/ LoseRefund(m)

PurseSpec == PurseInit /\ [][PurseNext]_purseVars
=============================================================================
