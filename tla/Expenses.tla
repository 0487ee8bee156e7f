------------------------------ MODULE Expenses ------------------------------
(***************************************************************************)
(* The expenses of a store: src/expenses/expenses.service.ts.              *)
(*                                                                         *)
(* Salaries and purchases write their expenses themselves; the expenses    *)
(* screen writes the others, each under the idempotency key of its         *)
(* request.  An expense is known by what it is for, and `booked` keeps the *)
(* amounts booked for it, so that nothing prevents a second expense but    *)
(* the code.                                                               *)
(***************************************************************************)
EXTENDS Integers, Sequences, FiniteSets

CONSTANTS
    Generated,   \* salary payments and purchases, which own their expense
    Keys,        \* idempotency keys of requests of the expenses screen
    Entered      \* amounts that are entered there

ASSUME ExpensesAssumption == Generated \cap Keys = {} /\ Entered \subseteq Nat \ {0}

VARIABLES
    booked,      \* amounts of the expenses booked for a payment, purchase or key
    request      \* what a key was used for, 0 when it is new

expenseVars == <<booked, request>>

ExpensesInit ==
    /\ booked = [o \in Generated \cup Keys |-> <<>>]
    /\ request = [k \in Keys |-> 0]

-----------------------------------------------------------------------------
(* A request takes the advisory lock of its key: used for the same, it     *)
(* gets the expense there is; for something else, or when that expense was *)
(* deleted, it is refused.                                                 *)
CreateExpense(k, amount) ==
    /\ request[k] = 0
    /\ booked' = [booked EXCEPT ![k] = Append(@, amount)]
    /\ request' = [request EXCEPT ![k] = amount]

(* rejectIfSalaryGenerated, rejectIfPurchaseGenerated.                     *)
Editable(o) == o \in Keys /\ booked[o] # <<>>

UpdateExpense(o, amount) ==
    /\ Editable(o)
    /\ booked' = [booked EXCEPT ![o] = <<amount>>]
    /\ UNCHANGED request

RemoveExpense(o) ==
    /\ Editable(o)
    /\ booked' = [booked EXCEPT ![o] = <<>>]
    /\ UNCHANGED request

ExpenseStep ==
    \/ \E k \in Keys, amount \in Entered : CreateExpense(k, amount)
    \/ \E o \in Generated \cup Keys : \/ \E amount \in Entered : UpdateExpense(o, amount)
                                       \/ RemoveExpense(o)
=============================================================================
