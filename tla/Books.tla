------------------------------- MODULE Books --------------------------------
(***************************************************************************)
(* The books of a store: expenses, and the two parts that write expenses   *)
(* of their own, salaries and purchases.                                   *)
(***************************************************************************)
EXTENDS Salary, Purchases

ASSUME BooksAssumption == (Staff \X Days) \cap (Manual \cup Delivered) = {}

booksVars == <<expenseVars, salaryVars, purchaseVars>>

BooksInit == ExpensesInit /\ SalaryInit /\ PurchasesInit

BooksNext ==
    \/ ExpenseStep /\ UNCHANGED <<salaryVars, purchaseVars>>
    \/ SalaryStep /\ UNCHANGED purchaseVars
    \/ PurchaseStep /\ UNCHANGED salaryVars

(* The scheduler calls again and again: who is due stays due until then.   *)
BooksFairness == \A s \in Staff : WF_booksVars(Accrue(s) /\ UNCHANGED purchaseVars)

BooksSpec == BooksInit /\ [][BooksNext]_booksVars /\ BooksFairness

-----------------------------------------------------------------------------
(* Types; stock covers what is held of it (validateBalance).               *)
BooksTypeOK ==
    /\ booked \in [Generated \cup Keys -> Seq(Nat)]
    /\ request \in [Keys -> Entered \cup {0}]
    /\ today \in Days /\ profileEdits \in 0..MaxEdits
    /\ \A s \in Staff : HasProfile(s) =>
          profile[s] \in [amount : Amounts, handling : Handlings,
                          every : Frequencies, start : Days, next : Nat]
    /\ payment \in [Staff -> [Days ->
          [status : {"NONE", "PENDING", "PAID"}, handling : Handlings,
           amount : Nat, key : BatchKeys \cup {NoKey}, linked : BOOLEAN]]]
    /\ purchase \in [Manual -> [state : {"none", "live", "deleted"},
                                quantity : 0..MaxQuantity,
                                price : Prices \cup {0}, stocked : BOOLEAN]]
    /\ delivery \in [Delivered -> {"ordered", "recorded", "credited", "uncredited"}]
    /\ used \in Nat /\ held \in Nat /\ held <= onHand

(* What must be booked for a payment or a purchase.                        *)
Owed(o) ==
    IF o \in Staff \X Days
    THEN IF payment[o[1]][o[2]].status = "PAID" THEN <<payment[o[1]][o[2]].amount>> ELSE <<>>
    ELSE IF o \in Manual
    THEN IF purchase[o].state = "live" THEN <<Cost(purchase[o].quantity, purchase[o].price)>>
         ELSE <<>>
    ELSE IF o \in Delivered /\ delivery[o] # "ordered" THEN <<ShopCost>> ELSE <<>>

(* A salary that is paid, and a purchase that exists, has one expense of   *)
(* its amount, and nothing else has: whoever pays, in whatever order, and  *)
(* whatever is edited on the expenses screen or in the profile meanwhile.  *)
BookedOnce == \A o \in Generated : booked[o] = Owed(o)

(* Stock is what came in, by purchases that stand and were stocked and by  *)
(* credited deliveries, less what orders used.                             *)
Brought(row) == IF row.state = "live" /\ row.stocked THEN row.quantity ELSE 0

OnHandExplained ==
    onHand + used =
        SumFunctionOnSet([r \in Manual |-> Brought(purchase[r])], Manual)
        + ShopQuantity * Cardinality({i \in Delivered : delivery[i] = "credited"})

(* The cursor of a schedule passes no day without its payment.             *)
NoDayMissed ==
    [][\A s \in Staff :
          HasProfile(s) /\ profile'[s].start = profile[s].start =>
              \A i \in 0..LastDay :
                  LET d == profile[s].next + i * profile[s].every
                  IN  d < profile'[s].next => payment'[s][d].status # "NONE"]_booksVars

(* The scheduler catches up with every schedule, over days it missed and   *)
(* payments that are already there.                                        *)
CatchesUp == \A s \in Staff : []<>(~Due(s))

=============================================================================
