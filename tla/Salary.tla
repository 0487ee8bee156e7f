------------------------------- MODULE Salary -------------------------------
(***************************************************************************)
(* Staff salaries: src/staff/staff-salary.service.ts.                      *)
(*                                                                         *)
(* Every writer locks the member of staff first, so a transaction is one   *)
(* step; the run of the scheduler is one step per member, and may stop     *)
(* between two of them.  Days are numbered; a frequency is its number of   *)
(* days.                                                                   *)
(***************************************************************************)
EXTENDS Expenses, FiniteSetsExt

CONSTANTS
    Staff,
    Amounts,       \* of salaries
    LastDay,       \* bound on the days
    Frequencies,   \* days between two payments
    BatchKeys,     \* idempotency keys of the owner's batches
    NoKey,
    MaxPeriods,    \* periods that one transaction of the scheduler catches up with
    MaxEdits       \* bound on the changes of salary profiles

Days == 1..LastDay
Handlings == {"AUTOMATIC", "MANUAL"}

ASSUME SalaryAssumption ==
    /\ LastDay \in Nat \ {0} /\ MaxPeriods \in Nat \ {0} /\ MaxEdits \in Nat
    /\ Staff \X Days \subseteq Generated
    /\ Amounts \subseteq Nat \ {0}
    /\ Frequencies \subseteq Nat \ {0} /\ NoKey \notin BatchKeys

VARIABLES
    today,
    profile,     \* salary profile of a member of staff
    payment,     \* payment of a member of staff for a day; the pair is unique
    profileEdits \* changes of profiles so far, to bound them

salaryVars == <<today, profile, payment, profileEdits>>

NoProfile == [amount |-> 0, handling |-> "MANUAL", every |-> 1, start |-> 0, next |-> 0]
NoPayment == [status |-> "NONE", handling |-> "MANUAL", amount |-> 0, key |-> NoKey,
              linked |-> FALSE]
HasProfile(s) == profile[s].amount > 0
Exists(s, d) == payment[s][d].status # "NONE"

SalaryInit ==
    /\ today = 1
    /\ profile = [s \in Staff |-> NoProfile]
    /\ payment = [s \in Staff |-> [d \in Days |-> NoPayment]]
    /\ profileEdits = 0

-----------------------------------------------------------------------------
(* A plausible slip: an expense for every confirmation.                    *)
LinkAgain(s, paid) == [d \in Days |-> d \in paid]

(* linkExpense: a payment that has its expense keeps it.                   *)
Links(s, paid) == [d \in Days |-> d \in paid /\ ~payment[s][d].linked]

(* The payments of these days are paid with these amounts: their expenses  *)
(* are booked and linked.                                                  *)
Book(s, paid, amount) ==
    booked' = [o \in DOMAIN booked |->
                 IF o \in {s} \X paid /\ Links(s, paid)[o[2]]
                 THEN Append(booked[o], amount[o[2]]) ELSE booked[o]]

Paid(p) == [p EXCEPT !.status = "PAID", !.linked = TRUE]

(* setProfile: the cursor stays unless the start of the schedule changes.  *)
SetProfile(s, amount, handling, every, start) ==
    /\ profileEdits < MaxEdits
    /\ profileEdits' = profileEdits + 1
    /\ profile' = [profile EXCEPT ![s] =
          [amount |-> amount, handling |-> handling, every |-> every, start |-> start,
           next |-> IF HasProfile(s) /\ profile[s].start = start
                    THEN profile[s].next ELSE start]]
    /\ UNCHANGED <<today, payment, expenseVars>>

(* createPayments: a batch under a new key, for members who have no        *)
(* payment on that day, of the amount given or (0) of their base salary.   *)
(* A key that was used gives back what it made, or is refused.             *)
CreatePayments(key, batch, d, status, handling, amount) ==
    LET due == [s \in batch |-> IF amount > 0 THEN amount ELSE profile[s].amount] IN
    /\ \A s \in Staff, e \in Days : payment[s][e].key # key
    /\ \A s \in batch : ~Exists(s, d) /\ due[s] > 0
    /\ payment' = [s \in Staff |->
         IF s \notin batch THEN payment[s]
         ELSE [payment[s] EXCEPT ![d] =
                 [status |-> status, handling |-> handling, amount |-> due[s],
                  key |-> key, linked |-> status = "PAID"]]]
    /\ booked' = [o \in DOMAIN booked |->
                    IF status = "PAID" /\ o \in batch \X {d}
                    THEN Append(booked[o], due[o[1]]) ELSE booked[o]]
    /\ UNCHANGED <<today, profile, profileEdits, request>>

(* confirmPayment: refused for a manual payment; a paid one stays as it is.*)
ConfirmPayment(s, d) ==
    /\ payment[s][d].status = "PENDING"
    /\ payment[s][d].handling = "AUTOMATIC"
    /\ Book(s, {d}, [e \in Days |-> payment[s][e].amount])
    /\ payment' = [payment EXCEPT ![s][d] = Paid(@)]
    /\ UNCHANGED <<today, profile, profileEdits, request>>

(* recordExpense: the owner records the expense, which also pays.          *)
RecordExpense(s, d) ==
    /\ Exists(s, d)
    /\ Book(s, {d}, [e \in Days |-> payment[s][e].amount])
    /\ payment' = [payment EXCEPT ![s][d] = Paid(@)]
    /\ UNCHANGED <<today, profile, profileEdits, request>>

-----------------------------------------------------------------------------
(* runAutomaticPayments, for one member: every day that is due gets its    *)
(* payment, at most MaxPeriods of them, and the cursor moves behind them.  *)
Due(s) == HasProfile(s) /\ profile[s].next <= today

Periods(s) == {i \in 0..MaxPeriods - 1 : profile[s].next + i * profile[s].every <= today}
DueDays(s) == {profile[s].next + i * profile[s].every : i \in Periods(s)}

(* A plausible slip: the cursor ends a period too far.                     *)
CursorTooFar(s) == profile[s].next + (Cardinality(Periods(s)) + 1) * profile[s].every

Cursor(s) == profile[s].next + Cardinality(Periods(s)) * profile[s].every

(* A plausible slip: a member whose payment is already there is skipped    *)
(* for good.                                                               *)
AccrueFresh(s) == Due(s) /\ \A d \in DueDays(s) : ~Exists(s, d)

Accruable(s) == Due(s)

(* A new obligation; when expenses are automatic it is paid at once, and   *)
(* so is an obligation that was already there and pending.                 *)
Accrued(s, d) ==
    LET new == [status |-> "PENDING", handling |-> profile[s].handling,
                amount |-> profile[s].amount, key |-> NoKey, linked |-> FALSE]
        kept == IF Exists(s, d) THEN payment[s][d] ELSE new
    IN  IF profile[s].handling = "AUTOMATIC" THEN Paid(kept) ELSE kept

Accrue(s) ==
    LET days == DueDays(s)
        paid == IF profile[s].handling = "AUTOMATIC"
                THEN {d \in days : payment[s][d].status # "PAID"} ELSE {}
    IN  /\ Accruable(s)
        /\ payment' = [payment EXCEPT ![s] =
                         [d \in Days |-> IF d \in days THEN Accrued(s, d) ELSE @[d]]]
        /\ Book(s, paid, [d \in Days |-> Accrued(s, d).amount])
        /\ profile' = [profile EXCEPT ![s].next = Cursor(s)]
        /\ UNCHANGED <<today, profileEdits, request>>

NextDay ==
    /\ today < LastDay
    /\ today' = today + 1
    /\ UNCHANGED <<profile, payment, profileEdits, expenseVars>>

-----------------------------------------------------------------------------
OwnerStep(s) ==
    \/ \E amount \in Amounts, handling \in Handlings, every \in Frequencies, start \in Days :
          SetProfile(s, amount, handling, every, start)
    \/ \E d \in Days : ConfirmPayment(s, d) \/ RecordExpense(s, d)

BatchStep ==
    \E key \in BatchKeys, batch \in SUBSET Staff \ {{}}, d \in Days,
       status \in {"PENDING", "PAID"}, handling \in Handlings, amount \in Entered \cup {0} :
          CreatePayments(key, batch, d, status, handling, amount)

SalaryStep == NextDay \/ BatchStep \/ \E s \in Staff : OwnerStep(s) \/ Accrue(s)
=============================================================================
