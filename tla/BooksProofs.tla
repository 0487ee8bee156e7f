----------------------------- MODULE BooksProofs -----------------------------
(***************************************************************************)
(* Theorems about Books, for any staff, days, frequencies, purchases and   *)
(* deliveries: every salary paid and every purchase has one expense of its *)
(* amount, the cursor of a schedule passes no day without its payment, and *)
(* stock covers what is held of it.                                        *)
(***************************************************************************)
EXTENDS Books, SumTheorems, FiniteSetTheorems, TLAPS

Profiles == [amount : Amounts, handling : Handlings, every : Frequencies,
             start : Days, next : Nat \ {0}]
Payments == [status : {"NONE", "PENDING", "PAID"}, handling : Handlings,
             amount : Nat, key : BatchKeys \cup {NoKey}, linked : BOOLEAN]
PurchaseRows == [state : {"none", "live", "deleted"}, quantity : 0..MaxQuantity,
                 price : Prices \cup {0}, stocked : BOOLEAN]

ExpenseTypes ==
    /\ booked \in [Generated \cup Keys -> Seq(Nat)]
    /\ request \in [Keys -> Entered \cup {0}]

SalaryTypes ==
    /\ today \in Days /\ profileEdits \in 0..MaxEdits
    /\ profile \in [Staff -> Profiles \cup {NoProfile}]
    /\ payment \in [Staff -> [Days -> Payments]]

PurchaseTypes ==
    /\ purchase \in [Manual -> PurchaseRows]
    /\ delivery \in [Delivered -> {"ordered", "recorded", "credited", "uncredited"}]
    /\ used \in Nat /\ held \in Nat /\ onHand \in Int /\ held <= onHand

(* A payment is paid exactly when its expense is linked: the guard against *)
(* a second expense is the link, the promise is about the status.          *)
PaidIsLinked ==
    \A s \in Staff, d \in Days :
        payment[s][d].linked <=> payment[s][d].status = "PAID"

BooksInv == ExpenseTypes /\ SalaryTypes /\ PurchaseTypes /\ PaidIsLinked /\ BookedOnce

(* The expense that a payment must have.                                   *)
SalaryOwed(p) == IF p.status = "PAID" THEN <<p.amount>> ELSE <<>>

(* What the three parts that write expenses know of each other.            *)
LEMMA OwnersDiffer ==
    /\ \A s \in Staff, d \in Days : <<s, d>> \in Generated
    /\ \A r \in Manual : r \in Generated /\ r \notin Delivered
                         /\ r \notin Staff \X Days
    /\ \A i \in Delivered : i \in Generated /\ i \notin Manual
                            /\ i \notin Staff \X Days
    /\ \A o \in Generated : o \notin Keys
BY BooksAssumption, SalaryAssumption, PurchasesAssumption, ExpensesAssumption

LEMMA TypesAsChecked == BooksInv => BooksTypeOK
<1> SUFFICES ASSUME BooksInv PROVE BooksTypeOK
    OBVIOUS
<1>1. \A s \in Staff : HasProfile(s) =>
          profile[s] \in [amount : Amounts, handling : Handlings,
                          every : Frequencies, start : Days, next : Nat]
  BY DEF BooksInv, SalaryTypes, HasProfile, NoProfile, Profiles
<1> QED
  BY <1>1
  DEF BooksInv, BooksTypeOK, ExpenseTypes, SalaryTypes, PurchaseTypes,
      Payments, PurchaseRows

LEMMA BooksInvInit == BooksInit => BooksInv
<1> SUFFICES ASSUME BooksInit PROVE BooksInv
    OBVIOUS
<1>1. ExpenseTypes
  BY DEF BooksInit, ExpensesInit, ExpenseTypes
<1>2. SalaryTypes
  BY SalaryAssumption
  DEF BooksInit, SalaryInit, SalaryTypes, Days, Payments, NoPayment, Handlings
<1>3. PurchaseTypes
  BY PurchasesAssumption
  DEF BooksInit, PurchasesInit, PurchaseTypes, PurchaseRows, NoPurchase
<1>4. PaidIsLinked
  BY DEF BooksInit, SalaryInit, PaidIsLinked, NoPayment
<1>5. BookedOnce
  BY DEF BooksInit, ExpensesInit, SalaryInit, PurchasesInit, BookedOnce, Owed,
         NoPayment, NoPurchase
<1> QED
  BY <1>1, <1>2, <1>3, <1>4, <1>5 DEF BooksInv

-----------------------------------------------------------------------------
(* The expenses screen writes only expenses of its own keys.               *)
LEMMA ExpenseKeeps ==
    ASSUME BooksInv, ExpenseStep, UNCHANGED <<salaryVars, purchaseVars>>
    PROVE  BooksInv'
<1> DEFINE Fine == /\ booked' \in [Generated \cup Keys -> Seq(Nat)]
                   /\ \A o \in Generated : booked'[o] = booked[o]
                   /\ request' \in [Keys -> Entered \cup {0}]
<1>1. ASSUME NEW k \in Keys, NEW new \in Seq(Nat),
             booked' = [booked EXCEPT ![k] = new]
      PROVE  /\ booked' \in [Generated \cup Keys -> Seq(Nat)]
             /\ \A o \in Generated : booked'[o] = booked[o]
  BY <1>1, OwnersDiffer DEF BooksInv, ExpenseTypes
<1>2. Fine
  <2>1. ASSUME NEW k \in Keys, NEW amount \in Entered, CreateExpense(k, amount)
        PROVE  Fine
    <3>1. Append(booked[k], amount) \in Seq(Nat)
      BY ExpensesAssumption DEF BooksInv, ExpenseTypes
    <3> QED
      BY <1>1, <2>1, <3>1 DEF CreateExpense, BooksInv, ExpenseTypes
  <2>2. ASSUME NEW o, NEW amount \in Entered, UpdateExpense(o, amount)
        PROVE  Fine
    <3>1. <<amount>> \in Seq(Nat) /\ o \in Keys
      BY <2>2, ExpensesAssumption DEF UpdateExpense, Editable
    <3> QED
      BY <1>1, <2>2, <3>1 DEF UpdateExpense, BooksInv, ExpenseTypes
  <2>3. ASSUME NEW o, RemoveExpense(o)
        PROVE  Fine
    <3>1. <<>> \in Seq(Nat) /\ o \in Keys
      BY <2>3 DEF RemoveExpense, Editable
    <3> QED
      BY <1>1, <2>3, <3>1 DEF RemoveExpense, BooksInv, ExpenseTypes
  <2> QED
    BY <2>1, <2>2, <2>3 DEF ExpenseStep
<1>3. BookedOnce'
  BY <1>2 DEF BooksInv, BookedOnce, Owed, salaryVars, purchaseVars
<1> QED
  BY <1>2, <1>3
  DEF BooksInv, ExpenseTypes, SalaryTypes, PurchaseTypes, PaidIsLinked,
      salaryVars, purchaseVars

-----------------------------------------------------------------------------
(* A step of the salaries is right if each payment's expenses are.         *)
LEMMA BookedFromPayments ==
    ASSUME BooksInv, UNCHANGED purchaseVars,
           \A s \in Staff, d \in Days :
               booked'[<<s, d>>] = SalaryOwed(payment'[s][d]),
           \A o \in Generated \ (Staff \X Days) : booked'[o] = booked[o]
    PROVE  BookedOnce'
<1> SUFFICES ASSUME NEW o \in Generated PROVE booked'[o] = Owed(o)'
    BY DEF BookedOnce
<1>1. CASE o \in Staff \X Days
  <2>1. PICK s \in Staff, d \in Days : o = <<s, d>>
    BY <1>1
  <2>2. o[1] = s /\ o[2] = d
    BY <2>1
  <2>3. Owed(o)' = SalaryOwed(payment'[s][d])
    BY <1>1, <2>2 DEF Owed, SalaryOwed
  <2> QED
    BY <2>1, <2>3
<1>2. CASE o \notin Staff \X Days
  <2>1. Owed(o)' = Owed(o)
    BY <1>2 DEF Owed, purchaseVars
  <2> QED
    BY <1>2, <2>1 DEF BooksInv, BookedOnce
<1> QED
  BY <1>1, <1>2

LEMMA OwedNow ==
    ASSUME BooksInv, NEW s \in Staff, NEW d \in Days
    PROVE  /\ booked[<<s, d>>] = SalaryOwed(payment[s][d])
           /\ payment[s][d] \in Payments
           /\ payment[s][d].linked <=> payment[s][d].status = "PAID"
BY ZenonT(30), OwnersDiffer
DEF BooksInv, BookedOnce, Owed, SalaryOwed, SalaryTypes, PaidIsLinked

(* Book: a payment without its expense gets it, one with it is left alone, *)
(* and no other expense changes.                                           *)
LEMMA BookEffect ==
    ASSUME BooksInv, NEW s \in Staff, NEW paid \in SUBSET Days, NEW amount,
           \A d \in paid : amount[d] \in Nat,
           Book(s, paid, amount)
    PROVE  /\ booked' \in [Generated \cup Keys -> Seq(Nat)]
           /\ \A t \in Staff, d \in Days :
                  booked'[<<t, d>>] =
                      IF t = s /\ d \in paid /\ ~payment[s][d].linked
                      THEN <<amount[d]>> ELSE booked[<<t, d>>]
           /\ \A o \in Generated \ (Staff \X Days) : booked'[o] = booked[o]
<1>1. booked \in [Generated \cup Keys -> Seq(Nat)]
  BY DEF BooksInv, ExpenseTypes
<1>2. booked' = [o \in Generated \cup Keys |->
                   IF o \in {s} \X paid /\ o[2] \in paid /\ ~payment[s][o[2]].linked
                   THEN Append(booked[o], amount[o[2]]) ELSE booked[o]]
  <2>1. \A o \in {s} \X paid : Links(s, paid)[o[2]]
                                 <=> o[2] \in paid /\ ~payment[s][o[2]].linked
    BY DEF Links
  <2> QED
    BY <1>1, <2>1 DEF Book
<1>3. booked' \in [Generated \cup Keys -> Seq(Nat)]
  <2>1. \A o \in {s} \X paid : o[2] \in paid
    OBVIOUS
  <2> QED
    BY <1>1, <1>2, <2>1
<1>4. \A d \in paid : ~payment[s][d].linked
                          => Append(booked[<<s, d>>], amount[d]) = <<amount[d]>>
  <2> SUFFICES ASSUME NEW d \in paid, ~payment[s][d].linked
               PROVE  Append(booked[<<s, d>>], amount[d]) = <<amount[d]>>
    OBVIOUS
  <2>1. booked[<<s, d>>] = <<>>
    BY OwedNow DEF SalaryOwed
  <2> QED
    BY <2>1
<1>5. \A t \in Staff, d \in Days : <<t, d>> \in Generated \cup Keys
  BY OwnersDiffer
<1>6. \A t \in Staff, d \in Days :
          booked'[<<t, d>>] =
              IF t = s /\ d \in paid /\ ~payment[s][d].linked
              THEN <<amount[d]>> ELSE booked[<<t, d>>]
  BY <1>2, <1>4, <1>5
<1>7. \A o \in Generated \ (Staff \X Days) : booked'[o] = booked[o]
  BY <1>2
<1> QED
  BY <1>3, <1>6, <1>7

(* One payment of one member becomes paid, and is booked if it was not.    *)
LEMMA PayKeeps ==
    ASSUME BooksInv, NEW s \in Staff, NEW d \in Days,
           ConfirmPayment(s, d) \/ RecordExpense(s, d),
           UNCHANGED purchaseVars
    PROVE  BooksInv'
<1> DEFINE amount == [e \in Days |-> payment[s][e].amount]
           new == Paid(payment[s][d])
<1>1. /\ Book(s, {d}, amount)
      /\ payment' = [payment EXCEPT ![s] = [payment[s] EXCEPT ![d] = new]]
      /\ UNCHANGED <<today, profile, profileEdits, request>>
  BY DEF ConfirmPayment, RecordExpense
<1>2. amount[d] = payment[s][d].amount /\ amount[d] \in Nat
  BY OwedNow DEF Payments
<1>3. /\ new \in Payments /\ new.status = "PAID" /\ new.linked
      /\ new.amount = payment[s][d].amount
  BY OwedNow DEF Paid, Payments
<1> HIDE DEF amount, new
<1>4. payment' \in [Staff -> [Days -> Payments]]
  BY <1>1, <1>3 DEF BooksInv, SalaryTypes
<1>5. \A t \in Staff, e \in Days :
          payment'[t][e] = IF t = s /\ e = d THEN new ELSE payment[t][e]
  BY <1>1 DEF BooksInv, SalaryTypes
<1>6. /\ booked' \in [Generated \cup Keys -> Seq(Nat)]
      /\ \A t \in Staff, e \in Days :
             booked'[<<t, e>>] = IF t = s /\ e \in {d} /\ ~payment[s][e].linked
                                 THEN <<amount[e]>> ELSE booked[<<t, e>>]
      /\ \A o \in Generated \ (Staff \X Days) : booked'[o] = booked[o]
  <2>1. {d} \in SUBSET Days /\ \A e \in {d} : amount[e] \in Nat
    BY <1>2
  <2> QED
    BY <1>1, <2>1, BookEffect
<1>7. \A t \in Staff, e \in Days : booked'[<<t, e>>] = SalaryOwed(payment'[t][e])
  <2> SUFFICES ASSUME NEW t \in Staff, NEW e \in Days
               PROVE  booked'[<<t, e>>] = SalaryOwed(payment'[t][e])
      OBVIOUS
  <2>1. CASE t = s /\ e = d
    <3>1. booked'[<<t, e>>] = IF payment[s][d].linked THEN booked[<<s, d>>]
                              ELSE <<amount[d]>>
      BY <1>6, <2>1
    <3>2. booked'[<<t, e>>] = <<payment[s][d].amount>>
      BY <1>2, <3>1, OwedNow DEF SalaryOwed
    <3>3. payment'[t][e] = new
      BY <1>5, <2>1
    <3> QED
      BY <1>3, <3>2, <3>3 DEF SalaryOwed
  <2>2. CASE ~(t = s /\ e = d)
    <3>1. payment'[t][e] = payment[t][e] /\ booked'[<<t, e>>] = booked[<<t, e>>]
      BY <1>5, <1>6, <2>2
    <3>2. booked[<<t, e>>] = SalaryOwed(payment[t][e])
      BY OwedNow
    <3> QED
      BY <3>1, <3>2
  <2> QED
    BY <2>1, <2>2
<1>8. PaidIsLinked'
  <2> SUFFICES ASSUME NEW t \in Staff, NEW e \in Days
               PROVE  payment'[t][e].linked <=> payment'[t][e].status = "PAID"
      BY DEF PaidIsLinked
  <2> QED
    BY <1>3, <1>5 DEF BooksInv, PaidIsLinked
<1>9. BookedOnce'
  BY <1>6, <1>7, BookedFromPayments
<1> QED
  BY <1>1, <1>4, <1>6, <1>8, <1>9
  DEF BooksInv, ExpenseTypes, SalaryTypes, PurchaseTypes, purchaseVars

(* A batch: members without a payment on that day get one.                 *)
LEMMA CreateKeeps ==
    ASSUME BooksInv, NEW key \in BatchKeys, NEW batch \in SUBSET Staff,
           NEW d \in Days, NEW status \in {"PENDING", "PAID"},
           NEW handling \in Handlings, NEW amount \in Entered \cup {0},
           CreatePayments(key, batch, d, status, handling, amount),
           UNCHANGED purchaseVars
    PROVE  BooksInv'
<1> DEFINE due(s) == IF amount > 0 THEN amount ELSE profile[s].amount
           new(s) == [status |-> status, handling |-> handling,
                      amount |-> due(s), key |-> key, linked |-> status = "PAID"]
<1>1. /\ \A s \in batch : ~Exists(s, d)
      /\ payment' = [s \in Staff |->
                       IF s \notin batch THEN payment[s]
                       ELSE [payment[s] EXCEPT ![d] = new(s)]]
      /\ booked' = [o \in DOMAIN booked |->
                      IF status = "PAID" /\ o \in batch \X {d}
                      THEN Append(booked[o], due(o[1])) ELSE booked[o]]
      /\ UNCHANGED <<today, profile, profileEdits, request>>
  <2>1. \A o \in batch \X {d} :
            [s \in batch |-> IF amount > 0 THEN amount
                              ELSE profile[s].amount][o[1]] = due(o[1])
    OBVIOUS
  <2>2. \A s \in batch :
            [t \in batch |-> IF amount > 0 THEN amount
                              ELSE profile[t].amount][s] = due(s)
    OBVIOUS
  <2> QED
    BY <2>1, <2>2 DEF CreatePayments
<1>2. \A s \in batch : due(s) \in Nat
  <2>1. \A s \in Staff : profile[s].amount \in Nat
    <3>1. NoProfile.amount = 0
      BY DEF NoProfile
    <3>2. \A p \in Profiles : p.amount \in Nat
      BY SalaryAssumption DEF Profiles
    <3>3. \A s \in Staff : profile[s] \in Profiles \/ profile[s] = NoProfile
      BY DEF BooksInv, SalaryTypes
    <3> QED
      BY <3>1, <3>2, <3>3
  <2>2. amount \in Nat
    BY ExpensesAssumption
  <2> QED
    BY <2>1, <2>2
<1> HIDE DEF due
<1>3. \A s \in batch : /\ new(s) \in Payments
                       /\ new(s).status = status /\ new(s).amount = due(s)
                       /\ new(s).linked <=> status = "PAID"
  BY <1>2 DEF Payments
<1> HIDE DEF new
<1>4. payment \in [Staff -> [Days -> Payments]]
      /\ booked \in [Generated \cup Keys -> Seq(Nat)]
  BY DEF BooksInv, SalaryTypes, ExpenseTypes
<1>5. payment' \in [Staff -> [Days -> Payments]]
  BY <1>1, <1>3, <1>4
<1>6. \A t \in Staff, e \in Days :
          payment'[t][e] = IF t \in batch /\ e = d THEN new(t) ELSE payment[t][e]
  BY <1>1, <1>4
<1>7. booked' \in [Generated \cup Keys -> Seq(Nat)]
  <2>1. \A o \in batch \X {d} : o[1] \in batch
    OBVIOUS
  <2> QED
    BY <1>1, <1>2, <1>4, <2>1
<1>8. \A t \in Staff, e \in Days : booked'[<<t, e>>] = SalaryOwed(payment'[t][e])
  <2> SUFFICES ASSUME NEW t \in Staff, NEW e \in Days
               PROVE  booked'[<<t, e>>] = SalaryOwed(payment'[t][e])
      OBVIOUS
  <2>0. <<t, e>> \in DOMAIN booked /\ booked[<<t, e>>] = SalaryOwed(payment[t][e])
    BY <1>4, OwnersDiffer, OwedNow
  <2>1. CASE t \in batch /\ e = d
    <3>1. booked[<<t, e>>] = <<>>
      BY <1>1, <2>0, <2>1 DEF Exists, SalaryOwed
    <3>2. booked'[<<t, e>>] = IF status = "PAID" THEN <<due(t)>> ELSE <<>>
      <4>1. <<t, e>> \in batch \X {d} /\ <<t, e>>[1] = t
        BY <2>1
      <4>2. Append(<<>>, due(t)) = <<due(t)>>
        OBVIOUS
      <4>3. booked'[<<t, e>>] = IF status = "PAID"
                                THEN Append(booked[<<t, e>>], due(t))
                                ELSE booked[<<t, e>>]
        BY <1>1, <2>0, <4>1
      <4> QED
        BY <3>1, <4>2, <4>3
    <3>3. SalaryOwed(payment'[t][e]) = IF status = "PAID" THEN <<due(t)>> ELSE <<>>
      BY <1>3, <1>6, <2>1 DEF SalaryOwed
    <3> QED
      BY <3>2, <3>3
  <2>2. CASE ~(t \in batch /\ e = d)
    <3>1. payment'[t][e] = payment[t][e] /\ booked'[<<t, e>>] = booked[<<t, e>>]
      BY <1>1, <1>6, <2>0, <2>2
    <3> QED
      BY <2>0, <3>1
  <2> QED
    BY <2>1, <2>2
<1>9. \A o \in Generated \ (Staff \X Days) : booked'[o] = booked[o]
  BY <1>1, <1>4
<1>10. BookedOnce'
  BY <1>8, <1>9, BookedFromPayments
<1>11. PaidIsLinked'
  <2> SUFFICES ASSUME NEW t \in Staff, NEW e \in Days
               PROVE  payment'[t][e].linked <=> payment'[t][e].status = "PAID"
      BY DEF PaidIsLinked
  <2>1. payment[t][e].linked <=> payment[t][e].status = "PAID"
    BY OwedNow
  <2> QED
    BY <1>3, <1>6, <2>1
<1> QED
  BY <1>1, <1>5, <1>7, <1>10, <1>11
  DEF BooksInv, ExpenseTypes, SalaryTypes, PurchaseTypes, purchaseVars

(* Steps that touch no payment.                                            *)
LEMMA ScheduleKeeps ==
    ASSUME BooksInv,
           \/ NextDay
           \/ \E s \in Staff, amount \in Amounts, handling \in Handlings,
                 every \in Frequencies, start \in Days :
                    SetProfile(s, amount, handling, every, start),
           UNCHANGED purchaseVars
    PROVE  BooksInv'
<1>1. UNCHANGED <<payment, expenseVars>> /\ today' \in Days
  BY SalaryAssumption DEF NextDay, SetProfile, Days, BooksInv, SalaryTypes
<1> DEFINE Fine == /\ profileEdits' \in 0..MaxEdits
                   /\ profile' \in [Staff -> Profiles \cup {NoProfile}]
<1>2. Fine
  <2>1. CASE NextDay
    BY <2>1 DEF NextDay, BooksInv, SalaryTypes
  <2>2. ASSUME NEW s \in Staff, NEW amount \in Amounts, NEW handling \in Handlings,
               NEW every \in Frequencies, NEW start \in Days,
               SetProfile(s, amount, handling, every, start)
        PROVE  Fine
    <3> DEFINE next == IF HasProfile(s) /\ profile[s].start = start
                       THEN profile[s].next ELSE start
               new == [amount |-> amount, handling |-> handling, every |-> every,
                       start |-> start, next |-> next]
    <3>1. next \in Nat \ {0}
      BY DEF BooksInv, SalaryTypes, HasProfile, Profiles, NoProfile, Days
    <3>2. new \in Profiles
      BY <3>1 DEF Profiles
    <3>3. profile' = [profile EXCEPT ![s] = new]
      BY <2>2 DEF SetProfile
    <3>4. profileEdits' \in 0..MaxEdits
      BY <2>2, SalaryAssumption DEF SetProfile, BooksInv, SalaryTypes
    <3> QED
      BY <3>2, <3>3, <3>4 DEF BooksInv, SalaryTypes
  <2> QED
    BY <2>1, <2>2
<1>3. BookedOnce'
  BY <1>1 DEF BooksInv, BookedOnce, Owed, expenseVars, purchaseVars
<1> QED
  BY <1>1, <1>2, <1>3
  DEF BooksInv, ExpenseTypes, SalaryTypes, PurchaseTypes, PaidIsLinked,
      expenseVars, purchaseVars

-----------------------------------------------------------------------------
(* The days a member is due, and where the cursor ends.                    *)
LEMMA DueMember ==
    ASSUME BooksInv, NEW s \in Staff, Due(s)
    PROVE  /\ profile[s] \in Profiles
           /\ profile[s].every \in Nat \ {0} /\ profile[s].next \in Nat \ {0}
           /\ profile[s].amount \in Nat /\ profile[s].handling \in Handlings
           /\ DueDays(s) \in SUBSET Days
           /\ IsFiniteSet(Periods(s)) /\ Cardinality(Periods(s)) \in Nat
           /\ Cursor(s) \in Nat \ {0}
<1>1. profile[s] \in Profiles
  BY DEF BooksInv, SalaryTypes, Due, HasProfile, NoProfile
<1>2. /\ profile[s].every \in Nat \ {0} /\ profile[s].next \in Nat \ {0}
      /\ profile[s].amount \in Nat /\ profile[s].handling \in Handlings
  BY <1>1, SalaryAssumption DEF Profiles
<1>3. \A i \in Nat : i * profile[s].every \in Nat
  BY <1>2
<1>4. today \in Nat /\ today <= LastDay /\ LastDay \in Nat
  BY SalaryAssumption DEF BooksInv, SalaryTypes, Days
<1>5. DueDays(s) \in SUBSET Days
  <2> SUFFICES ASSUME NEW i \in Periods(s)
               PROVE  profile[s].next + i * profile[s].every \in Days
      BY DEF DueDays
  <2>1. i \in Nat /\ profile[s].next + i * profile[s].every <= today
    BY SalaryAssumption DEF Periods
  <2> DEFINE x == i * profile[s].every
  <2>2. x \in Nat /\ profile[s].next + x <= today
    BY <1>3, <2>1
  <2> HIDE DEF x
  <2>3. profile[s].next + x \in 1..LastDay
    BY <1>2, <1>4, <2>2
  <2> QED
    BY <2>3 DEF Days, x
<1>6. IsFiniteSet(Periods(s)) /\ Cardinality(Periods(s)) \in Nat
  <2>1. Periods(s) \in SUBSET (0..MaxPeriods - 1)
    BY DEF Periods
  <2>2. MaxPeriods - 1 \in Int /\ 0 \in Int
    BY SalaryAssumption
  <2>3. IsFiniteSet(0..MaxPeriods - 1)
    BY <2>2, FS_Interval
  <2>4. IsFiniteSet(Periods(s))
    BY <2>1, <2>3, FS_Subset
  <2> QED
    BY <2>4, FS_CardinalityType
<1>7. Cursor(s) \in Nat \ {0}
  <2> DEFINE x == Cardinality(Periods(s)) * profile[s].every
  <2>1. x \in Nat
    BY <1>3, <1>6
  <2> HIDE DEF x
  <2>2. profile[s].next + x \in Nat \ {0}
    BY <1>2, <2>1
  <2> QED
    BY <2>2 DEF Cursor, x
<1> QED
  BY <1>1, <1>2, <1>5, <1>6, <1>7

(* What the scheduler makes of a day: with automatic expenses a payment    *)
(* that is paid, of the amount it had if it was there; else what was there,*)
(* or a new obligation.                                                    *)
LEMMA AccruedPayment ==
    ASSUME BooksInv, NEW s \in Staff, Due(s), NEW d \in Days
    PROVE  /\ Accrued(s, d) \in Payments
           /\ Accrued(s, d).linked <=> Accrued(s, d).status = "PAID"
           /\ profile[s].handling = "AUTOMATIC" =>
                  /\ Accrued(s, d).status = "PAID"
                  /\ Exists(s, d) => Accrued(s, d).amount = payment[s][d].amount
           /\ profile[s].handling # "AUTOMATIC" =>
                  SalaryOwed(Accrued(s, d)) = SalaryOwed(payment[s][d])
           /\ Accrued(s, d).status # "NONE"
<1> DEFINE new == [status |-> "PENDING", handling |-> profile[s].handling,
                   amount |-> profile[s].amount, key |-> NoKey, linked |-> FALSE]
           kept == IF Exists(s, d) THEN payment[s][d] ELSE new
<1>1. new \in Payments
  BY DueMember DEF Payments
<1>2. /\ kept \in Payments /\ (kept.linked <=> kept.status = "PAID")
      /\ Exists(s, d) => kept.amount = payment[s][d].amount
      /\ SalaryOwed(kept) = SalaryOwed(payment[s][d])
      /\ kept.status # "NONE"
  BY <1>1, OwedNow DEF Exists, SalaryOwed
<1>3. Accrued(s, d) = IF profile[s].handling = "AUTOMATIC" THEN Paid(kept) ELSE kept
  BY DEF Accrued
<1> HIDE DEF kept
<1>4. /\ Paid(kept) \in Payments /\ Paid(kept).linked
      /\ Paid(kept).status = "PAID" /\ Paid(kept).amount = kept.amount
  BY <1>2 DEF Paid, Payments
<1> QED
  BY <1>2, <1>3, <1>4

LEMMA AccrueKeeps ==
    ASSUME BooksInv, NEW s \in Staff, Accrue(s), UNCHANGED purchaseVars
    PROVE  BooksInv'
<1> DEFINE days == DueDays(s)
           auto == profile[s].handling = "AUTOMATIC"
           paid == IF auto THEN {d \in days : payment[s][d].status # "PAID"} ELSE {}
           amount == [d \in Days |-> Accrued(s, d).amount]
           new == [d \in Days |-> IF d \in days THEN Accrued(s, d) ELSE payment[s][d]]
<1>1. /\ Due(s) /\ payment' = [payment EXCEPT ![s] = new]
      /\ Book(s, paid, amount)
      /\ profile' = [profile EXCEPT ![s].next = Cursor(s)]
      /\ UNCHANGED <<today, profileEdits, request>>
  BY DEF Accrue, Accruable
<1>2. days \in SUBSET Days /\ paid \in SUBSET Days
  BY <1>1, DueMember
<1>3. \A d \in Days : amount[d] = Accrued(s, d).amount /\ amount[d] \in Nat
  BY <1>1, AccruedPayment DEF Payments
<1>4. new \in [Days -> Payments]
  BY <1>1, AccruedPayment, OwedNow
<1>5. \A d \in Days : new[d] = IF d \in days THEN Accrued(s, d) ELSE payment[s][d]
  OBVIOUS
<1>6. \A d \in paid : auto /\ d \in days /\ payment[s][d].status # "PAID"
  OBVIOUS
<1>7. \A d \in days : auto /\ payment[s][d].status # "PAID" => d \in paid
  OBVIOUS
<1> HIDE DEF paid, amount, new, days
<1>8. /\ booked' \in [Generated \cup Keys -> Seq(Nat)]
      /\ \A t \in Staff, d \in Days :
             booked'[<<t, d>>] = IF t = s /\ d \in paid /\ ~payment[s][d].linked
                                 THEN <<amount[d]>> ELSE booked[<<t, d>>]
      /\ \A o \in Generated \ (Staff \X Days) : booked'[o] = booked[o]
  <2>1. \A d \in paid : amount[d] \in Nat
    BY <1>2, <1>3
  <2> QED
    BY <1>1, <1>2, <2>1, BookEffect
<1>9. payment \in [Staff -> [Days -> Payments]]
  BY DEF BooksInv, SalaryTypes
<1>10. payment' \in [Staff -> [Days -> Payments]]
       /\ \A t \in Staff, d \in Days :
              payment'[t][d] = IF t = s THEN new[d] ELSE payment[t][d]
  BY <1>1, <1>4, <1>9
<1>11. \A t \in Staff, d \in Days : booked'[<<t, d>>] = SalaryOwed(payment'[t][d])
  <2> SUFFICES ASSUME NEW t \in Staff, NEW d \in Days
               PROVE  booked'[<<t, d>>] = SalaryOwed(payment'[t][d])
      OBVIOUS
  <2>0. booked[<<t, d>>] = SalaryOwed(payment[t][d])
    BY OwedNow
  <2>1. CASE t # s
    <3>1. payment'[t][d] = payment[t][d] /\ booked'[<<t, d>>] = booked[<<t, d>>]
      BY <1>8, <1>10, <2>1
    <3> QED
      BY <2>0, <3>1
  <2>2. CASE t = s /\ d \in paid
    <3>1. auto /\ d \in days /\ ~payment[s][d].linked
      BY <1>6, <2>2, OwedNow
    <3>2. booked'[<<t, d>>] = <<amount[d]>>
      BY <1>8, <2>2, <3>1
    <3>3. payment'[t][d] = Accrued(s, d)
      BY <1>5, <1>10, <2>2, <3>1
    <3>4. Accrued(s, d).status = "PAID"
      BY <1>1, <3>1, AccruedPayment
    <3> QED
      BY <1>3, <3>2, <3>3, <3>4 DEF SalaryOwed
  <2>3. CASE t = s /\ d \notin paid
    <3>1. booked'[<<t, d>>] = SalaryOwed(payment[s][d])
      BY <1>8, <2>0, <2>3
    <3>2. CASE d \notin days
      BY <1>5, <1>10, <2>3, <3>1, <3>2
    <3>3. CASE d \in days /\ ~auto
      <4>1. payment'[t][d] = Accrued(s, d)
        BY <1>5, <1>10, <2>3, <3>3
      <4>2. SalaryOwed(Accrued(s, d)) = SalaryOwed(payment[s][d])
        BY <1>1, <3>3, AccruedPayment
      <4> QED
        BY <3>1, <4>1, <4>2
    <3>4. CASE d \in days /\ auto
      <4>1. payment[s][d].status = "PAID"
        BY <1>7, <2>3, <3>4
      <4>2. payment'[t][d] = Accrued(s, d)
        BY <1>5, <1>10, <2>3, <3>4
      <4>3. /\ Accrued(s, d).status = "PAID"
            /\ Accrued(s, d).amount = payment[s][d].amount
        BY <1>1, <3>4, <4>1, AccruedPayment DEF Exists
      <4> QED
        BY <3>1, <4>1, <4>2, <4>3 DEF SalaryOwed
    <3> QED
      BY <3>2, <3>3, <3>4
  <2> QED
    BY <2>1, <2>2, <2>3
<1>12. PaidIsLinked'
  <2> SUFFICES ASSUME NEW t \in Staff, NEW d \in Days
               PROVE  payment'[t][d].linked <=> payment'[t][d].status = "PAID"
      BY DEF PaidIsLinked
  <2>1. Accrued(s, d).linked <=> Accrued(s, d).status = "PAID"
    BY <1>1, AccruedPayment
  <2>2. payment[t][d].linked <=> payment[t][d].status = "PAID"
    BY OwedNow
  <2> QED
    BY <1>5, <1>10, <2>1, <2>2
<1>13. BookedOnce'
  BY <1>8, <1>11, BookedFromPayments
<1>14. profile' \in [Staff -> Profiles \cup {NoProfile}]
  <2>1. [profile[s] EXCEPT !.next = Cursor(s)] \in Profiles
    BY <1>1, DueMember DEF Profiles
  <2> QED
    BY <1>1, <2>1 DEF BooksInv, SalaryTypes
<1> QED
  BY <1>1, <1>8, <1>10, <1>12, <1>13, <1>14
  DEF BooksInv, ExpenseTypes, SalaryTypes, PurchaseTypes, purchaseVars

-----------------------------------------------------------------------------
(* The steps of purchases leave salaries alone: what they book is theirs.  *)
LEMMA PaymentsUndisturbed ==
    ASSUME BooksInv, UNCHANGED salaryVars
    PROVE  /\ SalaryTypes' /\ PaidIsLinked'
           /\ \A o \in Staff \X Days : Owed(o)' = Owed(o)
BY DEF BooksInv, SalaryTypes, PaidIsLinked, Owed, salaryVars

LEMMA CostIsNat ==
    ASSUME NEW quantity \in Nat, NEW price \in Nat
    PROVE  Cost(quantity, price) \in Nat
BY DEF Cost

(* A purchase entered, changed or deleted has its one expense, or none.    *)
LEMMA PurchaseRowKeeps ==
    ASSUME BooksInv, NEW r \in Manual, NEW row \in PurchaseRows,
           purchase' = [purchase EXCEPT ![r] = row],
           booked' = [booked EXCEPT ![r] =
                         IF row.state = "live"
                         THEN <<Cost(row.quantity, row.price)>> ELSE <<>>],
           UNCHANGED <<salaryVars, delivery, held, used, request>>,
           onHand' \in Int, onHand' >= held
    PROVE  BooksInv'
<1>1. Cost(row.quantity, row.price) \in Nat
  <2>1. row.quantity \in Nat /\ row.price \in Nat
    <3>1. MaxQuantity \in Nat /\ Prices \cup {0} \subseteq Nat
      BY PurchasesAssumption
    <3>2. row.quantity \in 0..MaxQuantity /\ row.price \in Prices \cup {0}
      BY DEF PurchaseRows
    <3> QED
      BY <3>1, <3>2
  <2> QED
    BY <2>1, CostIsNat
<1>2. ExpenseTypes'
  BY <1>1, OwnersDiffer DEF BooksInv, ExpenseTypes
<1>3. PurchaseTypes'
  BY DEF BooksInv, PurchaseTypes
<1>4. BookedOnce'
  <2> SUFFICES ASSUME NEW o \in Generated PROVE booked'[o] = Owed(o)'
      BY DEF BookedOnce
  <2>0. booked[o] = Owed(o) /\ o \in DOMAIN booked /\ r \in DOMAIN booked
        /\ purchase \in [Manual -> PurchaseRows]
    BY OwnersDiffer DEF BooksInv, BookedOnce, ExpenseTypes, PurchaseTypes
  <2>1. CASE o = r
    <3>1. purchase'[r] = row
      BY <2>0
    <3>2. booked'[r] = IF row.state = "live"
                       THEN <<Cost(row.quantity, row.price)>> ELSE <<>>
      BY <2>0
    <3>3. r \notin Staff \X Days
      BY OwnersDiffer
    <3> QED
      BY <2>1, <3>1, <3>2, <3>3 DEF Owed
  <2>2. CASE o # r
    <3>1. booked'[o] = booked[o]
      BY <2>0, <2>2
    <3>2. CASE o \in Staff \X Days
      BY <2>0, <3>1, <3>2, PaymentsUndisturbed
    <3>3. CASE o \in Manual /\ o \notin Staff \X Days
      <4>1. purchase'[o] = purchase[o]
        BY <2>0, <2>2, <3>3
      <4> QED
        BY <2>0, <3>1, <3>3, <4>1 DEF Owed
    <3>4. CASE o \notin Manual /\ o \notin Staff \X Days
      BY <2>0, <3>1, <3>4 DEF Owed
    <3> QED
      BY <3>2, <3>3, <3>4
  <2> QED
    BY <2>1, <2>2
<1> QED
  BY <1>2, <1>3, <1>4, PaymentsUndisturbed DEF BooksInv

LEMMA ManualKeeps ==
    ASSUME BooksInv, NEW r \in Manual, UNCHANGED salaryVars,
           \/ \E quantity \in 1..MaxQuantity, price \in Prices :
                 \/ \E stocked \in BOOLEAN : CreatePurchase(r, quantity, price, stocked)
                 \/ UpdatePurchase(r, quantity, price)
           \/ RemovePurchase(r)
    PROVE  BooksInv'
<1>0. /\ purchase[r] \in PurchaseRows /\ purchase \in [Manual -> PurchaseRows]
      /\ onHand \in Int /\ held \in Nat
      /\ booked[r] = Owed(r)
      /\ r \notin Staff \X Days
  BY OwnersDiffer DEF BooksInv, PurchaseTypes, BookedOnce
<1>00. MaxQuantity \in Nat /\ Prices \subseteq Nat
  BY PurchasesAssumption
<1>1. ASSUME NEW quantity \in 1..MaxQuantity, NEW price \in Prices,
             NEW stocked \in BOOLEAN, CreatePurchase(r, quantity, price, stocked)
      PROVE  BooksInv'
  <2> DEFINE row == [state |-> "live", quantity |-> quantity, price |-> price,
                     stocked |-> stocked]
  <2>1. row \in PurchaseRows /\ row.state = "live"
        /\ row.quantity = quantity /\ row.price = price
    BY <1>00 DEF PurchaseRows
  <2>2. booked[r] = <<>>
    BY <1>0, <1>1 DEF CreatePurchase, Owed
  <2>3. /\ purchase' = [purchase EXCEPT ![r] = row]
        /\ booked' = [booked EXCEPT ![r] = <<Cost(quantity, price)>>]
        /\ UNCHANGED <<delivery, held, used, request>>
    <3>1. Append(booked[r], Cost(quantity, price)) = <<Cost(quantity, price)>>
      BY <2>2
    <3> QED
      BY <1>1, <3>1 DEF CreatePurchase
  <2>4. onHand' \in Int /\ onHand' >= held
    BY <1>0, <1>00, <1>1 DEF CreatePurchase, MoveOnHand
  <2> HIDE DEF row
  <2> QED
    BY <2>1, <2>3, <2>4, PurchaseRowKeeps
<1>2. ASSUME NEW quantity \in 1..MaxQuantity, NEW price \in Prices,
             UpdatePurchase(r, quantity, price)
      PROVE  BooksInv'
  <2> DEFINE row == [state |-> "live", quantity |-> quantity, price |-> price,
                     stocked |-> purchase[r].stocked]
  <2>1. row \in PurchaseRows /\ row.state = "live"
        /\ row.quantity = quantity /\ row.price = price
    BY <1>0, <1>00 DEF PurchaseRows
  <2>2. [[purchase[r] EXCEPT !.quantity = quantity] EXCEPT !.price = price] = row
    <3> DEFINE p == [state |-> "live", quantity |-> quantity,
                     price |-> purchase[r].price, stocked |-> purchase[r].stocked]
    <3>1. purchase[r].state = "live"
      BY <1>2 DEF UpdatePurchase
    <3>2. [purchase[r] EXCEPT !.quantity = quantity] = p
      BY <1>0, <3>1 DEF PurchaseRows
    <3>3. [p EXCEPT !.price = price] = row
      OBVIOUS
    <3> QED
      BY <3>2, <3>3
  <2>3. /\ purchase' = [purchase EXCEPT ![r] = row]
        /\ booked' = [booked EXCEPT ![r] = <<Cost(quantity, price)>>]
        /\ UNCHANGED <<delivery, held, used, request>>
    BY <1>0, <1>2, <2>2 DEF UpdatePurchase
  <2>4. onHand' \in Int /\ onHand' >= held
    <3>1. Change(r, quantity) \in Int
      BY <1>0, <1>00 DEF Change, PurchaseRows
    <3>2. MoveOnHand(Change(r, quantity))
      BY <1>2 DEF UpdatePurchase
    <3> QED
      BY <1>0, <3>1, <3>2 DEF MoveOnHand
  <2> HIDE DEF row
  <2> QED
    BY <2>1, <2>3, <2>4, PurchaseRowKeeps
<1>3. ASSUME RemovePurchase(r)
      PROVE  BooksInv'
  <2> DEFINE row == [purchase[r] EXCEPT !.state = "deleted"]
  <2>1. row \in PurchaseRows /\ row.state = "deleted"
    BY <1>0 DEF PurchaseRows
  <2>3. /\ purchase' = [purchase EXCEPT ![r] = row]
        /\ booked' = [booked EXCEPT ![r] = <<>>]
        /\ UNCHANGED <<delivery, held, used, request>>
    BY <1>3 DEF RemovePurchase
  <2>4. onHand' \in Int /\ onHand' >= held
    BY <1>0, <1>00, <1>3 DEF RemovePurchase, MoveOnHand, Change, PurchaseRows
  <2> HIDE DEF row
  <2> QED
    BY <2>1, <2>3, <2>4, PurchaseRowKeeps
<1> QED
  BY <1>1, <1>2, <1>3

(* A delivery is booked when it is recorded, and never again.              *)
LEMMA DeliveryKeeps ==
    ASSUME BooksInv, NEW i \in Delivered, UNCHANGED salaryVars,
           RecordDelivery(i) \/ CreditDelivery(i) \/ LoseCredit(i)
    PROVE  BooksInv'
<1>0. /\ booked \in [Generated \cup Keys -> Seq(Nat)]
      /\ delivery \in [Delivered -> {"ordered", "recorded", "credited", "uncredited"}]
      /\ \A o \in Generated : booked[o] = Owed(o)
      /\ ShopCost \in Nat /\ ShopQuantity \in Nat
  BY PurchasesAssumption DEF BooksInv, ExpenseTypes, PurchaseTypes, BookedOnce
<1>1. CASE RecordDelivery(i)
  <2>1. booked[i] = <<>>
    BY <1>0, <1>1, OwnersDiffer DEF RecordDelivery, Owed
  <2>2. booked' = [booked EXCEPT ![i] = <<ShopCost>>]
    <3>1. Append(booked[i], ShopCost) = <<ShopCost>>
      BY <2>1
    <3> QED
      BY <1>1, <3>1 DEF RecordDelivery
  <2>3. delivery' = [delivery EXCEPT ![i] = "recorded"]
        /\ UNCHANGED <<purchase, onHand, held, used, request>>
    BY <1>1 DEF RecordDelivery
  <2>4. ExpenseTypes'
    <3>1. <<ShopCost>> \in Seq(Nat) /\ i \in Generated \cup Keys
      BY <1>0, OwnersDiffer
    <3> QED
      BY <1>0, <2>2, <2>3, <3>1 DEF BooksInv, ExpenseTypes
  <2>5. PurchaseTypes'
    BY <2>3 DEF BooksInv, PurchaseTypes
  <2>6. BookedOnce'
    <3> SUFFICES ASSUME NEW o \in Generated PROVE booked'[o] = Owed(o)'
        BY DEF BookedOnce
    <3>1. CASE o = i
      <4>1. booked'[i] = <<ShopCost>> /\ delivery'[i] = "recorded"
        BY <1>0, <2>2, <2>3, OwnersDiffer
      <4> QED
        BY <3>1, <4>1, OwnersDiffer DEF Owed
    <3>2. CASE o # i
      <4>1. booked'[o] = Owed(o)
        BY <1>0, <2>2, <3>2
      <4>2. o \in Delivered => delivery'[o] = delivery[o]
        BY <1>0, <2>3, <3>2
      <4> QED
        BY <2>3, <4>1, <4>2, PaymentsUndisturbed DEF Owed
    <3> QED
      BY <3>1, <3>2
  <2> QED
    BY <2>4, <2>5, <2>6, PaymentsUndisturbed DEF BooksInv
<1>2. CASE CreditDelivery(i) \/ LoseCredit(i)
  <2>1. /\ delivery[i] = "recorded"
        /\ \/ delivery' = [delivery EXCEPT ![i] = "credited"]
           \/ delivery' = [delivery EXCEPT ![i] = "uncredited"]
        /\ onHand' = onHand + ShopQuantity \/ onHand' = onHand
        /\ UNCHANGED <<purchase, held, used, booked, request>>
    BY <1>2 DEF CreditDelivery, LoseCredit, expenseVars
  <2>2. PurchaseTypes'
    BY <1>0, <2>1 DEF BooksInv, PurchaseTypes
  <2>3. \A o \in Delivered : delivery'[o] # "ordered" <=> delivery[o] # "ordered"
    BY <1>0, <2>1
  <2>4. BookedOnce'
    <3> SUFFICES ASSUME NEW o \in Generated PROVE booked'[o] = Owed(o)'
        BY DEF BookedOnce
    <3>1. Owed(o)' = Owed(o)
      BY <2>1, <2>3, PaymentsUndisturbed DEF Owed
    <3> QED
      BY <1>0, <2>1, <3>1
  <2> QED
    BY <2>1, <2>2, <2>4, PaymentsUndisturbed DEF BooksInv, ExpenseTypes
<1> QED
  BY <1>1, <1>2

(* Orders hold stock only while it covers what is held.                    *)
LEMMA StockKeeps ==
    ASSUME BooksInv, UNCHANGED salaryVars,
           Hold \/ \E consumed \in {0, 1} : Release(consumed)
    PROVE  BooksInv'
<1>1. UNCHANGED <<purchase, delivery, booked, request>>
  BY DEF Hold, Release, expenseVars
<1>2. PurchaseTypes'
  BY DEF BooksInv, PurchaseTypes, Hold, Release
<1>3. BookedOnce'
  <2> SUFFICES ASSUME NEW o \in Generated PROVE booked'[o] = Owed(o)'
      BY DEF BookedOnce
  <2>1. Owed(o)' = Owed(o)
    BY <1>1, PaymentsUndisturbed DEF Owed
  <2> QED
    BY <1>1, <2>1 DEF BooksInv, BookedOnce
<1> QED
  BY <1>1, <1>2, <1>3, PaymentsUndisturbed DEF BooksInv, ExpenseTypes

LEMMA BooksInvNext ==
    ASSUME BooksInv, [BooksNext]_booksVars
    PROVE  BooksInv'
<1>1. CASE ExpenseStep /\ UNCHANGED <<salaryVars, purchaseVars>>
  BY <1>1, ExpenseKeeps
<1>2. CASE SalaryStep /\ UNCHANGED purchaseVars
  BY <1>2, ScheduleKeeps, CreateKeeps, PayKeeps, AccrueKeeps
  DEF SalaryStep, BatchStep, OwnerStep
<1>3. CASE PurchaseStep /\ UNCHANGED salaryVars
  BY <1>3, ManualKeeps, DeliveryKeeps, StockKeeps DEF PurchaseStep
<1>4. CASE UNCHANGED booksVars
  <2>1. UNCHANGED <<salaryVars, purchase, delivery, onHand, held, used,
                    booked, request>>
    BY <1>4 DEF booksVars, purchaseVars, expenseVars
  <2>2. BookedOnce'
    <3> SUFFICES ASSUME NEW o \in Generated PROVE booked'[o] = Owed(o)'
        BY DEF BookedOnce
    <3>1. Owed(o)' = Owed(o)
      BY <2>1, PaymentsUndisturbed DEF Owed
    <3> QED
      BY <2>1, <3>1 DEF BooksInv, BookedOnce
  <2> QED
    BY <2>1, <2>2, PaymentsUndisturbed DEF BooksInv, ExpenseTypes, PurchaseTypes
<1> QED
  BY <1>1, <1>2, <1>3, <1>4 DEF BooksNext

-----------------------------------------------------------------------------
(* The days that are due are the first ones: with one, all before it.      *)
LEMMA DueInOrder ==
    ASSUME BooksInv, NEW s \in Staff, Due(s), NEW i \in Nat,
           i < Cardinality(Periods(s))
    PROVE  i \in Periods(s)
<1> DEFINE every == profile[s].every
           next == profile[s].next
<1>0. every \in Nat /\ next \in Nat /\ today \in Nat /\ MaxPeriods \in Nat
  BY DueMember, SalaryAssumption DEF BooksInv, SalaryTypes, Days
<1> SUFFICES ASSUME i \notin Periods(s) PROVE FALSE
    OBVIOUS
<1>1. \A j \in Periods(s) : j \in Nat /\ j < i
  <2> SUFFICES ASSUME NEW j \in Periods(s), i <= j PROVE FALSE
      BY <1>0 DEF Periods
  <2>1. j \in 0..MaxPeriods - 1 /\ next + j * every <= today
    BY DEF Periods
  <2>2. i \in 0..MaxPeriods - 1
    BY <1>0, <2>1
  <2>3. i * every \in Nat /\ j * every \in Nat /\ i * every <= j * every
    <3>1. PICK k \in Nat : j = i + k
      <4>1. j - i \in Nat /\ j = i + (j - i)
        BY <1>0, <2>1
      <4> QED
        BY <4>1
    <3>2. j * every = i * every + k * every
      BY <1>0, <3>1
    <3>3. i * every \in Nat /\ k * every \in Nat
      BY <1>0
    <3> QED
      BY <3>2, <3>3
  <2> DEFINE x == i * every
             y == j * every
  <2>4. next + x <= today
    <3>1. x \in Nat /\ y \in Nat /\ x <= y /\ next + y <= today
      BY <2>1, <2>3
    <3> HIDE DEF x, y, next
    <3> QED
      BY <1>0, <3>1
  <2> QED
    BY <2>2, <2>4 DEF Periods
<1>2. Periods(s) \in SUBSET (0..i - 1)
  BY <1>1
<1>3. IsFiniteSet(0..i - 1) /\ Cardinality(0..i - 1) = i
  <2>1. i - 1 \in Int /\ 0 \in Int
    OBVIOUS
  <2>2. Cardinality(0..i - 1) = IF 0 > i - 1 THEN 0 ELSE i - 1 - 0 + 1
    BY <2>1, FS_Interval
  <2> QED
    BY <2>1, <2>2, FS_Interval
<1>4. Cardinality(Periods(s)) <= i
  BY <1>2, <1>3, FS_Subset
<1> QED
  BY <1>4, DueMember

(* The cursor passes only days that it has given a payment.                *)
LEMMA CursorStep ==
    ASSUME BooksInv, [BooksNext]_booksVars, NEW s \in Staff, HasProfile(s),
           profile'[s].start = profile[s].start, NEW i \in 0..LastDay,
           profile[s].next + i * profile[s].every < profile'[s].next
    PROVE  payment'[s][profile[s].next + i * profile[s].every].status # "NONE"
<1> DEFINE every == profile[s].every
           next == profile[s].next
           x == i * every
<1>0. /\ every \in Nat /\ next \in Nat /\ i \in Nat
      /\ profile[s] \in Profiles /\ profile \in [Staff -> Profiles \cup {NoProfile}]
  <2>1. profile \in [Staff -> Profiles \cup {NoProfile}] /\ NoProfile.amount = 0
    BY DEF BooksInv, SalaryTypes, NoProfile
  <2>2. profile[s] \in Profiles
    BY <2>1 DEF HasProfile
  <2> QED
    <3>1. profile[s].every \in Nat /\ profile[s].next \in Nat
      BY <2>2, SalaryAssumption DEF Profiles
    <3>2. i \in Nat
      BY SalaryAssumption
    <3> QED
      BY <2>1, <2>2, <3>1, <3>2
<1>1. x \in Nat
  BY <1>0
<1>2. profile'[s].next # next
  <2>1. next + x < profile'[s].next
    OBVIOUS
  <2> HIDE DEF x, next
  <2> QED
    BY <1>0, <1>1, <2>1
<1>3. profile'[s] # profile[s]
  BY <1>2
<1>4. CASE SalaryStep
  <2>1. ASSUME NEW t \in Staff, NEW amount \in Amounts, NEW handling \in Handlings,
               NEW e \in Frequencies, NEW start \in Days,
               SetProfile(t, amount, handling, e, start)
        PROVE  FALSE
    <3>1. t = s
      BY <1>0, <1>3, <2>1 DEF SetProfile
    <3>2. profile'[s].start = start
          /\ profile'[s].next = IF HasProfile(s) /\ profile[s].start = start
                                THEN profile[s].next ELSE start
      BY <1>0, <2>1, <3>1 DEF SetProfile
    <3> QED
      BY <1>2, <3>2
  <2>2. PICK t \in Staff : Accrue(t)
    BY ZenonT(30), <1>3, <1>4, <2>1
    DEF SalaryStep, BatchStep, OwnerStep, NextDay, CreatePayments,
        ConfirmPayment, RecordExpense
  <2>3. t = s
    BY <1>0, <1>3, <2>2 DEF Accrue
  <2>4. Due(s) /\ profile'[s].next = Cursor(s)
    BY <1>0, <2>2, <2>3 DEF Accrue, Accruable, Profiles
  <2>5. i < Cardinality(Periods(s))
    <3> DEFINE n == Cardinality(Periods(s))
    <3>1. n \in Nat /\ next + x < next + n * every
      BY <2>4, DueMember DEF Cursor
    <3>2. i >= n => n * every <= i * every
      <4> SUFFICES ASSUME i >= n PROVE n * every <= i * every
          OBVIOUS
      <4>1. PICK k \in Nat : i = n + k
        <5>1. i - n \in Nat /\ i = n + (i - n)
          BY <1>0, <3>1
        <5> QED
          BY <5>1
      <4>2. i * every = n * every + k * every
        BY <1>0, <3>1, <4>1
      <4>3. n * every \in Nat /\ k * every \in Nat
        BY <1>0, <3>1
      <4> QED
        BY <4>2, <4>3
    <3> DEFINE y == n * every
    <3>3. y \in Nat /\ next + x < next + y /\ (i >= n => y <= x)
      BY <1>0, <3>1, <3>2
    <3> HIDE DEF x, y, n, next
    <3> QED
      BY <1>0, <1>1, <3>1, <3>3 DEF n
  <2>6. i \in Periods(s)
    BY <1>0, <2>4, <2>5, DueInOrder
  <2> DEFINE d == next + x
  <2>7. d \in DueDays(s) /\ d \in Days
    BY <2>4, <2>6, DueMember DEF DueDays
  <2> HIDE DEF d
  <2>8. payment'[s][d] = Accrued(s, d)
    BY <2>2, <2>3, <2>7 DEF Accrue, BooksInv, SalaryTypes
  <2>9. payment'[s][d].status # "NONE"
    BY <2>4, <2>7, <2>8, AccruedPayment
  <2> QED
    BY <2>9 DEF d
<1>5. CASE ~SalaryStep
  BY <1>3, <1>5 DEF BooksNext, booksVars, salaryVars
<1> QED
  BY <1>4, <1>5

-----------------------------------------------------------------------------
(* What purchases brought, and what deliveries were credited.              *)
Purchased(rows) == SumFunctionOnSet([r \in Manual |-> Brought(rows[r])], Manual)
Credited(items) == ShopQuantity * Cardinality({i \in Delivered : items[i] = "credited"})

(* One row changes, and with it what purchases brought.                    *)
LEMMA PurchasedChange ==
    ASSUME NEW rows, rows \in [Manual -> PurchaseRows], NEW r \in Manual,
           NEW row, row \in PurchaseRows
    PROVE  /\ Purchased(rows) \in Int
           /\ Purchased([rows EXCEPT ![r] = row]) =
                  Purchased(rows) - Brought(rows[r]) + Brought(row)
<1> DEFINE was == [m \in Manual |-> Brought(rows[m])]
           now == [m \in Manual |-> Brought([rows EXCEPT ![r] = row][m])]
<1>1. \A p \in PurchaseRows : Brought(p) \in Int
  <2>1. MaxQuantity \in Nat
    BY PurchasesAssumption
  <2> QED
    BY <2>1 DEF Brought, PurchaseRows
<1>2. \A m \in Manual : was[m] \in Int
  BY <1>1
<1>3. now[r] = Brought(row)
  OBVIOUS
<1>30. now[r] \in Int
  BY <1>1, <1>3
<1>4. \A m \in Manual \ {r} : now[m] = was[m]
  OBVIOUS
<1>5. was[r] = Brought(rows[r])
  OBVIOUS
<1>6. IsFiniteSet(Manual)
  BY PurchasesAssumption
<1>7. Purchased(rows) = SumFunctionOnSet(was, Manual)
      /\ Purchased([rows EXCEPT ![r] = row]) = SumFunctionOnSet(now, Manual)
  BY DEF Purchased
<1> HIDE DEF was, now
<1>8. SumFunctionOnSet(was, Manual) \in Int
  BY <1>2, <1>6, SumType
<1>9. SumFunctionOnSet(now, Manual) = SumFunctionOnSet(was, Manual) - was[r] + now[r]
  BY ONLY <1>2, <1>30, <1>4, <1>6, r \in Manual, SumUpdate
<1> QED
  BY <1>3, <1>5, <1>7, <1>8, <1>9

(* A delivery that is credited brings one quantity more.                   *)
LEMMA CreditedChange ==
    ASSUME NEW items, DOMAIN items = Delivered, NEW i \in Delivered,
           items[i] = "recorded"
    PROVE  /\ Credited(items) \in Int
           /\ Credited([items EXCEPT ![i] = "credited"]) = Credited(items) + ShopQuantity
           /\ \A state \in {"ordered", "recorded", "uncredited"} :
                 Credited([items EXCEPT ![i] = state]) = Credited(items)
<1> DEFINE C == {d \in Delivered : items[d] = "credited"}
<1>1. IsFiniteSet(C)
  BY PurchasesAssumption, FS_Subset
<1>2. Cardinality(C) \in Nat
  BY <1>1, FS_CardinalityType
<1>3. Cardinality(C \cup {i}) = Cardinality(C) + 1
  BY <1>1, FS_AddElement
<1>4. {d \in Delivered : [items EXCEPT ![i] = "credited"][d] = "credited"} = C \cup {i}
  OBVIOUS
<1>5. \A state \in {"ordered", "recorded", "uncredited"} :
          {d \in Delivered : [items EXCEPT ![i] = state][d] = "credited"} = C
  OBVIOUS
<1>6. Credited(items) = ShopQuantity * Cardinality(C)
  BY DEF Credited
<1>7. Credited([items EXCEPT ![i] = "credited"]) = ShopQuantity * Cardinality(C \cup {i})
  BY <1>4 DEF Credited
<1>8. \A state \in {"ordered", "recorded", "uncredited"} :
          Credited([items EXCEPT ![i] = state]) = ShopQuantity * Cardinality(C)
  BY <1>5 DEF Credited
<1> HIDE DEF C
<1>9. ShopQuantity \in Nat
  BY PurchasesAssumption
<1>10. ShopQuantity * (Cardinality(C) + 1) = ShopQuantity * Cardinality(C) + ShopQuantity
  BY <1>2, <1>9
<1> QED
  BY <1>2, <1>3, <1>6, <1>7, <1>8, <1>9, <1>10

(* Every step moves the stock by what it brings and uses.                  *)
LEMMA OnHandInit == BooksInit => OnHandExplained
<1> SUFFICES ASSUME BooksInit PROVE OnHandExplained
    OBVIOUS
<1> DEFINE f == [r \in Manual |-> Brought(purchase[r])]
<1>1. \A r \in Manual : f[r] = 0
  BY DEF BooksInit, PurchasesInit, NoPurchase, Brought
<1>2. {i \in Delivered : delivery[i] = "credited"} = {}
  BY DEF BooksInit, PurchasesInit
<1>3. Cardinality({}) = 0
  BY FS_EmptySet
<1>4. SumFunctionOnSet(f, Manual) = 0
  <2> HIDE DEF f
  <2> QED
    BY <1>1, PurchasesAssumption, SumOfZeros
<1>5. ShopQuantity * 0 = 0 /\ onHand = 0 /\ used = 0
  BY PurchasesAssumption DEF BooksInit, PurchasesInit
<1> QED
  BY <1>2, <1>3, <1>4, <1>5 DEF OnHandExplained

LEMMA OnHandNext ==
    ASSUME BooksInv, OnHandExplained, [BooksNext]_booksVars
    PROVE  OnHandExplained'
<1>0. /\ purchase \in [Manual -> PurchaseRows]
      /\ delivery \in [Delivered -> {"ordered", "recorded", "credited", "uncredited"}]
      /\ used \in Nat /\ onHand \in Int /\ held \in Nat
      /\ onHand + used = Purchased(purchase) + Credited(delivery)
      /\ ShopQuantity \in Nat /\ MaxQuantity \in Nat
  BY PurchasesAssumption
  DEF BooksInv, PurchaseTypes, OnHandExplained, Purchased, Credited
<1>1. SUFFICES onHand' + used' = Purchased(purchase') + Credited(delivery')
  BY DEF OnHandExplained, Purchased, Credited
<1>2. CASE UNCHANGED purchaseVars
  BY <1>0, <1>2 DEF purchaseVars
<1>3. Credited(delivery) \in Int
  <2>1. IsFiniteSet({i \in Delivered : delivery[i] = "credited"})
    BY PurchasesAssumption, FS_Subset
  <2>2. Cardinality({i \in Delivered : delivery[i] = "credited"}) \in Nat
    BY <2>1, FS_CardinalityType
  <2> QED
    BY <1>0, <2>2 DEF Credited
<1>4. ASSUME NEW r \in Manual, NEW row \in PurchaseRows, NEW delta,
             purchase' = [purchase EXCEPT ![r] = row], MoveOnHand(delta),
             delta = Brought(row) - Brought(purchase[r]),
             UNCHANGED <<delivery, used>>
      PROVE  onHand' + used' = Purchased(purchase') + Credited(delivery')
  <2>1. /\ Purchased(purchase) \in Int
        /\ Purchased(purchase') = Purchased(purchase) - Brought(purchase[r]) + Brought(row)
    BY <1>0, <1>4, PurchasedChange
  <2>2. Brought(row) \in Int /\ Brought(purchase[r]) \in Int
    BY <1>0 DEF Brought, PurchaseRows
  <2>3. onHand' = onHand + delta
    BY <1>4 DEF MoveOnHand
  <2> QED
    BY <1>0, <1>3, <1>4, <2>1, <2>2, <2>3
<1>5. ASSUME NEW r \in Manual, NEW quantity \in 1..MaxQuantity, NEW price \in Prices,
             NEW stocked \in BOOLEAN, CreatePurchase(r, quantity, price, stocked)
      PROVE  onHand' + used' = Purchased(purchase') + Credited(delivery')
  <2> DEFINE row == [state |-> "live", quantity |-> quantity, price |-> price,
                     stocked |-> stocked]
             delta == IF stocked THEN quantity ELSE 0
  <2>1. row \in PurchaseRows
    BY <1>0 DEF PurchaseRows
  <2>2. delta = Brought(row) - Brought(purchase[r])
    <3>1. purchase[r].state = "none"
      BY <1>5 DEF CreatePurchase
    <3> QED
      BY <1>0, <3>1 DEF Brought
  <2>3. /\ purchase' = [purchase EXCEPT ![r] = row] /\ MoveOnHand(delta)
        /\ UNCHANGED <<delivery, used>>
    BY <1>5 DEF CreatePurchase
  <2> HIDE DEF row, delta
  <2> QED
    BY <1>4, <2>1, <2>2, <2>3
<1>6. ASSUME NEW r \in Manual, NEW quantity \in 1..MaxQuantity, NEW price \in Prices,
             UpdatePurchase(r, quantity, price)
      PROVE  onHand' + used' = Purchased(purchase') + Credited(delivery')
  <2> DEFINE half == [purchase[r] EXCEPT !.quantity = quantity]
             row == [half EXCEPT !.price = price]
             delta == Change(r, quantity)
  <2>1. half \in PurchaseRows /\ half.quantity = quantity
        /\ half.state = purchase[r].state /\ half.stocked = purchase[r].stocked
    BY <1>0 DEF PurchaseRows
  <2>2. row \in PurchaseRows /\ row.quantity = half.quantity
        /\ row.state = half.state /\ row.stocked = half.stocked
    <3> HIDE DEF half
    <3> QED
      BY <1>0, <2>1 DEF PurchaseRows
  <2>3. /\ purchase' = [purchase EXCEPT ![r] = row] /\ MoveOnHand(delta)
        /\ UNCHANGED <<delivery, used>> /\ purchase[r].state = "live"
    BY <1>0, <1>6 DEF UpdatePurchase
  <2> HIDE DEF row, half
  <2>4. delta = Brought(row) - Brought(purchase[r])
    BY <1>0, <2>1, <2>2, <2>3 DEF Brought, Change, PurchaseRows
  <2> HIDE DEF delta
  <2> QED
    BY <1>4, <2>2, <2>3, <2>4
<1>7. ASSUME NEW r \in Manual, RemovePurchase(r)
      PROVE  onHand' + used' = Purchased(purchase') + Credited(delivery')
  <2> DEFINE row == [purchase[r] EXCEPT !.state = "deleted"]
             delta == Change(r, 0)
  <2>1. row \in PurchaseRows /\ row.state = "deleted"
    BY <1>0 DEF PurchaseRows
  <2>2. /\ purchase' = [purchase EXCEPT ![r] = row] /\ MoveOnHand(delta)
        /\ UNCHANGED <<delivery, used>> /\ purchase[r].state = "live"
    BY <1>7 DEF RemovePurchase
  <2> HIDE DEF row
  <2>3. delta = Brought(row) - Brought(purchase[r])
    BY <1>0, <2>1, <2>2 DEF Brought, Change, PurchaseRows
  <2> HIDE DEF delta
  <2> QED
    BY <1>4, <2>1, <2>2, <2>3
<1>8. Purchased(purchase) \in Int
  <2> DEFINE f == [r \in Manual |-> Brought(purchase[r])]
  <2>1. \A r \in Manual : f[r] \in Int
    BY <1>0 DEF Brought, PurchaseRows
  <2>2. IsFiniteSet(Manual) /\ Purchased(purchase) = SumFunctionOnSet(f, Manual)
    BY PurchasesAssumption DEF Purchased
  <2> HIDE DEF f
  <2> QED
    BY <2>1, <2>2, SumType
<1>9. ASSUME NEW i \in Delivered, RecordDelivery(i)
      PROVE  onHand' + used' = Purchased(purchase') + Credited(delivery')
  <2>1. {d \in Delivered : delivery'[d] = "credited"}
            = {d \in Delivered : delivery[d] = "credited"}
    BY <1>0, <1>9 DEF RecordDelivery
  <2>2. UNCHANGED <<onHand, used, purchase>>
    BY <1>9 DEF RecordDelivery
  <2> QED
    BY <1>0, <2>1, <2>2 DEF Credited
<1>10. ASSUME NEW i \in Delivered, CreditDelivery(i) \/ LoseCredit(i)
       PROVE  onHand' + used' = Purchased(purchase') + Credited(delivery')
  <2>1. DOMAIN delivery = Delivered /\ delivery[i] = "recorded"
        /\ UNCHANGED <<purchase, used>>
    BY <1>0, <1>10 DEF CreditDelivery, LoseCredit
  <2>2. \/ onHand' = onHand + ShopQuantity
              /\ delivery' = [delivery EXCEPT ![i] = "credited"]
        \/ onHand' = onHand
              /\ delivery' = [delivery EXCEPT ![i] = "uncredited"]
    BY <1>10 DEF CreditDelivery, LoseCredit
  <2>3. \/ onHand' = onHand + ShopQuantity
              /\ Credited(delivery') = Credited(delivery) + ShopQuantity
        \/ onHand' = onHand /\ Credited(delivery') = Credited(delivery)
    BY <2>1, <2>2, CreditedChange
  <2> QED
    BY <1>0, <1>3, <1>8, <2>1, <2>3
<1>11. ASSUME Hold \/ \E consumed \in {0, 1} : Release(consumed)
       PROVE  onHand' + used' = Purchased(purchase') + Credited(delivery')
  BY <1>0, <1>11 DEF Hold, Release
<1>12. CASE PurchaseStep
  BY <1>5, <1>6, <1>7, <1>9, <1>10, <1>11, <1>12 DEF PurchaseStep
<1> QED
  BY <1>2, <1>12 DEF BooksNext, booksVars

-----------------------------------------------------------------------------
(* The invariant of expenses, salaries and purchases together.             *)
THEOREM BooksInvariant == BooksSpec => []BooksInv
<1>1. BooksInv /\ [BooksNext]_booksVars => BooksInv'
  BY BooksInvNext
<1> QED
  BY BooksInvInit, <1>1, PTL DEF BooksSpec

(* Types, and moveOnHandInTx never leaves less stock than is held.         *)
THEOREM BooksTypeCorrect == BooksSpec => []BooksTypeOK
  BY BooksInvariant, TypesAsChecked, PTL

(* linkExpense, createPayments and the purchase service book everything    *)
(* they owe once, with its amount.                                         *)
THEOREM BooksBookedOnce == BooksSpec => []BookedOnce
<1>1. BooksInv => BookedOnce
  BY DEF BooksInv
<1> QED
  BY BooksInvariant, <1>1, PTL

(* moveOnHandInTx and creditDeliveredPurchase account for all the stock.   *)
THEOREM BooksOnHandExplained == BooksSpec => []OnHandExplained
<1>1. BooksInv /\ OnHandExplained /\ [BooksNext]_booksVars => OnHandExplained'
  BY OnHandNext
<1> QED
  BY BooksInvariant, OnHandInit, <1>1, PTL DEF BooksSpec

(* runAutomaticPayments leaves no day of a schedule behind.                *)
THEOREM BooksNoDayMissed == BooksSpec => NoDayMissed
<1> DEFINE Passes ==
        \A s \in Staff :
          HasProfile(s) /\ profile'[s].start = profile[s].start =>
              \A i \in 0..LastDay :
                  LET d == profile[s].next + i * profile[s].every
                  IN  d < profile'[s].next => payment'[s][d].status # "NONE"
<1>1. BooksInv /\ [BooksNext]_booksVars => [Passes]_booksVars
  BY CursorStep
<1> QED
  BY BooksInvariant, <1>1, PTL DEF BooksSpec, NoDayMissed
=============================================================================
