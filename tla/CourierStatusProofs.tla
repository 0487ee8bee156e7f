------------------------- MODULE CourierStatusProofs -------------------------
(***************************************************************************)
(* Theorems about CourierStatus, for every courier, any moves and any      *)
(* finite number of webhook calls, page syncs and refreshes: a parcel that *)
(* came to its end is not reopened, the outcome that the shipment shows is *)
(* booked, and a refusal counts once.                                      *)
(***************************************************************************)
EXTENDS CourierStatus, TLAPS, FiniteSetTheorems

States == [stage : Stages, report : Report, seen : Row,
           books : BOOLEAN, risky : BOOLEAN]

(* A booking that a call still has to make, and the refusals to count.     *)
Owes(state) == state.stage = "after" /\ state.books
RiskyCalls == {w \in Workers : work[w].risky}
One(b) == IF b THEN 1 ELSE 0

NoRowIsPending == ~row.exists => row.status = "PENDING"

(* Before the parcel moves, nobody has heard of another status.            *)
NothingMoved ==
    parcel.at = 0 =>
        /\ parcel = Created /\ sent = {} /\ row.status = "PENDING"
        /\ \A w \in Workers : work[w].report.status = "PENDING"

StagesOfCourier ==
    /\ \A w \in Workers : work[w].risky => work[w].stage = "after"
    /\ Locked => \A w \in Workers : work[w].stage \in {"idle", "fetched", "after"}

CourierInv ==
    /\ CourierTypeOK
    /\ NoRowIsPending
    /\ NothingMoved
    /\ StagesOfCourier
    /\ OutcomeIsBooked
    /\ RiskOncePerTransition

LEMMA IdleState ==
    /\ Idle \in States /\ Idle.stage = "idle" /\ Idle.report.status = "PENDING"
    /\ Idle.books = FALSE /\ Idle.risky = FALSE
BY DEF Idle, Call, States, Stages, Report, Row, NoRow, Created, Status, Progress, Terminal

LEMMA StateParts ==
    ASSUME CourierInv, NEW w \in Workers
    PROVE  /\ work \in [Workers -> States] /\ work[w] \in States
           /\ work[w].report \in Report /\ work[w].report.at \in Nat
           /\ work[w].report.status \in Status
           /\ work[w].seen \in Row /\ work[w].stage \in Stages
           /\ work[w].books \in BOOLEAN /\ work[w].risky \in BOOLEAN
BY DEF CourierInv, CourierTypeOK, States, Report, Row

LEMMA RowParts ==
    ASSUME CourierInv
    PROVE  /\ row \in Row /\ row.at \in Nat /\ row.status \in Status
           /\ row.exists \in BOOLEAN
           /\ parcel.at \in Nat /\ parcel.status \in Status
           /\ uncounted \in Int /\ missed \in BOOLEAN
           /\ booked \in Terminal \cup {"none"}
BY DEF CourierInv, CourierTypeOK, Report, Row

LEMMA CourierInvInit == CourierInit => CourierInv
<1> SUFFICES ASSUME CourierInit PROVE CourierInv
    OBVIOUS
<1>1. Created \in Report /\ NoRow \in Row
  BY DEF Created, NoRow, Report, Row, Status, Progress
<1>2. CourierTypeOK
  <2>1. work \in [Workers -> States]
    BY IdleState DEF CourierInit
  <2>2. /\ setup \in Setups /\ parcel \in Report /\ row \in Row
        /\ sent \subseteq Report
    BY <1>1 DEF CourierInit
  <2>3. persisted \in BOOLEAN /\ missed \in BOOLEAN
    BY DEF CourierInit
  <2>4. booked \in Terminal \cup {"none"} /\ uncounted \in Int
    BY DEF CourierInit
  <2> QED
    BY <2>1, <2>2, <2>3, <2>4 DEF CourierTypeOK, States
<1>3. NoRowIsPending /\ NothingMoved /\ StagesOfCourier
  BY IdleState
  DEF CourierInit, NoRowIsPending, NothingMoved, StagesOfCourier, NoRow
<1>4. OutcomeIsBooked
  BY DEF CourierInit, OutcomeIsBooked, NoRow, Terminal
<1>5. RiskOncePerTransition
  <2>1. RiskyCalls = {}
    BY IdleState DEF CourierInit, RiskyCalls
  <2>2. Cardinality(RiskyCalls) = 0
    BY <2>1, FS_EmptySet
  <2> QED
    BY <2>2 DEF CourierInit, RiskOncePerTransition, RiskyCalls
<1> QED
  BY <1>2, <1>3, <1>4, <1>5 DEF CourierInv

-----------------------------------------------------------------------------
(* How many refusals are to be counted after a step of one call.           *)
LEMMA RiskyCallsAfter ==
    ASSUME CourierInv, NEW w \in Workers, NEW new \in States,
           work' = [work EXCEPT ![w] = new]
    PROVE  Cardinality(RiskyCalls') = Cardinality(RiskyCalls)
                                      + One(new.risky) - One(work[w].risky)
<1>1. work \in [Workers -> States] /\ new.risky \in BOOLEAN
      /\ work[w].risky \in BOOLEAN
  BY StateParts DEF States
<1>2. IsFiniteSet(RiskyCalls) /\ Cardinality(RiskyCalls) \in Nat
  <2>1. RiskyCalls \in SUBSET Workers
    BY DEF RiskyCalls
  <2> QED
    BY <2>1, CourierStatusAssumption, FS_Subset, FS_CardinalityType
<1>3. w \in RiskyCalls <=> work[w].risky
  BY DEF RiskyCalls
<1>4. CASE new.risky
  <2>1. RiskyCalls' = RiskyCalls \cup {w}
    BY <1>1, <1>4 DEF RiskyCalls
  <2>2. Cardinality(RiskyCalls') = IF w \in RiskyCalls THEN Cardinality(RiskyCalls)
                                   ELSE Cardinality(RiskyCalls) + 1
    BY <1>2, <2>1, FS_AddElement
  <2> QED
    BY <1>2, <1>3, <1>4, <2>2 DEF One
<1>5. CASE ~new.risky
  <2>1. RiskyCalls' = RiskyCalls \ {w}
    BY <1>1, <1>5 DEF RiskyCalls
  <2>2. Cardinality(RiskyCalls') = IF w \in RiskyCalls THEN Cardinality(RiskyCalls) - 1
                                   ELSE Cardinality(RiskyCalls)
    BY <1>2, <2>1, FS_RemoveElement
  <2> QED
    BY <1>2, <1>3, <1>5, <2>2 DEF One
<1> QED
  BY <1>4, <1>5

(* What every step of a call comes to: it must keep owing a booking, lose  *)
(* it openly, make it, or have none to make; and it settles what it counts.*)
LEMMA CallKeeps ==
    ASSUME CourierInv, NEW w \in Workers, NEW new \in States,
           work' = [work EXCEPT ![w] = new],
           UNCHANGED <<setup, parcel, sent, persisted>>,
           row' \in Row, row'.exists \/ row' = row,
           parcel.at = 0 => /\ row'.status = "PENDING"
                            /\ new.report.status = "PENDING",
           new.risky => new.stage = "after",
           Locked => new.stage \in {"idle", "fetched", "after"},
           booked' \in Terminal \cup {"none"}, missed' \in BOOLEAN,
           \/ missed'
           \/ Owes(new)
           \/ row'.status \notin Terminal
           \/ booked' = row'.status
           \/ /\ row'.status = row.status /\ UNCHANGED <<booked, missed>>
              /\ ~Owes(work[w]),
           uncounted' \in Int,
           Locked => uncounted' = uncounted + One(new.risky) - One(work[w].risky)
    PROVE  CourierInv'
<1>0. work \in [Workers -> States]
  BY StateParts
<1>1. \A v \in Workers : work'[v] = IF v = w THEN new ELSE work[v]
  BY <1>0
<1>2. CourierTypeOK'
  BY <1>0 DEF CourierInv, CourierTypeOK, States
<1>3. NoRowIsPending'
  BY DEF CourierInv, NoRowIsPending
<1>4. NothingMoved'
  BY <1>1 DEF CourierInv, NothingMoved
<1>5. StagesOfCourier'
  BY <1>1 DEF CourierInv, StagesOfCourier, Locked, courier
<1>6. OutcomeIsBooked'
  <2> SUFFICES ASSUME \A v \in Workers : ~Owes(work'[v]), ~missed',
                      row'.status \in Terminal
               PROVE  booked' = row'.status
      BY DEF OutcomeIsBooked, Owes
  <2>1. ~Owes(new)
    BY <1>1
  <2>2. CASE row'.status = row.status /\ UNCHANGED <<booked, missed>>
             /\ ~Owes(work[w])
    <3>1. \A v \in Workers : ~Owes(work[v])
      BY <1>1, <2>2
    <3> QED
      BY <2>2, <3>1 DEF CourierInv, OutcomeIsBooked, Owes
  <2> QED
    BY <2>1, <2>2
<1>7. RiskOncePerTransition'
  <2> SUFFICES ASSUME Locked PROVE uncounted' = Cardinality(RiskyCalls')
      BY DEF RiskOncePerTransition, RiskyCalls, Locked, courier
  <2>1. uncounted = Cardinality(RiskyCalls)
    BY DEF CourierInv, RiskOncePerTransition, RiskyCalls
  <2> QED
    BY <2>1, RiskyCallsAfter
<1> QED
  BY <1>2, <1>3, <1>4, <1>5, <1>6, <1>7 DEF CourierInv

(* What a call has left after its write.                                   *)
LEMMA RestState ==
    ASSUME CourierInv, NEW w \in Workers, NEW books \in BOOLEAN,
           NEW risky \in BOOLEAN
    PROVE  /\ Rest(w, books, risky) \in States
           /\ Rest(w, books, risky).risky = risky
           /\ Owes(Rest(w, books, risky)) <=> books
           /\ risky => Rest(w, books, risky).stage = "after"
           /\ Rest(w, books, risky).stage \in {"idle", "after"}
           /\ parcel.at = 0 => Rest(w, books, risky).report.status = "PENDING"
<1>1. work[w] \in States
  BY StateParts
<1>2. parcel.at = 0 => work[w].report.status = "PENDING"
  BY DEF CourierInv, NothingMoved
<1>3. CASE books \/ risky
  <2> DEFINE n == [stage |-> "after", report |-> work[w].report,
                   seen |-> work[w].seen, books |-> books, risky |-> risky]
  <2>1. Rest(w, books, risky) = n
    BY <1>1, <1>3 DEF Rest, States
  <2>2. n \in States
    BY <1>1 DEF States, Stages
  <2> QED
    BY <1>2, <1>3, <2>1, <2>2 DEF Owes
<1>4. CASE ~(books \/ risky)
  BY <1>4, IdleState DEF Rest, Owes
<1> QED
  BY <1>3, <1>4

(* A write of the row either puts a report there, or leaves it alone; what *)
(* turned by it waits to be counted.                                       *)
LEMMA WriteEffect ==
    ASSUME CourierInv, NEW applied \in BOOLEAN, NEW status \in Status,
           NEW at \in Nat, parcel.at = 0 => status = "PENDING",
           Write(IF applied THEN RowOf(status, at) ELSE row)
    PROVE  /\ row' \in Row
           /\ row'.exists \/ row' = row
           /\ parcel.at = 0 => row'.status = "PENDING"
           /\ applied => row'.exists /\ row'.status = status
           /\ ~applied => row' = row
           /\ uncounted' \in Int
           /\ Locked => uncounted' = uncounted
                                     + One(applied /\ Turns(row, status))
<1>1. RowOf(status, at) \in Row /\ RowOf(status, at).exists
      /\ RowOf(status, at).status = status
  BY DEF RowOf, Row
<1>2. row \in Row /\ uncounted \in Int
      /\ (parcel.at = 0 => row.status = "PENDING")
  BY RowParts DEF CourierInv, NothingMoved
<1>3. ~Turns(row, row.status)
  BY DEF CourierInv, NoRowIsPending, Turns, Risky
<1>4. CASE applied
  <2>1. row' = RowOf(status, at)
        /\ uncounted' = IF Locked /\ Turns(row, status)
                        THEN uncounted + 1 ELSE uncounted
    BY <1>1, <1>4 DEF Write
  <2> QED
    BY <1>1, <1>2, <1>4, <2>1 DEF One
<1>5. CASE ~applied
  <2>1. row' = row /\ uncounted' = uncounted
    BY <1>3, <1>5 DEF Write
  <2> QED
    BY <1>2, <1>5, <2>1 DEF One
<1> QED
  BY <1>4, <1>5

-----------------------------------------------------------------------------
(* The courier, and the creation of the parcel.                            *)
LEMMA MoveKeeps ==
    ASSUME CourierInv, NEW s \in Status, CourierMoves(s)
    PROVE  CourierInv'
<1>1. parcel' \in Report /\ parcel'.at # 0
  BY RowParts DEF CourierMoves, Report
<1>2. sent' \subseteq Report
  BY <1>1 DEF CourierInv, CourierTypeOK, CourierMoves
<1>3. UNCHANGED <<setup, row, persisted, work, booked, missed, uncounted>>
  BY DEF CourierMoves
<1> QED
  BY <1>1, <1>2, <1>3
  DEF CourierInv, CourierTypeOK, NoRowIsPending, NothingMoved,
      StagesOfCourier, OutcomeIsBooked, RiskOncePerTransition, Locked, courier

LEMMA CreateKeeps ==
    ASSUME CourierInv, PersistCreated
    PROVE  CourierInv' /\ row.status = "PENDING"
<1>1. parcel.at = 0 /\ row.status = "PENDING"
  BY DEF PersistCreated, CourierInv, NothingMoved, Created
<1>2. row' \in Row /\ row'.exists /\ row'.status = "PENDING"
  BY DEF PersistCreated, RowOf, Row, Status, Progress
<1>3. UNCHANGED <<setup, parcel, sent, work, booked, missed, uncounted>>
      /\ persisted' = TRUE
  BY DEF PersistCreated
<1>4. OutcomeIsBooked'
  BY <1>2 DEF OutcomeIsBooked, Terminal
<1> QED
  BY <1>1, <1>2, <1>3, <1>4
  DEF CourierInv, CourierTypeOK, NoRowIsPending, NothingMoved,
      StagesOfCourier, RiskOncePerTransition, Locked, courier

-----------------------------------------------------------------------------
(* Webhook calls.                                                          *)
LEMMA ReceiveKeeps ==
    ASSUME CourierInv, NEW w \in Webhooks, NEW r \in sent, ReceiveWebhook(w, r)
    PROVE  CourierInv'
<1> DEFINE stage == IF courier = "AMEEX" THEN "fetched" ELSE "received"
           new == Call(stage, r, row, TRUE)
<1>0. w \in Workers /\ r \in Report
  BY DEF Workers, CourierInv, CourierTypeOK
<1>1. work' = [work EXCEPT ![w] = new]
  BY DEF ReceiveWebhook
<1>2. new \in States
  BY <1>0, RowParts DEF Call, States, Stages
<1>3. parcel.at # 0
  BY DEF CourierInv, NothingMoved
<1>4. Locked => stage = "fetched"
  BY CourierStatusAssumption
  DEF ReceiveWebhook, CourierInv, CourierTypeOK, Locked, courier, Reporting
<1>5. ~work[w].risky /\ ~Owes(work[w])
  BY <1>0 DEF ReceiveWebhook, CourierInv, StagesOfCourier, Owes
<1>6. /\ UNCHANGED <<setup, parcel, sent, persisted, row, booked, missed, uncounted>>
      /\ row \in Row /\ booked \in Terminal \cup {"none"} /\ missed \in BOOLEAN
      /\ uncounted \in Int
  BY DEF ReceiveWebhook, CourierInv, CourierTypeOK
<1>7. new.risky = FALSE /\ new.stage = stage
  BY DEF Call
<1> HIDE DEF new, stage
<1>8. uncounted' = uncounted + One(new.risky) - One(work[w].risky)
  BY <1>5, <1>6, <1>7 DEF One
<1> QED
  BY <1>0, <1>1, <1>2, <1>3, <1>4, <1>5, <1>6, <1>7, <1>8, CallKeeps

LEMMA ApplyKeeps ==
    ASSUME CourierInv, NEW w \in Webhooks, ApplyWebhook(w)
    PROVE  CourierInv'
<1> DEFINE r == work[w].report
           risky == NotARegression(r) /\ Turns(work[w].seen, r.status)
           new == Rest(w, TRUE, risky)
<1>0. w \in Workers
  BY DEF Workers
<1>1. ~Locked /\ ~work[w].risky
  BY <1>0 DEF ApplyWebhook, CourierInv, StagesOfCourier
<1>2. /\ Write(IF NotARegression(r) THEN RowOf(r.status, r.at) ELSE row)
      /\ work' = [work EXCEPT ![w] = new]
      /\ UNCHANGED <<setup, parcel, sent, persisted, booked, missed>>
  BY DEF ApplyWebhook
<1>3. r.status \in Status /\ r.at \in Nat
      /\ (parcel.at = 0 => r.status = "PENDING")
  BY <1>0, StateParts DEF CourierInv, NothingMoved
<1>4. risky \in BOOLEAN /\ NotARegression(r) \in BOOLEAN
  BY DEF Turns, NotARegression
<1>5. /\ row' \in Row
      /\ row'.exists \/ row' = row
      /\ parcel.at = 0 => row'.status = "PENDING"
      /\ uncounted' \in Int
  <2> HIDE DEF r
  <2> QED
    BY <1>2, <1>3, <1>4, WriteEffect
<1>6. booked' \in Terminal \cup {"none"} /\ missed' \in BOOLEAN
  BY <1>2 DEF CourierInv, CourierTypeOK
<1> HIDE DEF r, risky
<1>7. /\ new \in States /\ Owes(new)
      /\ new.risky => new.stage = "after"
      /\ new.stage \in {"idle", "fetched", "after"}
      /\ parcel.at = 0 => new.report.status = "PENDING"
  BY <1>0, <1>4, RestState
<1> HIDE DEF new
<1> QED
  BY <1>0, <1>1, <1>2, <1>5, <1>6, <1>7, CallKeeps

-----------------------------------------------------------------------------
(* Page syncs and refreshes.                                               *)
LEMMA FetchKeeps ==
    ASSUME CourierInv, NEW w \in Pagers, NEW books \in BOOLEAN, Fetch(w, books)
    PROVE  CourierInv'
<1>0. w \in Workers
  BY DEF Workers
<1>1. PICK at \in {parcel.at} \cup (IF courier \in Untimed THEN {0} ELSE {}) :
          work' = [work EXCEPT ![w] =
               Call("fetched", [status |-> parcel.status, at |-> at], NoRow, books)]
  BY DEF Fetch
<1> DEFINE new == Call("fetched", [status |-> parcel.status, at |-> at], NoRow, books)
<1>2. work' = [work EXCEPT ![w] = new]
  BY <1>1
<1>3. new \in States
  <2>1. at \in Nat /\ parcel.status \in Status
    BY RowParts
  <2>2. NoRow \in Row
    BY DEF NoRow, Row, Status, Progress
  <2> QED
    BY <2>1, <2>2 DEF Call, States, Stages, Report
<1>4. parcel.at = 0 => parcel.status = "PENDING" /\ row.status = "PENDING"
  BY DEF CourierInv, NothingMoved, Created
<1>5. ~work[w].risky /\ ~Owes(work[w])
  BY <1>0 DEF Fetch, CourierInv, StagesOfCourier, Owes
<1>6. /\ UNCHANGED <<setup, parcel, sent, persisted, row, booked, missed, uncounted>>
      /\ row \in Row /\ booked \in Terminal \cup {"none"} /\ missed \in BOOLEAN
      /\ uncounted \in Int
  BY DEF Fetch, CourierInv, CourierTypeOK
<1>7. /\ new.risky = FALSE /\ new.stage = "fetched"
      /\ new.report.status = parcel.status
  BY DEF Call
<1> HIDE DEF new
<1>8. uncounted' = uncounted + One(new.risky) - One(work[w].risky)
  BY <1>5, <1>6, <1>7 DEF One
<1> QED
  BY <1>0, <1>2, <1>3, <1>4, <1>5, <1>6, <1>7, <1>8, CallKeeps

LEMMA ReadKeeps ==
    ASSUME CourierInv, NEW w \in Pagers, ReadShipment(w)
    PROVE  CourierInv'
<1> DEFINE new == [work[w] EXCEPT !.stage = "read", !.seen = row]
<1>0. w \in Workers
  BY DEF Workers
<1>1. work' = [work EXCEPT ![w] = new] /\ ~Locked
  BY DEF ReadShipment, Locked
<1>2. /\ new \in States /\ new.risky = work[w].risky /\ new.stage = "read"
      /\ new.report = work[w].report
  BY <1>0, StateParts, RowParts DEF States, Stages
<1>3. ~work[w].risky /\ ~Owes(work[w])
  BY <1>0 DEF ReadShipment, CourierInv, StagesOfCourier, Owes
<1>4. parcel.at = 0 => work[w].report.status = "PENDING" /\ row.status = "PENDING"
  BY <1>0 DEF CourierInv, NothingMoved
<1>5. /\ UNCHANGED <<setup, parcel, sent, persisted, row, booked, missed, uncounted>>
      /\ row \in Row /\ booked \in Terminal \cup {"none"} /\ missed \in BOOLEAN
      /\ uncounted \in Int
  BY DEF ReadShipment, CourierInv, CourierTypeOK
<1> HIDE DEF new
<1> QED
  BY <1>0, <1>1, <1>2, <1>3, <1>4, <1>5, CallKeeps

(* Sendit's write after an unlocked read: it owes a booking for what it    *)
(* changed; where the row changed in between it is a miss.                 *)
LEMMA WriteShipmentKeeps ==
    ASSUME CourierInv, NEW w \in Pagers, WriteShipment(w)
    PROVE  CourierInv'
<1> DEFINE r == work[w].report
           seen == work[w].seen
           changed == ~seen.exists \/ seen.status # r.status
           fails == ~seen.exists /\ row.exists
           applied == ~fails /\ shouldRefresh(seen, r)
           at == IF r.at # 0 THEN r.at ELSE seen.at
           new == IF fails THEN Idle
                  ELSE Rest(w, changed, changed /\ r.status \in Risky)
<1>0. w \in Workers
  BY DEF Workers
<1>1. ~Locked /\ ~work[w].risky /\ ~Owes(work[w])
  BY <1>0 DEF WriteShipment, CourierInv, StagesOfCourier, Owes
<1>2. /\ Write(IF applied THEN RowOf(r.status, at) ELSE row)
      /\ missed' = (missed \/ (applied /\ seen # row))
      /\ work' = [work EXCEPT ![w] = new]
      /\ UNCHANGED <<setup, parcel, sent, persisted, booked>>
  BY DEF WriteShipment
<1>3. r.status \in Status /\ at \in Nat /\ seen \in Row
      /\ (parcel.at = 0 => r.status = "PENDING")
  BY <1>0, StateParts DEF CourierInv, NothingMoved, Row, Report
<1>4. changed \in BOOLEAN /\ (changed /\ r.status \in Risky) \in BOOLEAN
      /\ applied \in BOOLEAN
  BY <1>3 DEF Row, shouldRefresh, staleShipmentStatus
<1>5. /\ row' \in Row
      /\ row'.exists \/ row' = row
      /\ parcel.at = 0 => row'.status = "PENDING"
      /\ uncounted' \in Int
      /\ applied => row'.status = r.status
      /\ ~applied => row' = row
  <2> HIDE DEF r, at, applied
  <2> QED
    BY <1>2, <1>3, <1>4, WriteEffect
<1>6. booked' \in Terminal \cup {"none"} /\ missed' \in BOOLEAN
  BY <1>2 DEF CourierInv, CourierTypeOK, shouldRefresh, staleShipmentStatus
<1>7. /\ new \in States /\ (~fails => (Owes(new) <=> changed))
      /\ new.risky => new.stage = "after"
      /\ new.stage \in {"idle", "fetched", "after"}
      /\ parcel.at = 0 => new.report.status = "PENDING"
  <2> HIDE DEF changed, r
  <2> QED
    BY <1>0, <1>4, RestState, IdleState
<1>8. \/ missed' \/ Owes(new)
      \/ row'.status = row.status /\ UNCHANGED <<booked, missed>>
  <2>1. CASE applied /\ seen # row
    BY <1>2, <2>1
  <2>2. CASE applied /\ seen = row /\ changed
    BY <1>7, <2>2
  <2>3. CASE applied /\ seen = row /\ ~changed
    BY <1>2, <1>5, <2>3 DEF CourierInv, CourierTypeOK
  <2>4. CASE ~applied
    BY <1>2, <1>5, <2>4 DEF CourierInv, CourierTypeOK
  <2> QED
    BY <2>1, <2>2, <2>3, <2>4
<1> HIDE DEF r, seen, changed, fails, applied, at, new
<1> QED
  BY <1>0, <1>1, <1>2, <1>5, <1>6, <1>7, <1>8, CallKeeps

-----------------------------------------------------------------------------
(* Under the couriers' locks.                                              *)
LEMMA UnderLockKeeps ==
    ASSUME CourierInv, NEW w \in Workers, NEW at \in Nat, NEW books \in BOOLEAN,
           NEW risky \in BOOLEAN, UnderLock(w, at, books, risky),
           Locked => risky = Turns(row, work[w].report.status),
           missed' \in BOOLEAN,
           \/ missed'
           \/ books
           \/ /\ UNCHANGED missed
              /\ Fresh(w) => row.status = work[w].report.status
    PROVE  CourierInv'
<1> DEFINE r == work[w].report
           fresh == ~staleShipmentStatus(row, r)
           new == Rest(w, books, risky /\ fresh)
<1>1. /\ Write(IF fresh THEN RowOf(r.status, at) ELSE row)
      /\ work' = [work EXCEPT ![w] = new]
      /\ UNCHANGED <<setup, parcel, sent, persisted, booked>>
  BY DEF UnderLock
<1>2. r.status \in Status /\ (parcel.at = 0 => r.status = "PENDING")
  BY StateParts DEF CourierInv, NothingMoved
<1>3. fresh \in BOOLEAN /\ (risky /\ fresh) \in BOOLEAN
  BY RowParts DEF staleShipmentStatus, Row
<1>4. ~work[w].risky /\ ~Owes(work[w])
  BY DEF UnderLock, CourierInv, StagesOfCourier, Owes
<1>5. Fresh(w) = fresh
  BY DEF Fresh
<1> HIDE DEF r, fresh
<1>6. /\ row' \in Row
      /\ row'.exists \/ row' = row
      /\ parcel.at = 0 => row'.status = "PENDING"
      /\ uncounted' \in Int
      /\ fresh => row'.status = r.status
      /\ ~fresh => row' = row
      /\ Locked => uncounted' = uncounted + One(fresh /\ Turns(row, r.status))
  BY <1>1, <1>2, <1>3, WriteEffect
<1>7. /\ new \in States /\ new.risky = (risky /\ fresh) /\ (Owes(new) <=> books)
      /\ new.risky => new.stage = "after"
      /\ new.stage \in {"idle", "fetched", "after"}
      /\ parcel.at = 0 => new.report.status = "PENDING"
  BY <1>3, RestState
<1> HIDE DEF new
<1>8. Locked => uncounted' = uncounted + One(new.risky) - One(work[w].risky)
  <2> SUFFICES ASSUME Locked
               PROVE  uncounted' = uncounted + One(new.risky) - One(work[w].risky)
      OBVIOUS
  <2>1. new.risky <=> (fresh /\ Turns(row, r.status))
    BY <1>7 DEF r
  <2>2. One(new.risky) = One(fresh /\ Turns(row, r.status))
    BY <2>1 DEF One
  <2>3. One(work[w].risky) = 0 /\ One(fresh /\ Turns(row, r.status)) \in Int
    BY <1>4 DEF One
  <2> QED
    BY <1>6, <2>2, <2>3, RowParts
<1>9. \/ missed' \/ Owes(new)
      \/ row'.status = row.status /\ UNCHANGED <<booked, missed>> /\ ~Owes(work[w])
  BY <1>1, <1>4, <1>5, <1>6, <1>7 DEF r
<1>10. booked' \in Terminal \cup {"none"}
  BY <1>1, RowParts
<1> QED
  BY <1>1, <1>6, <1>7, <1>8, <1>9, <1>10, CallKeeps

LEMMA TurnsIsBool ==
    \A before, status : Turns(before, status) \in BOOLEAN
BY DEF Turns

LEMMA PersistKeeps ==
    ASSUME CourierInv, NEW w \in Workers,
           \/ PersistQuickLivraison(w) \/ PersistAmeex(w) \/ PersistForceLog(w)
           \/ persistTrackingEnvelope(w)
    PROVE  CourierInv'
<1> DEFINE r == work[w].report
           turns == Turns(row, r.status)
<1>0. /\ r.at \in Nat /\ Kept(w) \in Nat /\ work[w].books \in BOOLEAN
      /\ missed \in BOOLEAN /\ parcel.at \in Nat
      /\ turns \in BOOLEAN
      /\ Fresh(w) \in BOOLEAN /\ Changed(w) \in BOOLEAN
      /\ ~Changed(w) => row.status = r.status
  BY StateParts, RowParts, TurnsIsBool
  DEF Kept, Fresh, Changed, staleShipmentStatus, Row
<1>1. CASE PersistQuickLivraison(w)
  <2>1. UnderLock(w, Kept(w), Fresh(w) /\ Changed(w), turns) /\ UNCHANGED missed
    BY <1>1 DEF PersistQuickLivraison
  <2>2. (Fresh(w) /\ Changed(w)) \in BOOLEAN
    BY <1>0
  <2> HIDE DEF r, turns
  <2>3. Locked => turns = Turns(row, work[w].report.status)
    BY DEF turns, r
  <2>4. \/ Fresh(w) /\ Changed(w)
        \/ Fresh(w) => row.status = work[w].report.status
    BY <1>0 DEF r
  <2>5. missed' \in BOOLEAN
    BY <1>0, <2>1
  <2> QED
    BY <1>0, <2>1, <2>2, <2>3, <2>4, <2>5, UnderLockKeeps
<1>2. CASE PersistAmeex(w) \/ PersistForceLog(w)
  <2>1. PICK at \in Nat : UnderLock(w, at, Fresh(w), turns)
    BY <1>0, <1>2 DEF PersistAmeex, PersistForceLog
  <2>2. UNCHANGED missed /\ missed' \in BOOLEAN
    BY <1>0, <1>2 DEF PersistAmeex, PersistForceLog
  <2> HIDE DEF turns
  <2>3. Locked => turns = Turns(row, work[w].report.status)
    BY DEF turns
  <2> QED
    BY <1>0, <2>1, <2>2, <2>3, UnderLockKeeps
<1>3. CASE persistTrackingEnvelope(w)
  <2> DEFINE at == IF r.at # 0 THEN r.at ELSE parcel.at
  <2>1. /\ UnderLock(w, at, work[w].books, turns)
        /\ missed' = (missed \/ (~work[w].books /\ Fresh(w) /\ Changed(w)))
    BY <1>3 DEF persistTrackingEnvelope
  <2>2. at \in Nat
    BY <1>0
  <2>3. missed' \in BOOLEAN
    BY <1>0, <2>1
  <2>4. \/ missed'
        \/ work[w].books
        \/ /\ UNCHANGED missed
           /\ Fresh(w) => row.status = work[w].report.status
    BY <1>0, <2>1
  <2> HIDE DEF turns, at
  <2>5. Locked => turns = Turns(row, work[w].report.status)
    BY DEF turns
  <2> QED
    BY <1>0, <2>1, <2>2, <2>3, <2>4, <2>5, UnderLockKeeps
<1> QED
  BY <1>1, <1>2, <1>3

(* OzoneExpress creates an unknown parcel as new, which owes nothing.      *)
LEMMA PersistInfoKeeps ==
    ASSUME CourierInv, NEW w \in Workers, persistInfo(w)
    PROVE  CourierInv'
<1>1. Write(IF TRUE THEN RowOf("PENDING", parcel.at) ELSE row)
      /\ UNCHANGED <<setup, parcel, sent, persisted, work, booked, missed>>
  BY DEF persistInfo
<1>2. /\ row' \in Row /\ row'.exists /\ row'.status = "PENDING"
      /\ uncounted' \in Int
      /\ Locked => uncounted' = uncounted + One(TRUE /\ Turns(row, "PENDING"))
  BY <1>1, RowParts, WriteEffect DEF Status, Progress
<1>3. Locked => uncounted' = uncounted
  BY <1>2, RowParts DEF One, Turns, Risky
<1>4. OutcomeIsBooked'
  BY <1>2 DEF OutcomeIsBooked, Terminal
<1> QED
  BY <1>1, <1>2, <1>3, <1>4
  DEF CourierInv, CourierTypeOK, NoRowIsPending, NothingMoved,
      StagesOfCourier, RiskOncePerTransition, Locked, courier

-----------------------------------------------------------------------------
(* After the commit: a booking is made or lost openly, and a refusal is    *)
(* counted or given up.                                                    *)
LEMMA AfterKeeps ==
    ASSUME CourierInv, NEW w \in Workers,
           \/ BookOutcome(w) \/ BookingFails(w) \/ recordShipmentOutcome(w)
           \/ Crash(w)
    PROVE  CourierInv'
<1>0. /\ work[w].risky \in BOOLEAN /\ work[w].books \in BOOLEAN
      /\ row \in Row /\ uncounted \in Int /\ missed \in BOOLEAN
      /\ booked \in Terminal \cup {"none"}
      /\ (parcel.at = 0 => row.status = "PENDING")
      /\ One(TRUE) = 1 /\ One(FALSE) = 0
  BY StateParts, RowParts DEF CourierInv, NothingMoved, One
<1>1. ASSUME NEW books \in BOOLEAN, NEW risky \in BOOLEAN,
             work' = [work EXCEPT ![w] = Rest(w, books, risky)],
             UNCHANGED <<setup, parcel, sent, persisted, row>>,
             booked' \in Terminal \cup {"none"}, missed' \in BOOLEAN,
             \/ missed' \/ books \/ row.status \notin Terminal
             \/ booked' = row.status
             \/ UNCHANGED <<booked, missed>> /\ ~Owes(work[w]),
             uncounted' \in Int,
             Locked => uncounted' = uncounted + One(risky) - One(work[w].risky)
      PROVE  CourierInv'
  <2> DEFINE new == Rest(w, books, risky)
  <2>1. /\ new \in States /\ new.risky = risky /\ (Owes(new) <=> books)
        /\ new.risky => new.stage = "after"
        /\ new.stage \in {"idle", "fetched", "after"}
        /\ parcel.at = 0 => new.report.status = "PENDING"
    BY RestState
  <2>2. work' = [work EXCEPT ![w] = new]
    BY <1>1
  <2> HIDE DEF new
  <2> QED
    BY <1>0, <1>1, <2>1, <2>2, CallKeeps
<1>2. CASE BookOutcome(w)
  <2>1. /\ work' = [work EXCEPT ![w] = Rest(w, FALSE, work[w].risky)]
        /\ booked' = IF row.status \in Terminal THEN row.status ELSE booked
        /\ missed' = FALSE
        /\ UNCHANGED <<setup, parcel, sent, persisted, row, uncounted>>
    BY <1>2 DEF BookOutcome
  <2>2. booked' \in Terminal \cup {"none"} /\ missed' \in BOOLEAN
        /\ (row.status \notin Terminal \/ booked' = row.status)
    BY <1>0, <2>1
  <2>3. uncounted' = uncounted + One(work[w].risky) - One(work[w].risky)
    BY <1>0, <2>1 DEF One
  <2> QED
    BY <1>0, <1>1, <2>1, <2>2, <2>3
<1>3. CASE BookingFails(w)
  <2> DEFINE risky == work[w].risky /\ courier # "AMEEX"
  <2>1. /\ work' = [work EXCEPT ![w] = Rest(w, FALSE, risky)]
        /\ missed' = TRUE
        /\ UNCHANGED <<setup, parcel, sent, persisted, row, booked>>
        /\ IF courier = "AMEEX" THEN Settle(w) ELSE UNCHANGED uncounted
    BY <1>3 DEF BookingFails
  <2>2. risky \in BOOLEAN /\ missed' \in BOOLEAN /\ missed'
        /\ booked' \in Terminal \cup {"none"}
    BY <1>0, <2>1
  <2>3. uncounted' \in Int
        /\ (Locked => uncounted' = uncounted + One(risky) - One(work[w].risky))
    BY <1>0, <2>1 DEF One, Settle
  <2> HIDE DEF risky
  <2> QED
    BY <1>1, <2>1, <2>2, <2>3
<1>4. CASE recordShipmentOutcome(w)
  <2>1. /\ work' = [work EXCEPT ![w] = Rest(w, work[w].books, FALSE)]
        /\ work[w].risky /\ Settle(w) /\ work[w].stage = "after"
        /\ UNCHANGED <<setup, parcel, sent, persisted, row, booked, missed>>
    BY <1>4 DEF recordShipmentOutcome
  <2>2. uncounted' \in Int
        /\ (Locked => uncounted' = uncounted + One(FALSE) - One(work[w].risky))
    BY <1>0, <2>1 DEF One, Settle
  <2>3. booked' \in Terminal \cup {"none"} /\ missed' \in BOOLEAN
    BY <1>0, <2>1
  <2>4. work[w].books \/ ~Owes(work[w])
    BY DEF Owes
  <2> QED
    BY <1>0, <1>1, <2>1, <2>2, <2>3, <2>4
<1>5. CASE Crash(w)
  <2>1. /\ work' = [work EXCEPT ![w] = Idle] /\ Settle(w)
        /\ missed' = (missed \/ Owes(work[w]))
        /\ UNCHANGED <<setup, parcel, sent, persisted, row, booked>>
    BY <1>5 DEF Crash, Owes
  <2>2. Rest(w, FALSE, FALSE) = Idle
    BY DEF Rest
  <2>3. uncounted' \in Int
        /\ (Locked => uncounted' = uncounted + One(FALSE) - One(work[w].risky))
    BY <1>0, <2>1 DEF One, Settle
  <2>4. Owes(work[w]) \in BOOLEAN
    BY <1>0 DEF Owes
  <2>5. /\ booked' \in Terminal \cup {"none"} /\ missed' \in BOOLEAN
        /\ missed' \/ (UNCHANGED <<booked, missed>> /\ ~Owes(work[w]))
    BY <1>0, <2>1, <2>4
  <2> QED
    BY <1>1, <2>1, <2>2, <2>3, <2>5
<1> QED
  BY <1>2, <1>3, <1>4, <1>5

LEMMA CourierInvNext ==
    ASSUME CourierInv, [CourierNext]_courierVars
    PROVE  CourierInv'
<1>1. ASSUME NEW w \in Webhooks,
             (\E r \in sent : ReceiveWebhook(w, r)) \/ ApplyWebhook(w)
      PROVE  CourierInv'
  BY <1>1, ReceiveKeeps, ApplyKeeps
<1>2. ASSUME NEW w \in Pagers,
             \/ FetchPage(w) \/ refresh(w) \/ trackOzoneExpress(w)
             \/ ReadShipment(w) \/ WriteShipment(w)
      PROVE  CourierInv'
  BY <1>2, FetchKeeps, ReadKeeps, WriteShipmentKeeps
  DEF FetchPage, refresh, trackOzoneExpress
<1>3. ASSUME NEW w \in Workers,
             \/ Persist(w) \/ BookOutcome(w) \/ BookingFails(w)
             \/ recordShipmentOutcome(w) \/ Crash(w)
      PROVE  CourierInv'
  BY <1>3, PersistKeeps, PersistInfoKeeps, AfterKeeps DEF Persist
<1>4. CASE UNCHANGED courierVars
  BY <1>4
  DEF courierVars, CourierInv, CourierTypeOK, NoRowIsPending, NothingMoved,
      StagesOfCourier, OutcomeIsBooked, RiskOncePerTransition, Locked, courier
<1> QED
  BY <1>1, <1>2, <1>3, <1>4, MoveKeeps, CreateKeeps DEF CourierNext

-----------------------------------------------------------------------------
(* Who writes the row, and what a write respects.                          *)
LEMMA FinishedRowStep ==
    ASSUME CourierInv, [CourierNext]_courierVars,
           row.status \in Terminal, row'.status \notin Terminal
    PROVE  \E w \in Pagers : work[w].stage = "read" /\ work[w].seen # row
<1>0. row.exists /\ row' # row
  BY DEF CourierInv, NoRowIsPending, Terminal
<1>1. ASSUME NEW w \in Workers, NEW status, NEW at, NEW applied \in BOOLEAN,
             Write(IF applied THEN RowOf(status, at) ELSE row)
      PROVE  applied /\ status \notin Terminal
  BY <1>0, <1>1 DEF Write, RowOf
<1>2. ASSUME NEW w \in Webhooks, ApplyWebhook(w) PROVE FALSE
  <2>1. NotARegression(work[w].report) \in BOOLEAN
    BY DEF NotARegression
  <2>2. /\ NotARegression(work[w].report)
        /\ work[w].report.status \notin Terminal
    BY <1>1, <1>2, <2>1 DEF ApplyWebhook, Workers
  <2> QED
    BY <2>2 DEF NotARegression
<1>3. ASSUME NEW w \in Pagers, WriteShipment(w), work[w].seen = row PROVE FALSE
  <2> DEFINE r == work[w].report
             applied == ~(~row.exists /\ row.exists) /\ shouldRefresh(row, r)
             at == IF r.at # 0 THEN r.at ELSE row.at
  <2>1. Write(IF applied THEN RowOf(r.status, at) ELSE row)
    BY <1>3 DEF WriteShipment
  <2>2. applied \in BOOLEAN
    BY DEF shouldRefresh, staleShipmentStatus
  <2> HIDE DEF applied, at, r
  <2>3. applied /\ r.status \notin Terminal
    BY <1>1, <2>1, <2>2 DEF Workers
  <2> QED
    BY <1>0, <2>3 DEF applied, shouldRefresh, staleShipmentStatus
<1>4. ASSUME NEW w \in Workers, NEW at, NEW books, NEW risky,
             UnderLock(w, at, books, risky)
      PROVE  FALSE
  <2> DEFINE r == work[w].report
             applied == ~staleShipmentStatus(row, r)
  <2>1. Write(IF applied THEN RowOf(r.status, at) ELSE row)
    BY <1>4 DEF UnderLock
  <2>2. applied \in BOOLEAN
    BY DEF staleShipmentStatus
  <2> HIDE DEF applied, r
  <2>3. applied /\ r.status \notin Terminal
    BY <1>1, <2>1, <2>2
  <2> QED
    BY <1>0, <2>3 DEF applied, staleShipmentStatus
<1>5. ~PersistCreated
  BY CreateKeeps DEF Terminal
<1>6. ASSUME NEW w \in Workers, Persist(w) PROVE FALSE
  BY <1>0, <1>4, <1>6
  DEF Persist, PersistQuickLivraison, PersistAmeex, PersistForceLog,
      persistTrackingEnvelope, persistInfo
<1>7. ~UNCHANGED row
  BY <1>0
<1>8. PICK w \in Pagers : WriteShipment(w)
  BY <1>2, <1>5, <1>6, <1>7
  DEF CourierNext, courierVars, CourierMoves, ReceiveWebhook, FetchPage,
      refresh, trackOzoneExpress, Fetch, ReadShipment, BookOutcome,
      BookingFails, recordShipmentOutcome, Crash
<1>9. work[w].stage = "read"
  BY <1>8 DEF WriteShipment
<1> QED
  BY <1>3, <1>8, <1>9

-----------------------------------------------------------------------------
(* The invariant of the couriers' webhooks, page syncs and refreshes.      *)
THEOREM CourierInvariant == CourierSpec => []CourierInv
<1>1. CourierInv /\ [CourierNext]_courierVars => CourierInv'
  BY CourierInvNext
<1> QED
  BY CourierInvInit, <1>1, PTL DEF CourierSpec

(* Types.                                                                  *)
THEOREM CourierTypeCorrect == CourierSpec => []CourierTypeOK
<1>1. CourierInv => CourierTypeOK
  BY DEF CourierInv
<1> QED
  BY CourierInvariant, <1>1, PTL

(* syncFromDispatchId has booked what the shipment shows, once the calls   *)
(* are done and none lost its booking.                                     *)
THEOREM CourierOutcomeIsBooked == CourierSpec => []OutcomeIsBooked
<1>1. CourierInv => OutcomeIsBooked
  BY DEF CourierInv
<1> QED
  BY CourierInvariant, <1>1, PTL

(* recordShipmentOutcome counts each turn to a refusal once, where a lock  *)
(* covers the decision.                                                    *)
THEOREM CourierRiskOnce == CourierSpec => []RiskOncePerTransition
<1>1. CourierInv => RiskOncePerTransition
  BY DEF CourierInv
<1> QED
  BY CourierInvariant, <1>1, PTL

(* No report reopens a parcel that came to its end, except through         *)
(* Sendit's unlocked page sync.                                            *)
THEOREM CourierTerminalStays == CourierSpec => TerminalNeverReopened
<1>1. CourierInv /\ [CourierNext]_courierVars
      => [row.status \in Terminal /\ row'.status \notin Terminal
             => \E w \in Pagers : work[w].stage = "read" /\ work[w].seen # row
         ]_courierVars
  BY FinishedRowStep
<1> QED
  BY CourierInvariant, <1>1, PTL DEF CourierSpec, TerminalNeverReopened
=============================================================================
