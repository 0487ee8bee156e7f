--------------------------- MODULE CourierStatus ---------------------------
(***************************************************************************)
(* How the status of one courier parcel reaches the database:              *)
(*   src/shipping/shipment-status-chronology.ts                            *)
(*   src/shipping/{sendit,quicklivraison,ameex,forcelog,ozoneexpress}-     *)
(*   shipment.service.ts                                                   *)
(*                                                                         *)
(* The courier moves the parcel.  Sendit, QuickLivraison and Ameex report  *)
(* every move by webhook, late, in any order, repeatedly or never; page    *)
(* syncs and refreshes ask what the courier says now.  The answer is       *)
(* judged against the stored shipment and written.  Sendit's page sync     *)
(* reads and writes in one Read Committed transaction without a lock,      *)
(* which is two steps; every other write holds an advisory lock or guards  *)
(* itself, which is one.  After the commit the outcome is booked with the  *)
(* order and the customer's refusals are counted, in the courier's order,  *)
(* best effort, and the process may die before either.                     *)
(*                                                                         *)
(* lastActionAt and providerUpdatedAt are one time, 0 when there is none.  *)
(* The parcel's own time is the number of its moves, and the local clock   *)
(* reads no earlier.  A provider status stands for its normalized status.  *)
(***************************************************************************)
EXTENDS Integers, FiniteSets

CONSTANTS
    Setups,     \* the couriers to look at and who is active with each
    Webhooks,   \* webhook calls that may be in progress at a time
    Pagers,     \* page syncs and refreshes that may be in progress at a time
    Steady,     \* those of them that are asked for again and again
    Untimed,    \* couriers that may leave the time of a report out
    Moves,      \* what the courier may do: pairs of statuses
    MaxTime     \* bound on the moves of the parcel

Couriers == {"SENDIT", "QUICKLIVRAISON", "AMEEX", "FORCELOG", "OZONEEXPRESS"}
Reporting == {"SENDIT", "QUICKLIVRAISON", "AMEEX"}
Workers == Webhooks \cup Pagers

ASSUME CourierStatusAssumption ==
    /\ Setups \subseteq [courier : Couriers, active : SUBSET Workers]
    /\ \A s \in Setups : s.courier \notin Reporting =>
                             s.active \cap Webhooks = {}
    /\ Untimed \subseteq Couriers
    /\ Steady \subseteq Pagers /\ Webhooks \cap Pagers = {}
    /\ IsFiniteSet(Workers)
    /\ MaxTime \in Nat

Terminal == {"DELIVERED", "CANCELLED", "REFUSED", "RETURNED_TO_SELLER"}
Progress == {"PENDING", "IN_TRANSIT", "UNREACHABLE", "RETURN_IN_TRANSIT"}
Status == Terminal \cup Progress
Risky == {"REFUSED", "UNREACHABLE"}
Report == [status : Status, at : Nat]

ASSUME MovesAssumption == Moves \subseteq Status \X Status

VARIABLES
    setup,      \* the courier of the parcel; never changes
    parcel,     \* the courier's own view of the parcel
    sent,       \* the reports of its moves
    row,        \* the courier's shipment row
    persisted,  \* persistCreatedDelivery or persistCreatedParcel has run
    work,       \* what each webhook call, page sync and refresh is doing
    booked,     \* the outcome last booked with the order
    missed,     \* since then a booking was lost, or the row was written
                \* unseen (history)
    uncounted   \* turns of the row into a risky status whose refusal is
                \* neither counted nor lost (history)

courierVars == <<setup, parcel, sent, row, persisted, work, booked, missed,
                 uncounted>>

courier == setup.courier
Created == [status |-> "PENDING", at |-> 0]
NoRow == [exists |-> FALSE, status |-> "PENDING", at |-> 0]
Row == [exists : BOOLEAN, status : Status, at : Nat]
RowOf(status, at) == [exists |-> TRUE, status |-> status, at |-> at]

(* after: the write is committed; what it still owes is books and risky.   *)
Stages == {"idle", "received", "fetched", "read", "after"}
Call(stage, report, seen, books) ==
    [stage |-> stage, report |-> report, seen |-> seen, books |-> books,
     risky |-> FALSE]
Idle == Call("idle", Created, NoRow, FALSE)

CourierInit ==
    /\ setup \in Setups
    /\ parcel = Created /\ sent = {}
    /\ row = NoRow /\ persisted = FALSE
    /\ work = [w \in Workers |-> Idle]
    /\ booked = "none" /\ missed = FALSE /\ uncounted = 0

(* The courier moves the parcel and reports it.                            *)
CourierMoves(s) ==
    /\ <<parcel.status, s>> \in Moves /\ parcel.at < MaxTime
    /\ parcel' = [status |-> s, at |-> parcel.at + 1]
    /\ sent' = sent \cup {parcel'}
    /\ UNCHANGED <<setup, row, persisted, work, booked, missed, uncounted>>

(* persistCreatedDelivery and persistCreatedParcel: an upsert, also over a *)
(* row imported in the meantime.  It follows the courier's answer at once, *)
(* or never when the process dies there: the parcel has not moved yet.     *)
PersistCreated ==
    /\ ~persisted /\ parcel = Created
    /\ persisted' = TRUE /\ row' = RowOf("PENDING", 0)
    /\ UNCHANGED <<setup, parcel, sent, work, booked, missed, uncounted>>

-----------------------------------------------------------------------------
(* A plausible slip: nothing replaces a terminal status.                   *)
FreezeTerminal(previous, r) ==
    previous.exists /\ previous.status \in Terminal

staleShipmentStatus(previous, r) ==
    /\ previous.exists
    /\ \/ /\ r.at # 0 /\ previous.at # 0
          /\ \/ r.at < previous.at
             \/ r.at = previous.at /\ r.status # previous.status
       \/ previous.status \in Terminal /\ r.status \notin Terminal

(* A plausible slip: a late progress report reopens a terminal parcel.     *)
LaterTime(r) == row.at = 0 \/ row.at <= r.at

(* The where clause of the webhook's update, terminalRegressionFilter      *)
(* included.                                                               *)
NotARegression(r) ==
    /\ r.status \in Terminal \/ row.status \notin Terminal
    /\ row.at = 0 \/ row.at <= r.at

shouldRefresh(seen, r) ==
    /\ ~staleShipmentStatus(seen, r)
    /\ ~seen.exists \/ seen.at = 0 \/ (r.at # 0 /\ r.at >= seen.at)

Turns(before, status) ==
    /\ status \in Risky
    /\ ~before.exists \/ before.status # status

(* Writes the row.  uncounted follows the couriers whose lock covers the   *)
(* whole decision.                                                         *)
Locked == courier \in {"AMEEX", "FORCELOG", "OZONEEXPRESS"}

Write(new) ==
    /\ row' = new
    /\ uncounted' = IF Locked /\ Turns(row, new.status)
                    THEN uncounted + 1 ELSE uncounted

Settle(w) == uncounted' = IF Locked /\ work[w].risky THEN uncounted - 1
                          ELSE uncounted

(* What the call still has to do after the commit.                         *)
Rest(w, books, risky) ==
    IF books \/ risky
    THEN [work[w] EXCEPT !.stage = "after", !.books = books, !.risky = risky]
    ELSE Idle

-----------------------------------------------------------------------------
(* processStatusWebhook of Sendit and QuickLivraison: read the shipment,   *)
(* then update it.  Ameex's processWebhook hands the report to             *)
(* persistSnapshot.                                                        *)
ReceiveWebhook(w, r) ==
    /\ w \in setup.active /\ work[w].stage = "idle" /\ row.exists
    /\ work' = [work EXCEPT ![w] =
           Call(IF courier = "AMEEX" THEN "fetched" ELSE "received", r, row, TRUE)]
    /\ UNCHANGED <<setup, parcel, sent, row, persisted, booked, missed,
                   uncounted>>

(* The order is booked whether or not the report was applied.              *)
ApplyWebhook(w) ==
    LET r == work[w].report
        applied == NotARegression(r)
    IN  /\ work[w].stage = "received"
        /\ Write(IF applied THEN RowOf(r.status, r.at) ELSE row)
        /\ work' = [work EXCEPT ![w] =
               Rest(w, TRUE, applied /\ Turns(work[w].seen, r.status))]
        /\ UNCHANGED <<setup, parcel, sent, persisted, booked, missed>>

-----------------------------------------------------------------------------
(* A request to the courier.  The answer is held until it is written.      *)
Fetch(w, books) ==
    /\ w \in setup.active /\ work[w].stage = "idle"
    /\ \E at \in {parcel.at} \cup (IF courier \in Untimed THEN {0} ELSE {}) :
           work' = [work EXCEPT ![w] =
               Call("fetched", [status |-> parcel.status, at |-> at], NoRow, books)]
    /\ UNCHANGED <<setup, parcel, sent, row, persisted, booked, missed,
                   uncounted>>

(* The syncs of ForceLog and OzoneExpress pass over what they take for     *)
(* finished.  Sendit and QuickLivraison list the courier's parcels, and    *)
(* Ameex imports all of them first.                                        *)
Resting == {"DELIVERED", "CANCELLED", "RETURNED_TO_SELLER"}

InSync ==
    courier \in {"FORCELOG", "OZONEEXPRESS"} =>
        row.exists /\ row.status \notin Resting

FetchPage(w) == InSync /\ Fetch(w, TRUE)

(* The merchant refreshes a parcel, or imports it by its code.             *)
refresh(w) == Locked /\ Fetch(w, TRUE)

(* POST tracking of OzoneExpress stores the status and books nothing.      *)
trackOzoneExpress(w) == courier = "OZONEEXPRESS" /\ Fetch(w, FALSE)

(* Sendit's reconcileProviderPage reads the shipment and writes it.        *)
ReadShipment(w) ==
    /\ courier = "SENDIT" /\ work[w].stage = "fetched"
    /\ work' = [work EXCEPT ![w] = [work[w] EXCEPT !.stage = "read", !.seen = row]]
    /\ UNCHANGED <<setup, parcel, sent, row, persisted, booked, missed,
                   uncounted>>

(* A shipment that appeared since it was read breaks the create; the       *)
(* transaction and the sync fail.                                          *)
WriteShipment(w) ==
    LET r == work[w].report
        seen == work[w].seen
        changed == ~seen.exists \/ seen.status # r.status
        fails == ~seen.exists /\ row.exists
        applied == ~fails /\ shouldRefresh(seen, r)
    IN  /\ work[w].stage = "read"
        /\ Write(IF applied
                 THEN RowOf(r.status, IF r.at # 0 THEN r.at ELSE seen.at)
                 ELSE row)
        /\ missed' = (missed \/ (applied /\ seen # row))
        /\ work' = [work EXCEPT ![w] = IF fails THEN Idle ELSE
               Rest(w, changed, changed /\ r.status \in Risky)]
        /\ UNCHANGED <<setup, parcel, sent, persisted, booked>>

-----------------------------------------------------------------------------
(* Under the courier's advisory lock: a stale answer changes nothing.      *)
UnderLock(w, at, books, risky) ==
    LET r == work[w].report
        stale == staleShipmentStatus(row, r)
    IN  /\ work[w].stage = "fetched"
        /\ Write(IF stale THEN row ELSE RowOf(r.status, at))
        /\ work' = [work EXCEPT ![w] = Rest(w, books, risky /\ ~stale)]
        /\ UNCHANGED <<setup, parcel, sent, persisted, booked>>

Fresh(w) == ~staleShipmentStatus(row, work[w].report)
Changed(w) == ~row.exists \/ row.status # work[w].report.status
Kept(w) == IF work[w].report.at # 0 THEN work[w].report.at ELSE row.at

(* reconcileProviderDeliveries books and counts what has changed.          *)
PersistQuickLivraison(w) ==
    /\ courier = "QUICKLIVRAISON" /\ UNCHANGED missed
    /\ UnderLock(w, Kept(w), Fresh(w) /\ Changed(w),
                 Turns(row, work[w].report.status))

(* A plausible slip: a refusal is counted whenever it is reported.         *)
PersistAmeexEach(w) ==
    /\ courier = "AMEEX" /\ UNCHANGED missed
    /\ UnderLock(w, Kept(w), Fresh(w), work[w].report.status \in Risky)

(* persistSnapshot of Ameex books whatever is not stale.                   *)
PersistAmeex(w) ==
    /\ courier = "AMEEX" /\ UNCHANGED missed
    /\ UnderLock(w, Kept(w), Fresh(w), Turns(row, work[w].report.status))

(* persistSnapshot of ForceLog stores the time, or that there is none.     *)
PersistForceLog(w) ==
    /\ courier = "FORCELOG" /\ UNCHANGED missed
    /\ UnderLock(w, work[w].report.at, Fresh(w),
                 Turns(row, work[w].report.status))

(* persistInfo of OzoneExpress: a parcel unknown here is created as new,   *)
(* dated now, before its tracking is looked at.                            *)
persistInfo(w) ==
    /\ courier = "OZONEEXPRESS" /\ work[w].stage = "fetched" /\ work[w].books
    /\ ~row.exists
    /\ Write(RowOf("PENDING", parcel.at))
    /\ UNCHANGED <<setup, parcel, sent, persisted, work, booked, missed>>

(* persistTrackingEnvelope, at the end of a refresh or alone; without a    *)
(* time the status is dated now.                                           *)
persistTrackingEnvelope(w) ==
    LET r == work[w].report
        at == IF r.at # 0 THEN r.at ELSE parcel.at
    IN  /\ courier = "OZONEEXPRESS" /\ (work[w].books => row.exists)
        /\ UnderLock(w, at, work[w].books, Turns(row, r.status))
        /\ missed' = (missed \/ (~work[w].books /\ Fresh(w) /\ Changed(w)))

-----------------------------------------------------------------------------
(* OzoneExpress counts the refusal first, the others book first.           *)
MayBook(w) ==
    /\ work[w].stage = "after" /\ work[w].books
    /\ courier = "OZONEEXPRESS" => ~work[w].risky

(* A plausible slip: the call books its own report, not what is stored.    *)
BookReport(w) ==
    /\ MayBook(w)
    /\ booked' = IF work[w].report.status \in Terminal
                 THEN work[w].report.status ELSE booked
    /\ missed' = FALSE
    /\ work' = [work EXCEPT ![w] = Rest(w, FALSE, work[w].risky)]
    /\ UNCHANGED <<setup, parcel, sent, row, persisted, uncounted>>

(* syncFromDispatchId reads the shipment as it is now, in a transaction of *)
(* its own; a parcel in progress books nothing.                            *)
BookOutcome(w) ==
    /\ MayBook(w)
    /\ booked' = IF row.status \in Terminal THEN row.status ELSE booked
    /\ missed' = FALSE
    /\ work' = [work EXCEPT ![w] = Rest(w, FALSE, work[w].risky)]
    /\ UNCHANGED <<setup, parcel, sent, row, persisted, uncounted>>

(* The booking throws.  A warning is logged, except that Ameex's error     *)
(* ends the call.                                                          *)
BookingFails(w) ==
    /\ MayBook(w)
    /\ missed' = TRUE
    /\ work' = [work EXCEPT ![w] =
           Rest(w, FALSE, work[w].risky /\ courier # "AMEEX")]
    /\ IF courier = "AMEEX" THEN Settle(w) ELSE UNCHANGED uncounted
    /\ UNCHANGED <<setup, parcel, sent, row, persisted, booked>>

recordShipmentOutcome(w) ==
    /\ work[w].stage = "after" /\ work[w].risky
    /\ courier # "OZONEEXPRESS" => ~work[w].books
    /\ Settle(w)
    /\ work' = [work EXCEPT ![w] = Rest(w, work[w].books, FALSE)]
    /\ UNCHANGED <<setup, parcel, sent, row, persisted, booked, missed>>

(* The process dies, or the database is lost, in the middle of a call.     *)
Crash(w) ==
    /\ work[w].stage # "idle"
    /\ missed' = (missed \/ (work[w].stage = "after" /\ work[w].books))
    /\ work' = [work EXCEPT ![w] = Idle] /\ Settle(w)
    /\ UNCHANGED <<setup, parcel, sent, row, persisted, booked>>

Persist(w) ==
    \/ PersistQuickLivraison(w) \/ PersistAmeex(w) \/ PersistForceLog(w)
    \/ persistInfo(w) \/ persistTrackingEnvelope(w)

CourierNext ==
    \/ \E s \in Status : CourierMoves(s)
    \/ PersistCreated
    \/ \E w \in Webhooks : \/ \E r \in sent : ReceiveWebhook(w, r)
                           \/ ApplyWebhook(w)
    \/ \E w \in Pagers : \/ FetchPage(w) \/ refresh(w) \/ trackOzoneExpress(w)
                         \/ ReadShipment(w) \/ WriteShipment(w)
    \/ \E w \in Workers : \/ Persist(w) \/ BookOutcome(w) \/ BookingFails(w)
                          \/ recordShipmentOutcome(w) \/ Crash(w)

CourierSpec == CourierInit /\ [][CourierNext]_courierVars

(* Some page syncs keep being asked for, and not every one of them dies.   *)
KeepsSyncing ==
    \A w \in Steady :
        /\ WF_courierVars(FetchPage(w) \/ BookOutcome(w)
                          \/ recordShipmentOutcome(w))
        /\ SF_courierVars(ReadShipment(w) \/ Persist(w))
        /\ SF_courierVars(WriteShipment(w))

FairCourierSpec == CourierSpec /\ KeepsSyncing

-----------------------------------------------------------------------------
(***************************************************************************)
(* Properties.                                                             *)
(***************************************************************************)

(* Type invariant.                                                         *)
CourierTypeOK ==
    /\ setup \in Setups
    /\ parcel \in Report /\ sent \subseteq Report
    /\ row \in Row /\ persisted \in BOOLEAN
    /\ work \in [Workers -> [stage : Stages, report : Report, seen : Row,
                             books : BOOLEAN, risky : BOOLEAN]]
    /\ booked \in Terminal \cup {"none"} /\ missed \in BOOLEAN
    /\ uncounted \in Int

(* A parcel that has come to its end in the database is not reopened: not  *)
(* by late, repeated or reordered webhooks, nor by any page sync or        *)
(* refresh, except Sendit's that read the row before it came to its end.   *)
TerminalNeverReopened ==
    [][row.status \in Terminal /\ row'.status \notin Terminal
           => \E w \in Pagers : work[w].stage = "read" /\ work[w].seen # row
      ]_courierVars

(* Once every call has come to its end and none lost its booking, the      *)
(* order is booked with the outcome the shipment shows, in whatever order  *)
(* the calls wrote the shipment and booked it.                             *)
OutcomeIsBooked ==
    /\ \A w \in Workers : ~(work[w].stage = "after" /\ work[w].books)
    /\ ~missed /\ row.status \in Terminal
    => booked = row.status

(* Under the couriers' locks every genuine turn of the stored status to a  *)
(* refusal or a missed call is counted by exactly one call, and a report   *)
(* that comes again or comes late is counted by none.                      *)
RiskOncePerTransition ==
    Locked => uncounted = Cardinality({w \in Workers : work[w].risky})

(* The row has come to rest too early.  It shows an end that the courier   *)
(* has corrected since and that the sync passes over; or its time is no    *)
(* older than the courier's last word although its status is: dated here,  *)
(* or by a late answer without a time, which keeps the newer one's.        *)
Stuck(s) ==
    \/ courier \in {"FORCELOG", "OZONEEXPRESS"}
       /\ (~row.exists \/ row.status \in Resting)
    \/ courier \in {"AMEEX", "OZONEEXPRESS"}
       /\ row.status # s /\ row.at >= parcel.at

(* A parcel that has come to its end shows its final status in the end,    *)
(* whatever reports were lost, provided that page syncs go on and the row  *)
(* does not get stuck, which Sendit's and QuickLivraison's never do.       *)
FinalStatusArrives ==
    setup.active \cap Steady # {} =>
        \A s \in Terminal :
            (<>[](parcel.status = s)) => <>[](row.status = s \/ Stuck(s))
=============================================================================
