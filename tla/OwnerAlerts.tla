---------------------------- MODULE OwnerAlerts ----------------------------
(***************************************************************************)
(* Alerts about a packaging material that runs low, and their WhatsApp     *)
(* message to the owner:                                                   *)
(*   src/notifications/notification-evaluator.service.ts  evaluateStore    *)
(*   src/notifications/notifications.service.ts           reconcile        *)
(*   src/notifications/packaging-owner-alert.service.ts   syncStore,       *)
(*                                                        dispatchDue      *)
(*                                                                         *)
(* The scheduler and the owner start evaluations and deliveries; both may  *)
(* overlap.  An evaluation reads the stock once and then makes the active  *)
(* notifications match what it read, one statement at a time.  A delivery  *)
(* claims one alert after the other.  Any statement may be the last of its *)
(* call.  Stock and Meta are external.                                     *)
(***************************************************************************)
EXTENDS Integers, SequencesExt

CONSTANTS
    Types,          \* LOW_STOCK and OUT_OF_STOCK, in the order they are reconciled
    Evaluations,    \* calls of evaluateStore in progress at a time
    Deliveries,     \* calls of dispatchDue in progress at a time
    MaxNotices,     \* bound on the notifications of the material
    MaxLevels,      \* bound on the changes of the stock
    MaxFailures,    \* bound on the calls that fail halfway
    MaxSends        \* sends of an alert before a rejection is final

ASSUME AlertsAssumption ==
    /\ Types \in Seq(STRING) /\ Types # <<>>
    /\ MaxNotices \in Nat /\ MaxLevels \in Nat /\ MaxFailures \in Nat
    /\ MaxSends \in Nat \ {0}

VARIABLES
    level,      \* the stock of the material against its minimum
    levels,     \* changes of the stock so far
    failures,   \* calls that failed so far
    notices,    \* Notification: one condition that held for a while
    alert,      \* PackagingOwnerAlert of a notification
    evaluation, \* what each evaluateStore is doing
    delivery,   \* what each dispatchDue is doing
    heard       \* messages Meta has accepted, by notification

alertVars == <<level, levels, failures, notices, alert, evaluation, delivery, heard>>

stockVars == <<level, levels, failures>>

Levels == {"OK"} \cup Range(Types)
Notices == 1 .. MaxNotices
Raised == DOMAIN notices
AlertStatus == {"none", "PENDING", "SENDING", "BLOCKED", "SENT", "FAILED",
                "UNKNOWN", "CANCELLED"}
Unsent == {"PENDING", "BLOCKED", "FAILED"}

NoAlert == [status |-> "none", attempts |-> 0, old |-> FALSE]
NoEvaluation == [stage |-> "idle", saw |-> "OK", type |-> 1, had |-> FALSE,
                 unresolved |-> {}]
NoDelivery == [stage |-> "idle", notice |-> 0, tries |-> 0, verdict |-> "none",
               met |-> {}]

AlertsInit ==
    /\ level \in Levels /\ levels = 0 /\ failures = 0
    /\ notices = <<>>
    /\ alert = [n \in Notices |-> NoAlert]
    /\ evaluation = [e \in Evaluations |-> NoEvaluation]
    /\ delivery = [d \in Deliveries |-> NoDelivery]
    /\ heard = [n \in Notices |-> 0]

(* Orders, purchases and adjustments change the stock.                     *)
StockMoves(to) ==
    /\ levels < MaxLevels /\ to # level
    /\ level' = to /\ levels' = levels + 1
    /\ UNCHANGED <<failures, notices, alert, evaluation, delivery, heard>>

-----------------------------------------------------------------------------
(* An evaluation: the stock, then LOW_STOCK, then OUT_OF_STOCK, then the   *)
(* alerts.                                                                 *)
Evaluating(e, state) == evaluation' = [evaluation EXCEPT ![e] = state]
Active(type) == {n \in Raised : notices[n].active /\ notices[n].type = type}
TypeOf(e) == Types[evaluation[e].type]

packagingStockAlerts(e) ==
    /\ evaluation[e].stage = "idle"
    /\ Evaluating(e, [NoEvaluation EXCEPT !.stage = "stock", !.saw = level])
    /\ UNCHANGED <<stockVars, notices, alert, delivery, heard>>

(* A plausible slip: resolved notifications count as active ones.          *)
ReadAny(e) ==
    /\ evaluation[e].stage = "stock"
    /\ Evaluating(e, [evaluation[e] EXCEPT !.stage = "active",
                          !.had = \E n \in Raised : notices[n].type = TypeOf(e)])
    /\ UNCHANGED <<stockVars, notices, alert, delivery, heard>>

ReadActive(e) ==
    /\ evaluation[e].stage = "stock"
    /\ Evaluating(e, [evaluation[e] EXCEPT !.stage = "active",
                                           !.had = Active(TypeOf(e)) # {}])
    /\ UNCHANGED <<stockVars, notices, alert, delivery, heard>>

(* The unique key (store, dedupeKey): another evaluation may have been     *)
(* faster.                                                                 *)
raise(type) ==
    IF Active(type) # {} THEN UNCHANGED notices
    ELSE /\ Len(notices) < MaxNotices
         /\ notices' = Append(notices, [type |-> type, active |-> TRUE])

resolve(type) ==
    notices' = [n \in Raised |-> IF n \in Active(type)
                                 THEN [notices[n] EXCEPT !.active = FALSE]
                                 ELSE notices[n]]

(* The rest of reconcile: raise what is new, resolve what holds no longer. *)
reconcile(e) ==
    LET wanted == evaluation[e].saw = TypeOf(e)
        last == evaluation[e].type = Len(Types)
    IN  /\ evaluation[e].stage = "active"
        /\ IF wanted /\ ~evaluation[e].had THEN raise(TypeOf(e))
           ELSE IF ~wanted /\ evaluation[e].had THEN resolve(TypeOf(e))
           ELSE UNCHANGED notices
        /\ Evaluating(e, IF last THEN [evaluation[e] EXCEPT !.stage = "cancel"]
                         ELSE [evaluation[e] EXCEPT !.stage = "stock", !.type = @ + 1])
        /\ UNCHANGED <<stockVars, alert, delivery, heard>>

(* syncStore: cancel the unsent alerts of resolved notifications, ...      *)
CancelResolved(e) ==
    /\ evaluation[e].stage = "cancel"
    /\ alert' = [n \in Notices |->
           IF n \in Raised /\ ~notices[n].active /\ alert[n].status \in Unsent
           THEN [alert[n] EXCEPT !.status = "CANCELLED"] ELSE alert[n]]
    /\ Evaluating(e, [evaluation[e] EXCEPT !.stage = "list"])
    /\ UNCHANGED <<stockVars, notices, delivery, heard>>

(* ... find the unresolved ones, ...                                       *)
ListUnresolved(e) ==
    /\ evaluation[e].stage = "list"
    /\ Evaluating(e, [evaluation[e] EXCEPT !.stage = "create",
                          !.unresolved = {n \in Raised : notices[n].active}])
    /\ UNCHANGED <<stockVars, notices, alert, delivery, heard>>

(* ... and give each an alert, once.                                       *)
CreateAlerts(e) ==
    /\ evaluation[e].stage = "create"
    /\ alert' = [n \in Notices |->
           IF n \in evaluation[e].unresolved /\ alert[n].status = "none"
           THEN [alert[n] EXCEPT !.status = "PENDING"] ELSE alert[n]]
    /\ Evaluating(e, NoEvaluation)
    /\ UNCHANGED <<stockVars, notices, delivery, heard>>

(* A statement of the evaluation fails: the next run starts it afresh.     *)
EvaluationFails(e) ==
    /\ evaluation[e].stage # "idle" /\ failures < MaxFailures
    /\ failures' = failures + 1
    /\ Evaluating(e, NoEvaluation)
    /\ UNCHANGED <<level, levels, notices, alert, delivery, heard>>

-----------------------------------------------------------------------------
(* A delivery.                                                             *)
Delivering(d, state) == delivery' = [delivery EXCEPT ![d] = state]
NextClaim(d) == [NoDelivery EXCEPT !.stage = "claim", !.met = delivery[d].met]
Goes(d, stage) == Delivering(d, [delivery[d] EXCEPT !.stage = stage])
Ends(d, verdict) ==
    Delivering(d, [delivery[d] EXCEPT !.stage = "write", !.verdict = verdict])

(* Ten minutes pass since the last update of a row that is being sent.     *)
AlertGrowsOld(n) ==
    /\ alert[n].status = "SENDING" /\ ~alert[n].old
    /\ alert' = [alert EXCEPT ![n].old = TRUE]
    /\ UNCHANGED <<stockVars, notices, evaluation, delivery, heard>>

(* A plausible slip: what was left behind is sent again.                   *)
RetryStale ==
    alert' = [n \in Notices |->
        IF alert[n].status = "SENDING" /\ alert[n].old
        THEN [alert[n] EXCEPT !.status = "PENDING", !.old = FALSE]
        ELSE alert[n]]

(* A crash after Meta accepts cannot be replayed: the row becomes UNKNOWN. *)
ExpireStale ==
    alert' = [n \in Notices |->
        IF alert[n].status = "SENDING" /\ alert[n].old
        THEN [alert[n] EXCEPT !.status = "UNKNOWN", !.old = FALSE]
        ELSE alert[n]]

dispatchDue(d) ==
    /\ delivery[d].stage = "idle"
    /\ ExpireStale
    /\ Goes(d, "claim")
    /\ UNCHANGED <<stockVars, notices, evaluation, heard>>

(* Rows that wait, also those put off for a quarter of an hour, which is   *)
(* longer than a call goes on: none meets a row twice.                     *)
Claimable(d, n) == /\ alert[n].status \in {"PENDING", "BLOCKED"}
                   /\ notices[n].active /\ n \notin delivery[d].met

(* One row is claimed at a time; after the last the call ends.             *)
ClaimAlert(d) ==
    /\ delivery[d].stage = "claim"
    /\ \/ \E n \in {i \in Raised : Claimable(d, i)} :
              /\ alert' = [alert EXCEPT ![n].status = "SENDING",
                                        ![n].old = FALSE]
              /\ Delivering(d, [delivery[d] EXCEPT !.stage = "deliver", !.notice = n,
                                               !.met = @ \cup {n}])
       \/ /\ \A n \in Raised : ~Claimable(d, n)
          /\ Delivering(d, NoDelivery) /\ UNCHANGED alert
    /\ UNCHANGED <<stockVars, notices, evaluation, heard>>

(* deliver reads the row and its notification, ...                         *)
ReadAlert(d) ==
    LET n == delivery[d].notice
    IN  /\ delivery[d].stage = "deliver"
        /\ Delivering(d, [delivery[d] EXCEPT
               !.tries = alert[n].attempts,
               !.stage = IF notices[n].active THEN "check" ELSE "write",
               !.verdict = IF notices[n].active THEN "none" ELSE "CANCELLED"])
        /\ UNCHANGED <<stockVars, notices, alert, evaluation, heard>>

(* ... then the stock, then the connection, the template and the owner's   *)
(* number, each of which may block the alert for a while.                  *)
CheckMaterial(d) ==
    LET n == delivery[d].notice
    IN  /\ delivery[d].stage = "check"
        /\ \/ level # notices[n].type /\ Ends(d, "CANCELLED")
           \/ level = notices[n].type /\ Ends(d, "BLOCKED")
           \/ level = notices[n].type /\ Goes(d, "ready")
        /\ UNCHANGED <<stockVars, notices, alert, evaluation, heard>>

(* "Recheck resolution immediately before the external side effect."       *)
Recheck(d) ==
    /\ delivery[d].stage = "ready"
    /\ IF notices[delivery[d].notice].active THEN Goes(d, "count")
       ELSE Ends(d, "CANCELLED")
    /\ UNCHANGED <<stockVars, notices, alert, evaluation, heard>>

CountSend(d) ==
    /\ delivery[d].stage = "count"
    /\ alert' = [alert EXCEPT ![delivery[d].notice].attempts = @ + 1,
                              ![delivery[d].notice].old = FALSE]
    /\ Goes(d, "send")
    /\ UNCHANGED <<stockVars, notices, evaluation, heard>>

(* Meta accepts, and says so or is not heard; or it rejects, for now or    *)
(* for good; or nothing arrives.                                           *)
SendAlert(d) ==
    LET n == delivery[d].notice
        again == delivery[d].tries + 1 < MaxSends
    IN  /\ delivery[d].stage = "send"
        /\ \/ /\ \E verdict \in {"SENT", "UNKNOWN"} : Ends(d, verdict)
              /\ heard' = [heard EXCEPT ![n] = @ + 1]
           \/ /\ \E verdict \in {"UNKNOWN", "FAILED"}
                     \cup (IF again THEN {"PENDING"} ELSE {}) : Ends(d, verdict)
              /\ UNCHANGED heard
        /\ UNCHANGED <<stockVars, notices, alert, evaluation>>

(* The last update of deliver, by id; then the next claim.                 *)
WriteAlert(d) ==
    LET n == delivery[d].notice
    IN  /\ delivery[d].stage = "write"
        /\ alert' = [alert EXCEPT ![n].status = delivery[d].verdict,
                                  ![n].old = FALSE]
        /\ Delivering(d, NextClaim(d))
        /\ UNCHANGED <<stockVars, notices, evaluation, heard>>

(* A statement of deliver fails, and the row stays as it is: the loop goes *)
(* on with the next one; or the process dies.                              *)
DeliveryFails(d) ==
    /\ delivery[d].stage # "idle" /\ failures < MaxFailures
    /\ failures' = failures + 1
    /\ \/ delivery[d].stage # "claim"
          /\ Delivering(d, NextClaim(d))
       \/ Delivering(d, NoDelivery)
    /\ UNCHANGED <<level, levels, notices, alert, evaluation, heard>>

-----------------------------------------------------------------------------
EvaluationStep(e) ==
    \/ packagingStockAlerts(e) \/ ReadActive(e) \/ reconcile(e)
    \/ CancelResolved(e) \/ ListUnresolved(e) \/ CreateAlerts(e)
DeliveryStep(d) ==
    \/ dispatchDue(d) \/ ClaimAlert(d) \/ ReadAlert(d) \/ CheckMaterial(d)
    \/ Recheck(d) \/ CountSend(d) \/ SendAlert(d) \/ WriteAlert(d)

AlertsNext ==
    \/ \E to \in Levels : StockMoves(to)
    \/ \E e \in Evaluations : EvaluationStep(e) \/ EvaluationFails(e)
    \/ \E n \in Notices : AlertGrowsOld(n)
    \/ \E d \in Deliveries : DeliveryStep(d) \/ DeliveryFails(d)

AlertsSpec == AlertsInit /\ [][AlertsNext]_alertVars

(* The scheduler keeps calling, and an evaluation goes on until it ends or *)
(* fails, which not every one does (MaxFailures).                          *)
KeepsAlerting == \A e \in Evaluations : WF_alertVars(EvaluationStep(e))

FairAlertsSpec == AlertsSpec /\ KeepsAlerting

-----------------------------------------------------------------------------
(***************************************************************************)
(* Properties.                                                             *)
(***************************************************************************)

(* "One notification cycle creates at most one send", and what the owner   *)
(* is shown is true: an alert that is shown as waiting, rejected or called *)
(* off never reached Meta, one shown as sent did; whatever calls overlap,  *)
(* fail or are taken for dead while they send.                             *)
OneSendPerCycle ==
    \A n \in Notices :
        /\ heard[n] <= 1
        /\ alert[n].status \in Unsent \cup {"none", "CANCELLED"} => heard[n] = 0
        /\ alert[n].status = "SENT" => heard[n] = 1

(* The notifications come to match the stock for good: once it stops       *)
(* moving, which it does after MaxLevels changes, the right one is active  *)
(* and no other, whatever overlapping evaluations had read before.         *)
AlertsFollowStock == <>[](\A t \in Range(Types) : (Active(t) # {}) <=> (t = level))
=============================================================================
