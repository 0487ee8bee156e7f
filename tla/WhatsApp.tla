------------------------------ MODULE WhatsApp ------------------------------
(***************************************************************************)
(* Messages to customers, and the balance that pays for them:              *)
(*   src/whatsapp/whatsapp-trigger.service.ts   onShipmentStatus           *)
(*   src/whatsapp/whatsapp-dispatch.service.ts  runDue and what it calls   *)
(*   src/whatsapp/whatsapp-balance.service.ts   debit, refund, adminCredit *)
(*   src/whatsapp/whatsapp-webhook.service.ts   applyStatus                *)
(*                                                                         *)
(* A scheduler starts runs; runs overlap.  Each closes the rows that look  *)
(* abandoned, claims those that are due, and sends them one after the      *)
(* other.  Debits, refunds and credits are transactions under the store's  *)
(* lock; everything else is a statement of its own, and any of them may    *)
(* fail or be the last before the process dies.  Meta may accept a message *)
(* whose answer is lost, and reports what became of a message late,        *)
(* repeatedly and in any order.                                            *)
(*                                                                         *)
(* One store, one currency.  The append-only entries are kept as what the  *)
(* code reads back of them: their total, and what they add up to per       *)
(* message.                                                                *)
(***************************************************************************)
EXTENDS Integers, FiniteSets

CONSTANTS
    Messages,       \* one per order and courier status
    Runs,           \* calls of runDue in progress at a time
    Hooks,          \* status webhooks in progress at a time
    Prices,         \* prices of a message
    Credits,        \* amounts an administrator adds or takes
    OpeningBalance,
    MaxBalance,     \* bound on the credit of the store
    MaxAttempts,    \* MAX_SEND_ATTEMPTS
    NoMessage

ASSUME WhatsAppAssumption ==
    /\ Prices # {} /\ Prices \subseteq Nat \ {0}
    /\ Credits \subseteq Int
    /\ OpeningBalance \in Nat /\ MaxBalance \in Nat
    /\ MaxAttempts \in Nat \ {0}
    /\ NoMessage \notin Messages

VARIABLES
    status,     \* WhatsAppMessage.status, "none" before it is queued
    attempts,   \* WhatsAppMessage.attempts
    old,        \* rows not updated for SENDING_STALE_MINUTES
    linked,     \* messages whose providerMessageId is stored
    total,      \* sum of all entries: the balance
    net,        \* what a message has been charged and not been refunded
    price,      \* WhatsAppPricing
    run,        \* what each call of runDue is doing
    hook,       \* what each webhook call is doing
    accepted,   \* messages Meta has accepted
    lost,       \* acceptances that a run did not record (history)
    missed,     \* charges that nobody returns any more (history)
    raced       \* taken for abandoned, but sent or being sent; or reported
                \* delivered over a report of failure (history)

whatsAppVars == <<status, attempts, old, linked, total, net, price, run, hook,
                  accepted, lost, missed, raced>>
moneyVars == <<total, net, price, missed>>
metaVars == <<accepted, lost>>

Status == {"none", "SCHEDULED", "SENDING", "SENT", "DELIVERED", "READ",
           "FAILED", "SKIPPED"}
Rank(s) == CASE s = "SENT" -> 1 [] s = "DELIVERED" -> 2 [] s = "READ" -> 3
             [] OTHER -> 0

RunStages == {"idle", "recover", "closing", "process", "read", "priced",
              "charged", "counted", "accepted", "failing", "stopped"}
NoRun == [stage |-> "idle", todo |-> {}, batch |-> {}, msg |-> NoMessage,
          tries |-> 0, price |-> 0, verdict |-> "FAILED"]
NoHook == [stage |-> "idle", msg |-> NoMessage, seen |-> "none",
           next |-> "none"]

Reports == {"SENT", "DELIVERED", "READ", "FAILED"}
RunStates == [stage : RunStages, todo : SUBSET Messages,
              batch : SUBSET Messages, msg : Messages \cup {NoMessage},
              tries : Nat, price : Prices \cup {0},
              verdict : {"SCHEDULED", "SKIPPED", "FAILED"}]
HookStates == [stage : {"idle", "received", "refund"},
               msg : Messages \cup {NoMessage}, seen : Status,
               next : Reports \cup {"none"}]

WhatsAppInit ==
    /\ status = [m \in Messages |-> "none"]
    /\ attempts = [m \in Messages |-> 0]
    /\ old = {} /\ linked = {}
    /\ total = OpeningBalance
    /\ net = [m \in Messages |-> 0]
    /\ price \in Prices
    /\ run = [r \in Runs |-> NoRun]
    /\ hook = [c \in Hooks |-> NoHook]
    /\ accepted = [m \in Messages |-> 0]
    /\ lost = [m \in Messages |-> 0]
    /\ missed = {} /\ raced = {}

-----------------------------------------------------------------------------
(* Balance.                                                                *)

(* debitForMessage, where the balance covers the price.                    *)
debitForMessage(m, p) ==
    /\ total >= p
    /\ total' = total - p
    /\ net' = [net EXCEPT ![m] = @ + p]

(* A plausible slip: a refund returns the price of a message.              *)
RefundPrice(m) ==
    /\ total' = total + price
    /\ net' = [net EXCEPT ![m] = @ - price]
    /\ UNCHANGED missed

(* Whatever is still charged for the message comes back.                   *)
refundMessage(m) ==
    /\ total' = total + net[m]
    /\ net' = [net EXCEPT ![m] = 0]
    /\ UNCHANGED missed

(* The refund throws; its callers log that and go on.                      *)
RefundFails(m) ==
    /\ missed' = IF net[m] > 0 THEN missed \cup {m} ELSE missed
    /\ UNCHANGED <<total, net>>

(* A repeated idempotency key changes nothing.                             *)
adminCredit(a) ==
    /\ total + a \in 0 .. MaxBalance
    /\ total' = total + a
    /\ UNCHANGED <<status, attempts, old, linked, net, price, run, hook,
                   metaVars, missed, raced>>

setPricing(p) ==
    /\ p # price
    /\ price' = p
    /\ UNCHANGED <<status, attempts, old, linked, total, net, run, hook,
                   metaVars, missed, raced>>

-----------------------------------------------------------------------------
(* A courier status queues its message once; without a phone it is SKIPPED. *)
onShipmentStatus(m) ==
    /\ status[m] = "none"
    /\ \E s \in {"SCHEDULED", "SKIPPED"} : status' = [status EXCEPT ![m] = s]
    /\ UNCHANGED <<attempts, old, linked, moneyVars, run, hook, metaVars,
                   raced>>

(* Time passes.  A row that a run is working on is updated often enough:   *)
(* each wait for Meta ends after seconds.  One that waits for its turn in  *)
(* a batch, or was abandoned, is not.                                      *)
GrowOld(m) ==
    /\ status[m] = "SENDING" /\ m \notin old
    /\ \A r \in Runs : run[r].msg = m => run[r].stage = "closing"
    /\ old' = old \cup {m}
    /\ UNCHANGED <<status, attempts, linked, moneyVars, run, hook, metaVars,
                   raced>>

-----------------------------------------------------------------------------
(* A run: recoverStale, claimDue, and processOne for each claimed row.     *)

Becomes(r, state) == run' = [run EXCEPT ![r] = state]
Step(r, s) == Becomes(r, [run[r] EXCEPT !.stage = s])
Stop(r, s, verdict) ==
    Becomes(r, [run[r] EXCEPT !.stage = s, !.verdict = verdict])
NextInBatch(r, batch) ==
    Becomes(r, IF batch = {} THEN NoRun
               ELSE [NoRun EXCEPT !.stage = "process", !.batch = batch])

(* A plausible slip: only rows with a charge are taken care of.            *)
StaleCharged == {m \in old : status[m] = "SENDING" /\ net[m] > 0}

Stale == {m \in old : status[m] = "SENDING"}

StartRun(r) ==
    /\ run[r].stage = "idle"
    /\ Becomes(r, [run[r] EXCEPT !.stage = "recover", !.todo = Stale])
    /\ UNCHANGED <<status, attempts, old, linked, moneyVars, hook, metaVars,
                   raced>>

RecoverRefund(r, m) ==
    /\ run[r].stage = "recover" /\ m \in run[r].todo
    /\ refundMessage(m) \/ RefundFails(m)
    /\ Becomes(r, [run[r] EXCEPT !.stage = "closing", !.msg = m,
                                 !.todo = run[r].todo \ {m}])
    /\ raced' = IF status[m] # "SENDING" \/ \E q \in Runs : run[q].msg = m
                THEN raced \cup {m} ELSE raced
    /\ UNCHANGED <<status, attempts, old, linked, price, hook, metaVars>>

(* finish(): only a row that is still SENDING gets its verdict.            *)
Finish(m, verdict) ==
    /\ status' = IF status[m] = "SENDING"
                 THEN [status EXCEPT ![m] = verdict] ELSE status
    /\ old' = IF status[m] = "SENDING" THEN old \ {m} ELSE old

(* A plausible slip: an abandoned row is sent again.                       *)
RecoverRetries(r) ==
    /\ run[r].stage = "closing"
    /\ Finish(run[r].msg, "SCHEDULED")
    /\ Becomes(r, [run[r] EXCEPT !.stage = "recover", !.msg = NoMessage])
    /\ UNCHANGED <<attempts, linked, moneyVars, hook, metaVars, raced>>

RecoverFinish(r) ==
    /\ run[r].stage = "closing"
    /\ Finish(run[r].msg, "FAILED")
    /\ Becomes(r, [run[r] EXCEPT !.stage = "recover", !.msg = NoMessage])
    /\ UNCHANGED <<attempts, linked, moneyVars, hook, metaVars, raced>>

(* The rows that are due and that no other run is claiming.                *)
claimDue(r) ==
    /\ run[r].stage = "recover" /\ run[r].todo = {}
    /\ \E S \in SUBSET {m \in Messages : status[m] = "SCHEDULED"} :
           /\ status' = [m \in Messages |-> IF m \in S THEN "SENDING"
                                            ELSE status[m]]
           /\ old' = old \ S
           /\ NextInBatch(r, S)
    /\ UNCHANGED <<attempts, linked, moneyVars, hook, metaVars, raced>>

(* A row that is no longer SENDING, or cannot be read, is passed over.      *)
ReadMessage(r, m) ==
    /\ run[r].stage = "process" /\ m \in run[r].batch
    /\ \/ /\ status[m] = "SENDING"
          /\ Becomes(r, [run[r] EXCEPT !.stage = "read", !.msg = m,
                                       !.batch = run[r].batch \ {m},
                                       !.tries = attempts[m]])
       \/ NextInBatch(r, run[r].batch \ {m})
    /\ UNCHANGED <<status, attempts, old, linked, moneyVars, hook, metaVars,
                   raced>>

(* preflight: the connection, the settings, the parcel and the template    *)
(* allow the message, and it has a price.                                  *)
preflight(r) ==
    /\ run[r].stage = "read"
    /\ \/ Becomes(r, [run[r] EXCEPT !.stage = "priced", !.price = price])
       \/ \E verdict \in {"SKIPPED", "FAILED"} : Stop(r, "stopped", verdict)
    /\ UNCHANGED <<status, attempts, old, linked, moneyVars, hook, metaVars,
                   raced>>

Debit(r) ==
    /\ run[r].stage = "priced"
    /\ \/ debitForMessage(run[r].msg, run[r].price) /\ Step(r, "charged")
       \/ /\ total < run[r].price
          /\ Stop(r, "stopped", "FAILED")
          /\ UNCHANGED <<total, net>>
    /\ UNCHANGED <<status, attempts, old, linked, price, hook, metaVars,
                   missed, raced>>

CountAttempt(r) ==
    /\ run[r].stage = "charged"
    /\ attempts' = [attempts EXCEPT ![run[r].msg] = run[r].tries + 1]
    /\ old' = old \ {run[r].msg}
    /\ Step(r, "counted")
    /\ UNCHANGED <<status, linked, moneyVars, hook, metaVars, raced>>

Retry(r) == IF run[r].tries + 1 < MaxAttempts THEN "SCHEDULED" ELSE "FAILED"

(* sendTemplate: Meta accepts; or it refuses; or it is overloaded or not   *)
(* reached, and may have accepted the message all the same.                *)
SendTemplate(r) ==
    LET m == run[r].msg
    IN  /\ run[r].stage = "counted"
        /\ \/ /\ Step(r, "accepted")
              /\ accepted' = [accepted EXCEPT ![m] = @ + 1]
              /\ UNCHANGED lost
           \/ /\ Stop(r, "failing", Retry(r))
              /\ accepted' = [accepted EXCEPT ![m] = @ + 1]
              /\ lost' = [lost EXCEPT ![m] = @ + 1]
           \/ /\ \E verdict \in {Retry(r), "FAILED"} : Stop(r, "failing", verdict)
              /\ UNCHANGED metaVars
        /\ UNCHANGED <<status, attempts, old, linked, moneyVars, hook, raced>>

MarkSent(r) ==
    LET m == run[r].msg
    IN  /\ run[r].stage = "accepted"
        /\ status' = [status EXCEPT ![m] = "SENT"]
        /\ linked' = linked \cup {m}
        /\ old' = old \ {m}
        /\ NextInBatch(r, run[r].batch)
        /\ UNCHANGED <<attempts, moneyVars, hook, metaVars, raced>>

(* A plausible slip: the charge is noted only with the attempt.            *)
ThrowsUncharged(r) ==
    /\ \/ run[r].stage \in {"read", "priced", "charged"}
          /\ Stop(r, "stopped", "FAILED")
       \/ run[r].stage \in {"counted", "accepted"}
          /\ Stop(r, "failing", "FAILED")
    /\ UNCHANGED <<status, attempts, old, linked, moneyVars, hook, metaVars,
                   raced>>

(* A statement fails, or the token cannot be decrypted: INTERNAL_ERROR.    *)
Throws(r) ==
    LET m == run[r].msg
    IN  /\ \/ run[r].stage \in {"read", "priced"} /\ Stop(r, "stopped", "FAILED")
           \/ run[r].stage \in {"charged", "counted", "accepted"}
              /\ Stop(r, "failing", "FAILED")
        /\ lost' = IF run[r].stage = "accepted"
                   THEN [lost EXCEPT ![m] = @ + 1] ELSE lost
        /\ UNCHANGED <<status, attempts, old, linked, moneyVars, hook,
                       accepted, raced>>

(* The catch block of processOne: refund what was charged, then            *)
(* handleFailure.                                                          *)
RefundCharge(r) ==
    /\ run[r].stage = "failing"
    /\ refundMessage(run[r].msg) \/ RefundFails(run[r].msg)
    /\ Step(r, "stopped")
    /\ UNCHANGED <<status, attempts, old, linked, price, hook, metaVars,
                   raced>>

(* Where handleFailure throws, runDue logs that and goes on.               *)
handleFailure(r) ==
    /\ run[r].stage = "stopped"
    /\ Finish(run[r].msg, run[r].verdict) \/ UNCHANGED <<status, old>>
    /\ NextInBatch(r, run[r].batch)
    /\ UNCHANGED <<attempts, linked, moneyVars, hook, metaVars, raced>>

(* The process dies.  A charge is returned by the recovery of the row,     *)
(* unless the row is closed already or its recovery is under way.          *)
Crash(r) ==
    LET m == run[r].msg
        Recovering == \E q \in Runs \ {r} :
                          m \in run[q].todo \/ run[q].msg = m
    IN  /\ run[r].stage # "idle"
        /\ Becomes(r, NoRun)
        /\ lost' = IF run[r].stage = "accepted"
                   THEN [lost EXCEPT ![m] = @ + 1] ELSE lost
        /\ missed' = IF /\ m \in Messages /\ net[m] > 0
                        /\ run[r].stage # "closing"
                        /\ status[m] # "SENDING" \/ Recovering
                     THEN missed \cup {m} ELSE missed
        /\ UNCHANGED <<status, attempts, old, linked, total, net, price, hook,
                       accepted, raced>>

-----------------------------------------------------------------------------
(* applyStatus: read the message, then update it by id.                    *)
ReceiveStatus(c, m, next) ==
    /\ hook[c].stage = "idle" /\ m \in linked /\ status[m] # "FAILED"
    /\ hook' = [hook EXCEPT ![c] = [stage |-> "received", msg |-> m,
                                    seen |-> status[m], next |-> next]]
    /\ UNCHANGED <<status, attempts, old, linked, moneyVars, run, metaVars,
                   raced>>

ApplyStatus(c) ==
    LET m == hook[c].msg
        fails == hook[c].next = "FAILED" /\ Rank(hook[c].seen) < 2
        advances == Rank(hook[c].next) > Rank(hook[c].seen)
    IN  /\ hook[c].stage = "received"
        /\ status' = IF fails \/ advances
                     THEN [status EXCEPT ![m] = hook[c].next] ELSE status
        /\ hook' = [hook EXCEPT ![c] =
               IF fails THEN [@ EXCEPT !.stage = "refund"] ELSE NoHook]
        /\ raced' = IF ~fails /\ advances /\ status[m] = "FAILED"
                    THEN raced \cup {m} ELSE raced
        /\ UNCHANGED <<attempts, old, linked, moneyVars, run, metaVars>>

RefundFailed(c) ==
    /\ hook[c].stage = "refund"
    /\ refundMessage(hook[c].msg) \/ RefundFails(hook[c].msg)
    /\ hook' = [hook EXCEPT ![c] = NoHook]
    /\ UNCHANGED <<status, attempts, old, linked, price, run, metaVars, raced>>

RunStep(r) ==
    \/ StartRun(r) \/ RecoverFinish(r) \/ claimDue(r) \/ preflight(r)
    \/ Debit(r) \/ CountAttempt(r) \/ SendTemplate(r) \/ MarkSent(r)
    \/ Throws(r) \/ RefundCharge(r) \/ handleFailure(r)
    \/ \E m \in Messages : RecoverRefund(r, m) \/ ReadMessage(r, m)

WhatsAppNext ==
    \/ \E m \in Messages : onShipmentStatus(m) \/ GrowOld(m)
    \/ \E r \in Runs : RunStep(r) \/ Crash(r)
    \/ \E c \in Hooks :
           \/ \E m \in Messages, next \in Reports : ReceiveStatus(c, m, next)
           \/ ApplyStatus(c) \/ RefundFailed(c)
    \/ \E a \in Credits : adminCredit(a)
    \/ \E p \in Prices : setPricing(p)

WhatsAppSpec == WhatsAppInit /\ [][WhatsAppNext]_whatsAppVars

(* The scheduler keeps calling, time passes, and not every run dies before *)
(* it has closed an abandoned row.                                         *)
KeepsRunning ==
    /\ \A m \in Messages : WF_whatsAppVars(GrowOld(m))
    /\ \A r \in Runs : /\ WF_whatsAppVars(RunStep(r))
                       /\ SF_whatsAppVars(RecoverFinish(r))
                       /\ \A m \in Messages : SF_whatsAppVars(RecoverRefund(r, m))

FairWhatsAppSpec == WhatsAppSpec /\ KeepsRunning

-----------------------------------------------------------------------------
(***************************************************************************)
(* Properties.                                                             *)
(***************************************************************************)

(* Type invariant.                                                         *)
WhatsAppTypeOK ==
    /\ status \in [Messages -> Status]
    /\ attempts \in [Messages -> Nat]
    /\ {old, linked, missed, raced} \subseteq SUBSET Messages
    /\ total \in Nat /\ net \in [Messages -> Nat] /\ price \in Prices
    /\ run \in [Runs -> RunStates] /\ hook \in [Hooks -> HookStates]

(* The balance implements the purse a merchant is promised, whatever runs, *)
(* webhooks, administrators and crashes do at the same time.               *)
ThePurse == INSTANCE Purse WITH balance <- total, charged <- net,
                                owing <- missed
ImplementsPurse == ThePurse!PurseSpec

Attended(m) ==
    \/ \E r \in Runs : run[r].msg = m
    \/ \E c \in Hooks : hook[c].msg = m /\ hook[c].stage = "refund"

(* Zomaal charges per sent message.  A message that failed, was skipped or *)
(* waits for its next attempt costs nothing once nobody is working on it:  *)
(* every way out of processOne, the recovery of a crashed run and a late   *)
(* report of failure return its charge, unless the refund itself was lost. *)
(* What was sent stays charged, unless a run took the row for abandoned    *)
(* that another was sending, or a report of delivery, read before a report *)
(* of failure was stored, was written over it.                             *)
ChargedIffSent ==
    \A m \in Messages :
        /\ status[m] \in {"SCHEDULED", "FAILED", "SKIPPED"}
           /\ ~Attended(m) /\ m \notin missed
           => net[m] = 0
        /\ status[m] \in {"SENT", "DELIVERED", "READ"} /\ m \notin raced
           => net[m] > 0

(* One message per order and courier status: Meta gets a message again     *)
(* only when the answer to an earlier attempt was lost, never because two  *)
(* runs overlap or one crashed.                                            *)
SentOnce == \A m \in Messages : accepted[m] <= 1 + lost[m]

(* No message is SENDING for good, although runs die: a later run finds    *)
(* what an earlier one left behind.                                        *)
SendingEnds ==
    \A m \in Messages : status[m] = "SENDING" ~> status[m] # "SENDING"
=============================================================================
