--------------------------- MODULE MessagesProofs ---------------------------
(***************************************************************************)
(* What the WhatsApp messages promise.                                     *)
(*                                                                         *)
(* Messages to customers (WhatsApp): the balance implements the purse      *)
(* merchants are promised; Meta gets a message again only after a lost     *)
(* answer; and a message is charged if and only if it was sent.  For any   *)
(* number of messages, runs, webhook calls, prices and credits.            *)
(*                                                                         *)
(* Alerts to the owner (OwnerAlerts): an alert reaches Meta at most once,  *)
(* for any number of evaluations, deliveries and failures.                 *)
(***************************************************************************)
EXTENDS WhatsApp, OwnerAlerts, SequenceTheorems, TLAPS

Sending == {"read", "priced", "charged", "counted", "accepted", "failing",
            "stopped"}
Uncharged == {"read", "priced", "stopped"}

Sends(r, m) == run[r].stage \in Sending /\ run[r].msg = m
Handles(r, m) == m \in run[r].batch \/ Sends(r, m)
Waiting(m) == status[m] \in {"none", "SCHEDULED"}
Free(m) == net[m] = 0 \/ m \in missed

(* What the stage of a run or a webhook call says of its other fields.     *)
StagesOK ==
    /\ \A r \in Runs :
           /\ run[r].stage \in {"idle", "recover", "closing"}
                  => run[r].batch = {}
           /\ run[r].stage \in Sending \cup {"closing"}
                  => run[r].msg \in Messages
           /\ run[r].stage = "priced" => run[r].price \in Prices
    /\ \A c \in Hooks :
           hook[c].stage # "idle" => /\ hook[c].msg \in Messages
                                     /\ hook[c].next \in Reports

(* A message is claimed by one run at a time, and by it once.              *)
Sole ==
    /\ \A r, q \in Runs, m \in Messages :
           Handles(r, m) /\ Handles(q, m) => r = q
    /\ \A r \in Runs, m \in Messages : ~ (m \in run[r].batch /\ Sends(r, m))
    /\ \A r \in Runs, m \in Messages : Handles(r, m) => ~ Waiting(m)

(* No charge is left on a message whose next charge is still to come.      *)
FreeBeforeCharge ==
    /\ \A m \in Messages : Waiting(m) => Free(m)
    /\ \A r \in Runs : \A m \in run[r].batch : Free(m)
    /\ \A r \in Runs : run[r].stage \in Uncharged => Free(run[r].msg)

PurseInv == WhatsAppTypeOK /\ StagesOK /\ Sole /\ FreeBeforeCharge

LEMMA PurseInitInv == ASSUME WhatsAppAssumption, WhatsAppInit PROVE PurseInv
  <1>1. WhatsAppTypeOK
    BY DEF WhatsAppAssumption, WhatsAppInit, WhatsAppTypeOK, NoRun, NoHook,
           Status, RunStages, RunStates, HookStates, Reports
  <1>2. StagesOK
    BY DEF WhatsAppInit, StagesOK, NoRun, NoHook, Sending
  <1>3. Sole
    BY DEF WhatsAppInit, Sole, Handles, Sends, Sending, NoRun
  <1>4. FreeBeforeCharge
    BY DEF WhatsAppInit, FreeBeforeCharge, Free, Uncharged, NoRun
  <1>5. QED
    BY <1>1, <1>2, <1>3, <1>4 DEF PurseInv

-----------------------------------------------------------------------------
(* Actions that leave the runs alone.                                      *)
LEMMA MoneySteps ==
    ASSUME PurseInv, WhatsAppAssumption,
           \/ \E a \in Credits : adminCredit(a)
           \/ \E p \in Prices : setPricing(p)
    PROVE  PurseInv'
  BY DEF PurseInv, WhatsAppAssumption, adminCredit, setPricing, metaVars,
         WhatsAppTypeOK, StagesOK, Sole, FreeBeforeCharge, Handles, Sends,
         Waiting, Free

LEMMA QueueSteps ==
    ASSUME PurseInv, NEW m \in Messages, onShipmentStatus(m) \/ GrowOld(m)
    PROVE  PurseInv'
  <1>1. WhatsAppTypeOK'
    BY DEF PurseInv, onShipmentStatus, GrowOld, moneyVars, metaVars,
           WhatsAppTypeOK, Status
  <1>2. StagesOK'
    BY DEF PurseInv, onShipmentStatus, GrowOld, moneyVars, StagesOK
  <1>3. Sole'
    BY DEF PurseInv, onShipmentStatus, GrowOld, moneyVars, Sole, Handles,
           Sends, Waiting, WhatsAppTypeOK
  <1>4. FreeBeforeCharge'
    BY DEF PurseInv, onShipmentStatus, GrowOld, moneyVars, FreeBeforeCharge,
           Waiting, Free, WhatsAppTypeOK
  <1>5. QED
    BY <1>1, <1>2, <1>3, <1>4 DEF PurseInv

LEMMA HookSteps ==
    ASSUME PurseInv, NEW c \in Hooks,
           \/ \E m \in Messages, next \in Reports : ReceiveStatus(c, m, next)
           \/ ApplyStatus(c)
           \/ RefundFailed(c)
    PROVE  PurseInv'
  <1>1. CASE \E m \in Messages, next \in Reports : ReceiveStatus(c, m, next)
    <2>1. WhatsAppTypeOK' /\ StagesOK'
      BY <1>1 DEF PurseInv, ReceiveStatus, moneyVars, metaVars, WhatsAppTypeOK,
                  HookStates, StagesOK
    <2>2. Sole' /\ FreeBeforeCharge'
      BY <1>1 DEF PurseInv, ReceiveStatus, moneyVars, Sole, FreeBeforeCharge,
                  Handles, Sends, Waiting, Free
    <2>3. QED
      BY <2>1, <2>2 DEF PurseInv
  <1>2. CASE ApplyStatus(c)
    <2>1. hook[c].msg \in Messages /\ hook[c].next \in Reports
      BY <1>2 DEF PurseInv, StagesOK, ApplyStatus
    <2>2. /\ \A m \in Messages :
                 status'[m] = status[m] \/ status'[m] \in Reports
          /\ status' \in [Messages -> Status]
      BY <1>2, <2>1 DEF PurseInv, WhatsAppTypeOK, ApplyStatus, Reports, Status
    <2>3. WhatsAppTypeOK'
      BY <1>2, <2>1, <2>2 DEF PurseInv, ApplyStatus, moneyVars, metaVars,
         WhatsAppTypeOK, NoHook, HookStates, Status, Reports
    <2>4. StagesOK'
      BY <1>2, <2>1 DEF PurseInv, ApplyStatus, StagesOK, NoHook,
         WhatsAppTypeOK
    <2>5. Sole'
      BY <1>2, <2>2 DEF PurseInv, ApplyStatus, Sole, Handles, Sends, Waiting,
         Reports
    <2>6. FreeBeforeCharge'
      BY <1>2, <2>2 DEF PurseInv, ApplyStatus, moneyVars, FreeBeforeCharge,
         Waiting, Free, Reports
    <2>7. QED
      BY <2>3, <2>4, <2>5, <2>6 DEF PurseInv
  <1>3. CASE RefundFailed(c)
    <2>1. hook[c].msg \in Messages
      BY <1>3 DEF PurseInv, StagesOK, RefundFailed
    <2>2. /\ total' \in Nat /\ net' \in [Messages -> Nat]
          /\ missed' \in SUBSET Messages
          /\ \A m \in Messages : Free(m) => Free(m)'
      BY <1>3, <2>1 DEF PurseInv, WhatsAppTypeOK, RefundFailed, refundMessage,
         RefundFails, Free
    <2>3. WhatsAppTypeOK'
      BY <1>3, <2>2 DEF PurseInv, RefundFailed, metaVars, WhatsAppTypeOK,
         NoHook, HookStates, Status, Reports
    <2>4. StagesOK'
      BY <1>3 DEF PurseInv, RefundFailed, StagesOK, NoHook, WhatsAppTypeOK
    <2>5. Sole'
      BY <1>3 DEF PurseInv, RefundFailed, Sole, Handles, Sends, Waiting
    <2>6. FreeBeforeCharge'
      BY <1>3, <2>2 DEF PurseInv, RefundFailed, FreeBeforeCharge, Waiting,
         StagesOK, Sending, Uncharged, WhatsAppTypeOK, RunStates
    <2>7. QED
      BY <2>3, <2>4, <2>5, <2>6 DEF PurseInv
  <1>4. QED
    BY <1>1, <1>2, <1>3

-----------------------------------------------------------------------------
(* Actions of a run: recovery.                                             *)
LEMMA Frame ==
    ASSUME WhatsAppTypeOK, NEW r \in Runs, NEW state \in RunStates,
           Becomes(r, state)
    PROVE  /\ run' \in [Runs -> RunStates]
           /\ run'[r] = state
           /\ \A q \in Runs \ {r} : run'[q] = run[q]
  BY DEF WhatsAppTypeOK, Becomes

LEMMA StartRunStep ==
    ASSUME PurseInv, NEW r \in Runs, StartRun(r)
    PROVE  PurseInv'
  <1> DEFINE next == [run[r] EXCEPT !.stage = "recover", !.todo = Stale]
  <1>1. /\ next \in RunStates /\ next.stage = "recover"
        /\ next.batch = run[r].batch
    BY DEF PurseInv, WhatsAppTypeOK, RunStates, RunStages, Stale
  <1>2. Becomes(r, next)
    BY DEF StartRun
  <1> HIDE DEF next
  <1>3. /\ run' \in [Runs -> RunStates]
        /\ run'[r] = next
        /\ \A q \in Runs \ {r} : run'[q] = run[q]
    BY <1>1, <1>2, Frame DEF PurseInv
  <1>4. WhatsAppTypeOK'
    BY <1>3 DEF PurseInv, StartRun, moneyVars, metaVars, WhatsAppTypeOK
  <1>5. StagesOK'
    BY <1>1, <1>3 DEF PurseInv, StartRun, StagesOK, Sending
  <1>6. Sole'
    BY <1>1, <1>3 DEF PurseInv, StartRun, Sole, Handles, Sends, Waiting,
                      Sending
  <1>7. FreeBeforeCharge'
    BY <1>1, <1>3 DEF PurseInv, StartRun, moneyVars, FreeBeforeCharge,
                      Waiting, Free, Uncharged
  <1>8. QED
    BY <1>4, <1>5, <1>6, <1>7 DEF PurseInv

LEMMA RecoverFinishStep ==
    ASSUME PurseInv, NEW r \in Runs, RecoverFinish(r)
    PROVE  PurseInv'
  <1> DEFINE next == [run[r] EXCEPT !.stage = "recover", !.msg = NoMessage]
  <1>1. /\ next \in RunStates /\ next.stage = "recover"
        /\ next.batch = run[r].batch
    BY DEF PurseInv, WhatsAppTypeOK, RunStates, RunStages
  <1>2. Becomes(r, next) /\ run[r].msg \in Messages
    BY DEF RecoverFinish, PurseInv, StagesOK
  <1> HIDE DEF next
  <1>3. /\ run' \in [Runs -> RunStates]
        /\ run'[r] = next
        /\ \A q \in Runs \ {r} : run'[q] = run[q]
    BY <1>1, <1>2, Frame DEF PurseInv
  <1>4. /\ status' \in [Messages -> Status] /\ old' \in SUBSET Messages
        /\ \A m \in Messages : status'[m] \in {status[m], "FAILED"}
    BY <1>2 DEF PurseInv, WhatsAppTypeOK, RecoverFinish, Finish, Status
  <1>5. WhatsAppTypeOK'
    BY <1>3, <1>4 DEF PurseInv, RecoverFinish, moneyVars, metaVars,
                      WhatsAppTypeOK
  <1>6. StagesOK'
    BY <1>1, <1>3 DEF PurseInv, RecoverFinish, StagesOK, Sending
  <1>7. Sole'
    BY <1>1, <1>3, <1>4 DEF PurseInv, RecoverFinish, Sole, Handles, Sends,
                            Waiting, Sending
  <1>8. FreeBeforeCharge'
    BY <1>1, <1>3, <1>4 DEF PurseInv, RecoverFinish, moneyVars, StagesOK,
       FreeBeforeCharge, Waiting, Free, Uncharged
  <1>9. QED
    BY <1>5, <1>6, <1>7, <1>8 DEF PurseInv

(* Refunds free the message and no other loses its freedom.                *)
LEMMA RefundFrees ==
    ASSUME WhatsAppTypeOK, NEW m \in Messages,
           refundMessage(m) \/ RefundFails(m)
    PROVE  /\ total' \in Nat /\ net' \in [Messages -> Nat]
           /\ missed' \in SUBSET Messages
           /\ Free(m)'
           /\ \A k \in Messages : Free(k) => Free(k)'
  BY DEF WhatsAppTypeOK, refundMessage, RefundFails, Free

LEMMA RecoverRefundStep ==
    ASSUME PurseInv, NEW r \in Runs, NEW m \in Messages, RecoverRefund(r, m)
    PROVE  PurseInv'
  <1> DEFINE next == [run[r] EXCEPT !.stage = "closing", !.msg = m,
                                    !.todo = run[r].todo \ {m}]
  <1>1. /\ next \in RunStates /\ next.stage = "closing" /\ next.msg = m
        /\ next.batch = run[r].batch
    BY DEF PurseInv, WhatsAppTypeOK, RunStates, RunStages
  <1>2. Becomes(r, next)
    BY DEF RecoverRefund
  <1> HIDE DEF next
  <1>3. /\ run' \in [Runs -> RunStates]
        /\ run'[r] = next
        /\ \A q \in Runs \ {r} : run'[q] = run[q]
    BY <1>1, <1>2, Frame DEF PurseInv
  <1>4. /\ total' \in Nat /\ net' \in [Messages -> Nat]
        /\ missed' \in SUBSET Messages /\ raced' \in SUBSET Messages
        /\ \A k \in Messages : Free(k) => Free(k)'
    BY RefundFrees DEF PurseInv, RecoverRefund, WhatsAppTypeOK
  <1>5. WhatsAppTypeOK'
    BY <1>3, <1>4 DEF PurseInv, RecoverRefund, metaVars, WhatsAppTypeOK
  <1>6. StagesOK'
    BY <1>1, <1>3 DEF PurseInv, RecoverRefund, StagesOK, Sending
  <1>7. Sole'
    BY <1>1, <1>3 DEF PurseInv, RecoverRefund, Sole, Handles, Sends, Waiting,
                      Sending
  <1>8. FreeBeforeCharge'
    BY <1>1, <1>3, <1>4 DEF PurseInv, RecoverRefund, FreeBeforeCharge, Waiting,
       StagesOK, Sending, Uncharged, WhatsAppTypeOK, RunStates
  <1>9. QED
    BY <1>5, <1>6, <1>7, <1>8 DEF PurseInv

-----------------------------------------------------------------------------
(* Actions of a run: from claimed to closed.                               *)

(* A run goes on with its message, in whatever state it was.               *)
LEMMA SameMessage ==
    ASSUME PurseInv, NEW r \in Runs, NEW next \in RunStates, Becomes(r, next),
           run[r].stage \in Sending, next.stage \in Sending,
           next.msg = run[r].msg, next.batch = run[r].batch,
           next.stage = "priced" => next.price \in Prices,
           \A k \in Messages : /\ k = run[r].msg /\ next.stage \in Uncharged
                                   => Free(k)'
                               /\ k # run[r].msg /\ Free(k) => Free(k)',
           UNCHANGED <<status, hook>>
    PROVE  /\ run' \in [Runs -> RunStates]
           /\ StagesOK' /\ Sole' /\ FreeBeforeCharge'
  <1>1. /\ run' \in [Runs -> RunStates]
        /\ run'[r] = next
        /\ \A q \in Runs \ {r} : run'[q] = run[q]
    BY Frame DEF PurseInv
  <1>2. /\ run[r].msg \in Messages
        /\ \A q \in Runs : run[q].batch \subseteq Messages
    BY DEF PurseInv, StagesOK, WhatsAppTypeOK, RunStates
  <1>3. StagesOK'
    BY <1>1, <1>2 DEF PurseInv, StagesOK, Sending
  <1>4. \A q \in Runs, m \in Messages : Handles(q, m)' <=> Handles(q, m)
    BY <1>1 DEF Handles, Sends
  <1>5. Sole'
    BY <1>1, <1>4 DEF PurseInv, Sole, Waiting, Sends
  <1>6. \A m \in Messages : Waiting(m)' => Free(m)'
    BY <1>2 DEF PurseInv, Sole, Handles, Sends, Waiting, FreeBeforeCharge
  <1>7. \A q \in Runs : \A m \in run'[q].batch : Free(m)'
    <2>1. SUFFICES ASSUME NEW q \in Runs, NEW m \in run[q].batch
                   PROVE  Free(m)'
      BY <1>1
    <2>2. m # run[r].msg
      BY <1>2 DEF PurseInv, Sole, Handles, Sends
    <2>3. QED
      BY <1>2, <2>2 DEF PurseInv, FreeBeforeCharge
  <1>8. \A q \in Runs : (run[q].stage \in Uncharged => Free(run[q].msg))'
    <2>1. SUFFICES ASSUME NEW q \in Runs \ {r}, run[q].stage \in Uncharged
                   PROVE  Free(run[q].msg)'
      <3>1. run[r].stage' \in Uncharged => Free(run[r].msg)'
        <4>1. \A k \in Messages : k = run[r].msg /\ next.stage \in Uncharged =>
                  net'[k] = 0 \/ k \in missed'
          BY DEF Free
        <4>2. QED
          BY <1>1, <1>2, <4>1 DEF Free
      <3>2. QED
        BY <1>1, <3>1
    <2>2. run[q].msg \in Messages /\ run[q].stage \in Sending
      BY <2>1 DEF PurseInv, StagesOK, Uncharged, Sending
    <2>3. run[q].msg # run[r].msg
      BY <1>2, <2>2 DEF PurseInv, Sole, Handles, Sends
    <2>4. Free(run[q].msg)
      BY <2>1 DEF PurseInv, FreeBeforeCharge
    <2>5. net'[run[q].msg] = 0 \/ run[q].msg \in missed'
      BY <2>2, <2>3, <2>4 DEF Free
    <2>6. QED
      BY <1>1, <2>5 DEF Free
  <1>9. FreeBeforeCharge'
    BY <1>6, <1>7, <1>8 DEF FreeBeforeCharge, Free
  <1>10. QED
    BY <1>1, <1>3, <1>5, <1>9

(* A run is done with its message, or dies.                                *)
LEMMA Onward ==
    ASSUME PurseInv, NEW r \in Runs, NEW B \in SUBSET run[r].batch,
           NextInBatch(r, B),
           \A m \in Messages : \/ status'[m] = status[m]
                               \/ Sends(r, m) /\ (Waiting(m)' => Free(m)'),
           \A m \in Messages : Free(m) => Free(m)',
           UNCHANGED hook
    PROVE  /\ run' \in [Runs -> RunStates]
           /\ StagesOK' /\ Sole' /\ FreeBeforeCharge'
  <1> DEFINE next == IF B = {} THEN NoRun
                     ELSE [NoRun EXCEPT !.stage = "process", !.batch = B]
  <1>1. \A q \in Runs : run[q].batch \subseteq Messages
    BY DEF PurseInv, WhatsAppTypeOK, RunStates
  <1>2. /\ next \in RunStates /\ next.batch = B
        /\ next.stage = "process" \/ (next.stage = "idle" /\ B = {})
    BY <1>1 DEF NoRun, RunStates, RunStages
  <1>3. Becomes(r, next)
    BY DEF NextInBatch
  <1> HIDE DEF next
  <1>4. /\ run' \in [Runs -> RunStates]
        /\ run'[r] = next
        /\ \A q \in Runs \ {r} : run'[q] = run[q]
    BY <1>2, <1>3, Frame DEF PurseInv
  <1>5. StagesOK'
    BY <1>2, <1>4 DEF PurseInv, StagesOK, Sending
  <1>6. \A q \in Runs, m \in Messages :
            Handles(q, m)' => Handles(q, m) /\ ~ Sends(r, m)
    BY <1>1, <1>2, <1>4 DEF PurseInv, Sole, Handles, Sends, Sending
  <1>7. Sole'
    BY <1>2, <1>4, <1>6 DEF PurseInv, Sole, Waiting, Handles, Sends, Sending
  <1>8. FreeBeforeCharge'
    <2>1. \A m \in Messages : Waiting(m)' => Free(m)'
      BY DEF PurseInv, FreeBeforeCharge, Waiting
    <2>2. \A q \in Runs : \A m \in run'[q].batch : Free(m)'
      <3>1. SUFFICES ASSUME NEW q \in Runs, NEW m \in run[q].batch
                     PROVE  Free(m)'
        BY <1>2, <1>4
      <3>2. QED
        BY <1>1 DEF PurseInv, FreeBeforeCharge
    <2>3. \A q \in Runs : (run[q].stage \in Uncharged => Free(run[q].msg))'
      <3>1. SUFFICES ASSUME NEW q \in Runs \ {r}, run[q].stage \in Uncharged
                     PROVE  Free(run[q].msg)'
        BY <1>2, <1>4 DEF Uncharged
      <3>2. run[q].msg \in Messages /\ Free(run[q].msg)
        BY <3>1 DEF PurseInv, StagesOK, FreeBeforeCharge, Uncharged, Sending
      <3>3. net'[run[q].msg] = 0 \/ run[q].msg \in missed'
        BY <3>2 DEF Free
      <3>4. QED
        BY <1>4, <3>3 DEF Free
    <2>4. QED
      BY <2>1, <2>2, <2>3 DEF FreeBeforeCharge, Free
  <1>9. QED
    BY <1>4, <1>5, <1>7, <1>8

LEMMA ClaimDueStep ==
    ASSUME PurseInv, NEW r \in Runs, claimDue(r)
    PROVE  PurseInv'
  <1>1. PICK S \in SUBSET {m \in Messages : status[m] = "SCHEDULED"} :
            /\ status' = [m \in Messages |-> IF m \in S THEN "SENDING"
                                             ELSE status[m]]
            /\ old' = old \ S
            /\ NextInBatch(r, S)
    BY DEF claimDue
  <1> DEFINE next == IF S = {} THEN NoRun
                     ELSE [NoRun EXCEPT !.stage = "process", !.batch = S]
  <1>2. /\ next \in RunStates /\ next.batch = S
        /\ next.stage = "process" \/ (next.stage = "idle" /\ S = {})
    BY <1>1 DEF NoRun, RunStates, RunStages
  <1>3. Becomes(r, next)
    BY <1>1 DEF NextInBatch
  <1> HIDE DEF next
  <1>4. /\ run' \in [Runs -> RunStates]
        /\ run'[r] = next
        /\ \A q \in Runs \ {r} : run'[q] = run[q]
    BY <1>2, <1>3, Frame DEF PurseInv
  <1>5. \A m \in S : m \in Messages /\ Waiting(m) /\ ~ Waiting(m)'
    BY <1>1 DEF Waiting
  <1>6. \A m \in Messages : Waiting(m)' => Waiting(m)
    BY <1>1 DEF Waiting
  <1>7. WhatsAppTypeOK'
    BY <1>1, <1>4 DEF PurseInv, claimDue, moneyVars, metaVars, WhatsAppTypeOK,
                      Status
  <1>8. StagesOK'
    BY <1>2, <1>4 DEF PurseInv, claimDue, StagesOK, Sending
  <1>9. Sole'
    <2>1. \A q \in Runs, m \in Messages :
              Handles(q, m)' => \/ q = r /\ m \in S
                                \/ q # r /\ Handles(q, m)
      BY <1>2, <1>4 DEF Handles, Sends, Sending
    <2>2. \A q, o \in Runs, m \in Messages :
              Handles(q, m)' /\ Handles(o, m)' => q = o
      BY <1>5, <2>1 DEF PurseInv, Sole
    <2>3. \A q \in Runs, m \in Messages : ~ (m \in run[q].batch /\ Sends(q, m))'
      BY <1>2, <1>4 DEF PurseInv, Sole, Sends, Sending
    <2>4. \A q \in Runs, m \in Messages : Handles(q, m)' => ~ Waiting(m)'
      BY <1>5, <1>6, <2>1 DEF PurseInv, Sole
    <2>5. QED
      BY <2>2, <2>3, <2>4 DEF Sole
  <1>10. FreeBeforeCharge'
    <2>1. \A m \in Messages : Free(m)' <=> Free(m)
      BY DEF claimDue, moneyVars, Free
    <2>2. \A m \in Messages : Waiting(m)' => Free(m)'
      BY <1>6, <2>1 DEF PurseInv, FreeBeforeCharge
    <2>3. \A q \in Runs : \A m \in run'[q].batch : Free(m)'
      BY <1>2, <1>4, <1>5 DEF PurseInv, FreeBeforeCharge, claimDue, moneyVars,
                              Free
    <2>4. \A q \in Runs : (run[q].stage \in Uncharged => Free(run[q].msg))'
      BY <1>2, <1>4 DEF PurseInv, FreeBeforeCharge, claimDue, moneyVars, Free,
                        Uncharged
    <2>5. QED
      BY <2>2, <2>3, <2>4 DEF FreeBeforeCharge
  <1>11. QED
    BY <1>7, <1>8, <1>9, <1>10 DEF PurseInv

LEMMA ReadMessageStep ==
    ASSUME PurseInv, NEW r \in Runs, NEW m \in Messages, ReadMessage(r, m)
    PROVE  PurseInv'
  <1>1. CASE NextInBatch(r, run[r].batch \ {m})
    <2>1. /\ run' \in [Runs -> RunStates]
          /\ StagesOK' /\ Sole' /\ FreeBeforeCharge'
      BY <1>1, Onward DEF ReadMessage, moneyVars, Free
    <2>2. QED
      BY <2>1 DEF PurseInv, ReadMessage, moneyVars, metaVars, WhatsAppTypeOK
  <1>2. CASE Becomes(r, [run[r] EXCEPT !.stage = "read", !.msg = m,
                                        !.batch = run[r].batch \ {m},
                                        !.tries = attempts[m]])
    <2> DEFINE next == [run[r] EXCEPT !.stage = "read", !.msg = m,
                                      !.batch = run[r].batch \ {m},
                                      !.tries = attempts[m]]
    <2>1. /\ next \in RunStates /\ next.stage = "read" /\ next.msg = m
          /\ next.batch = run[r].batch \ {m}
      BY DEF PurseInv, WhatsAppTypeOK, RunStates, RunStages
    <2>2. /\ Becomes(r, next)
          /\ run[r].stage = "process" /\ m \in run[r].batch
      BY <1>2 DEF ReadMessage
    <2> HIDE DEF next
    <2>3. /\ run' \in [Runs -> RunStates]
          /\ run'[r] = next
          /\ \A q \in Runs \ {r} : run'[q] = run[q]
      BY <2>1, <2>2, Frame DEF PurseInv
    <2>4. WhatsAppTypeOK'
      BY <2>3 DEF PurseInv, ReadMessage, moneyVars, metaVars, WhatsAppTypeOK
    <2>5. StagesOK'
      BY <2>1, <2>3 DEF PurseInv, ReadMessage, StagesOK, Sending
    <2>6. \A q \in Runs, k \in Messages : Handles(q, k)' <=> Handles(q, k)
      BY <2>1, <2>2, <2>3 DEF Handles, Sends, Sending
    <2>7. Sole'
      BY <2>1, <2>2, <2>3, <2>6 DEF PurseInv, Sole, ReadMessage, Waiting, Sends
    <2>8. FreeBeforeCharge'
      BY <2>1, <2>2, <2>3 DEF PurseInv, FreeBeforeCharge, ReadMessage,
                              moneyVars, Waiting, Free
    <2>9. QED
      BY <2>4, <2>5, <2>7, <2>8 DEF PurseInv
  <1>3. QED
    BY <1>1, <1>2 DEF ReadMessage

(* The two forms SameMessage takes in the actions.                         *)
LEMMA StepKeeps ==
    ASSUME PurseInv, NEW r \in Runs, run[r].stage \in Sending,
           NEW s \in Sending \ {"priced"}, Step(r, s),
           \A k \in Messages : /\ k = run[r].msg /\ s \in Uncharged => Free(k)'
                               /\ k # run[r].msg /\ Free(k) => Free(k)',
           UNCHANGED <<status, hook>>
    PROVE  /\ run' \in [Runs -> RunStates]
           /\ StagesOK' /\ Sole' /\ FreeBeforeCharge'
  <1> DEFINE next == [run[r] EXCEPT !.stage = s]
  <1>1. /\ next \in RunStates /\ next.stage = s /\ next.msg = run[r].msg
        /\ next.batch = run[r].batch
    BY DEF PurseInv, WhatsAppTypeOK, RunStates, RunStages, Sending
  <1>2. Becomes(r, next)
    BY DEF Step
  <1> HIDE DEF next
  <1>3. QED
    BY <1>1, <1>2, SameMessage

LEMMA StopKeeps ==
    ASSUME PurseInv, NEW r \in Runs, run[r].stage \in Sending,
           NEW s \in Sending \ {"priced"},
           NEW v \in {"SCHEDULED", "SKIPPED", "FAILED"}, Stop(r, s, v),
           s \in Uncharged => Free(run[r].msg),
           UNCHANGED <<status, hook, moneyVars>>
    PROVE  /\ run' \in [Runs -> RunStates]
           /\ StagesOK' /\ Sole' /\ FreeBeforeCharge'
  <1> DEFINE next == [run[r] EXCEPT !.stage = s, !.verdict = v]
  <1>1. /\ next \in RunStates /\ next.stage = s /\ next.msg = run[r].msg
        /\ next.batch = run[r].batch
    BY ZenonT(30) DEF PurseInv, WhatsAppTypeOK, RunStates, RunStages, Sending
  <1>2. Becomes(r, next)
    BY DEF Stop
  <1>3. \A k \in Messages : Free(k) => Free(k)'
    BY DEF moneyVars, Free
  <1> HIDE DEF next
  <1>4. QED
    BY <1>1, <1>2, <1>3, SameMessage

LEMMA PreflightStep ==
    ASSUME PurseInv, NEW r \in Runs, preflight(r)
    PROVE  PurseInv'
  <1>1. /\ run[r].stage \in Sending /\ UNCHANGED <<status, hook, moneyVars>>
        /\ Free(run[r].msg) /\ run[r].msg \in Messages
    BY DEF PurseInv, StagesOK, FreeBeforeCharge, Uncharged, Sending, preflight
  <1>2. CASE Becomes(r, [run[r] EXCEPT !.stage = "priced", !.price = price])
    <2> DEFINE next == [run[r] EXCEPT !.stage = "priced", !.price = price]
    <2>1. /\ next \in RunStates /\ next.stage = "priced"
          /\ next.price \in Prices /\ next.msg = run[r].msg
          /\ next.batch = run[r].batch
      BY DEF PurseInv, WhatsAppTypeOK, RunStates, RunStages
    <2>2. Becomes(r, next)
      BY <1>2
    <2>3. /\ \A k \in Messages : Free(k) => Free(k)'
          /\ next.stage \in Sending
      BY <1>1, <2>1 DEF moneyVars, Free, Sending
    <2> HIDE DEF next
    <2>4. QED
      BY <1>1, <2>1, <2>2, <2>3, SameMessage DEF PurseInv, preflight,
         moneyVars, metaVars, WhatsAppTypeOK
  <1>3. CASE \E v \in {"SKIPPED", "FAILED"} : Stop(r, "stopped", v)
    <2>1. "stopped" \in Sending \ {"priced"}
      BY DEF Sending
    <2>2. /\ run' \in [Runs -> RunStates]
          /\ StagesOK' /\ Sole' /\ FreeBeforeCharge'
      BY <1>1, <1>3, <2>1, StopKeeps
    <2>3. QED
      BY <2>2 DEF PurseInv, preflight, moneyVars, metaVars, WhatsAppTypeOK
  <1>4. QED
    BY <1>2, <1>3 DEF preflight

LEMMA DebitStep ==
    ASSUME PurseInv, WhatsAppAssumption, NEW r \in Runs, Debit(r)
    PROVE  PurseInv'
  <1>1. /\ run[r].stage = "priced" /\ run[r].stage \in Sending
        /\ run[r].msg \in Messages /\ run[r].price \in Nat
        /\ Free(run[r].msg) /\ UNCHANGED <<status, hook>>
    BY DEF PurseInv, StagesOK, FreeBeforeCharge, Uncharged, Sending, Debit,
           WhatsAppAssumption
  <1>2. CASE debitForMessage(run[r].msg, run[r].price) /\ Step(r, "charged")
    <2>1. /\ total' \in Nat /\ net' \in [Messages -> Nat]
          /\ \A k \in Messages : k # run[r].msg /\ Free(k) => Free(k)'
      BY <1>1, <1>2 DEF PurseInv, WhatsAppTypeOK, debitForMessage, Debit, Free
    <2>2. "charged" \in Sending \ {"priced"} /\ "charged" \notin Uncharged
      BY DEF Sending, Uncharged
    <2>3. /\ run' \in [Runs -> RunStates]
          /\ StagesOK' /\ Sole' /\ FreeBeforeCharge'
      BY <1>1, <1>2, <2>1, <2>2, StepKeeps
    <2>4. QED
      BY <2>1, <2>3 DEF PurseInv, Debit, metaVars, WhatsAppTypeOK
  <1>3. CASE Stop(r, "stopped", "FAILED") /\ UNCHANGED <<total, net>>
    <2>1. "stopped" \in Sending \ {"priced"} /\ UNCHANGED moneyVars
      BY <1>3 DEF Sending, Debit, moneyVars
    <2>2. /\ run' \in [Runs -> RunStates]
          /\ StagesOK' /\ Sole' /\ FreeBeforeCharge'
      BY <1>1, <1>3, <2>1, StopKeeps
    <2>3. QED
      BY <1>3, <2>2 DEF PurseInv, Debit, metaVars, WhatsAppTypeOK
  <1>4. QED
    BY <1>2, <1>3 DEF Debit

LEMMA SendSteps ==
    ASSUME PurseInv, NEW r \in Runs,
           \/ CountAttempt(r) \/ SendTemplate(r) \/ Throws(r)
           \/ RefundCharge(r)
    PROVE  PurseInv'
  <1>0. /\ run[r] \in RunStates
        /\ run[r].stage \in Sending => run[r].msg \in Messages
        /\ "failing" \in (Sending \ {"priced"}) \ Uncharged
        /\ "stopped" \in Sending \ {"priced"}
    BY DEF PurseInv, StagesOK, WhatsAppTypeOK, Sending, Uncharged
  <1>1. CASE CountAttempt(r)
    <2>1. /\ "counted" \in (Sending \ {"priced"}) \ Uncharged
          /\ run[r].stage \in Sending /\ run[r].tries \in Nat
          /\ \A k \in Messages : Free(k) => Free(k)'
      BY <1>0, <1>1 DEF CountAttempt, Sending, Uncharged, RunStates, moneyVars,
                        Free
    <2>2. /\ run' \in [Runs -> RunStates]
          /\ StagesOK' /\ Sole' /\ FreeBeforeCharge'
      BY <1>1, <2>1, StepKeeps DEF CountAttempt
    <2>3. attempts' \in [Messages -> Nat] /\ old' \in SUBSET Messages
      BY <1>0, <1>1, <2>1 DEF PurseInv, CountAttempt, WhatsAppTypeOK
    <2>4. QED
      BY <1>1, <2>2, <2>3 DEF PurseInv, CountAttempt, moneyVars, metaVars,
                              WhatsAppTypeOK
  <1>2. CASE SendTemplate(r)
    <2>1. /\ "accepted" \in (Sending \ {"priced"}) \ Uncharged
          /\ run[r].stage \in Sending /\ Retry(r) \in {"SCHEDULED", "FAILED"}
          /\ UNCHANGED <<status, hook, moneyVars>>
          /\ \A k \in Messages : Free(k) => Free(k)'
      BY <1>2 DEF SendTemplate, Sending, Uncharged, Retry, moneyVars, Free
    <2>2. \/ Step(r, "accepted")
          \/ \E v \in {"SCHEDULED", "FAILED"} : Stop(r, "failing", v)
      BY <1>2, <2>1 DEF SendTemplate
    <2>3. CASE Step(r, "accepted")
      <3>1. /\ run' \in [Runs -> RunStates]
            /\ StagesOK' /\ Sole' /\ FreeBeforeCharge'
        BY <2>1, <2>3, StepKeeps
      <3>2. QED
        BY <1>2, <3>1 DEF PurseInv, SendTemplate, moneyVars, WhatsAppTypeOK
    <2>4. CASE \E v \in {"SCHEDULED", "FAILED"} : Stop(r, "failing", v)
      <3>1. /\ run' \in [Runs -> RunStates]
            /\ StagesOK' /\ Sole' /\ FreeBeforeCharge'
        BY <1>0, <2>1, <2>4, StopKeeps
      <3>2. QED
        BY <1>2, <3>1 DEF PurseInv, SendTemplate, moneyVars, WhatsAppTypeOK
    <2>5. QED
      BY <2>2, <2>3, <2>4
  <1>3. CASE Throws(r)
    <2>1. UNCHANGED <<status, hook, moneyVars>>
      BY <1>3 DEF Throws
    <2>2. CASE run[r].stage \in {"read", "priced"} /\ Stop(r, "stopped", "FAILED")
      <3>1. run[r].stage \in Sending /\ Free(run[r].msg)
        BY <2>2 DEF PurseInv, FreeBeforeCharge, Sending, Uncharged
      <3>2. /\ run' \in [Runs -> RunStates]
            /\ StagesOK' /\ Sole' /\ FreeBeforeCharge'
        BY <1>0, <2>1, <2>2, <3>1, StopKeeps
      <3>3. QED
        BY <1>3, <3>2 DEF PurseInv, Throws, moneyVars, WhatsAppTypeOK
    <2>3. CASE /\ run[r].stage \in {"charged", "counted", "accepted"}
               /\ Stop(r, "failing", "FAILED")
      <3>1. run[r].stage \in Sending
        BY <2>3 DEF Sending
      <3>2. /\ run' \in [Runs -> RunStates]
            /\ StagesOK' /\ Sole' /\ FreeBeforeCharge'
        BY <1>0, <2>1, <2>3, <3>1, StopKeeps
      <3>3. QED
        BY <1>3, <3>2 DEF PurseInv, Throws, moneyVars, WhatsAppTypeOK
    <2>4. QED
      BY <1>3, <2>2, <2>3 DEF Throws
  <1>4. CASE RefundCharge(r)
    <2>1. run[r].stage \in Sending
      BY <1>4 DEF RefundCharge, Sending
    <2>2. /\ total' \in Nat /\ net' \in [Messages -> Nat]
          /\ missed' \in SUBSET Messages
          /\ \A k \in Messages : k = run[r].msg => Free(k)'
          /\ \A k \in Messages : Free(k) => Free(k)'
      BY <1>0, <1>4, <2>1, RefundFrees DEF PurseInv, RefundCharge
    <2>3. /\ run' \in [Runs -> RunStates]
          /\ StagesOK' /\ Sole' /\ FreeBeforeCharge'
      BY <1>0, <1>4, <2>1, <2>2, StepKeeps DEF RefundCharge
    <2>4. QED
      BY <1>4, <2>2, <2>3 DEF PurseInv, RefundCharge, metaVars, WhatsAppTypeOK
  <1>5. QED
    BY <1>1, <1>2, <1>3, <1>4

-----------------------------------------------------------------------------
(* Actions that end a run's work on a message.                             *)
LEMMA LeaveSteps ==
    ASSUME PurseInv, NEW r \in Runs,
           MarkSent(r) \/ handleFailure(r) \/ Crash(r)
    PROVE  PurseInv'
  <1>0. /\ run[r] \in RunStates
        /\ run[r].stage \in Sending => Sends(r, run[r].msg)
        /\ run[r].stage \in Sending => run[r].msg \in Messages
        /\ run[r].batch \in SUBSET run[r].batch
    BY DEF PurseInv, StagesOK, WhatsAppTypeOK, Sends
  <1>1. CASE MarkSent(r)
    <2>1. /\ Sends(r, run[r].msg) /\ run[r].msg \in Messages
          /\ NextInBatch(r, run[r].batch)
      BY <1>0, <1>1 DEF MarkSent, Sending
    <2>2. /\ \A m \in Messages :
                 status'[m] = status[m] \/ (Sends(r, m) /\ ~ Waiting(m)')
          /\ \A m \in Messages : Free(m) => Free(m)'
      BY <1>1, <2>1 DEF PurseInv, WhatsAppTypeOK, MarkSent, Waiting, moneyVars,
                        Free
    <2>3. /\ run' \in [Runs -> RunStates]
          /\ StagesOK' /\ Sole' /\ FreeBeforeCharge'
      BY <1>0, <1>1, <2>1, <2>2, Onward DEF MarkSent
    <2>4. QED
      BY <1>1, <2>1, <2>3 DEF PurseInv, MarkSent, moneyVars, metaVars,
                              WhatsAppTypeOK, Status
  <1>2. CASE handleFailure(r)
    <2>1. /\ Sends(r, run[r].msg) /\ run[r].msg \in Messages
          /\ NextInBatch(r, run[r].batch) /\ Free(run[r].msg)
      BY <1>0, <1>2 DEF PurseInv, FreeBeforeCharge, handleFailure, Sending,
                        Uncharged
    <2>2. /\ \A m \in Messages : status'[m] = status[m] \/ m = run[r].msg
          /\ \A m \in Messages : Free(m) => Free(m)'
          /\ status' \in [Messages -> Status] /\ old' \in SUBSET Messages
      <3>1. run[r].verdict \in Status
        BY <1>0 DEF RunStates, Status
      <3>2. /\ \A m \in Messages : status'[m] = status[m] \/ m = run[r].msg
            /\ status' \in [Messages -> Status] /\ old' \in SUBSET Messages
        BY <1>2, <2>1, <3>1 DEF PurseInv, WhatsAppTypeOK, handleFailure, Finish
      <3>3. \A m \in Messages : Free(m) => Free(m)'
        BY <1>2 DEF handleFailure, moneyVars, Free
      <3>4. QED
        BY <3>2, <3>3
    <2>3. \A m \in Messages : \/ status'[m] = status[m]
                              \/ Sends(r, m) /\ (Waiting(m)' => Free(m)')
      BY <2>1, <2>2
    <2>4. /\ run' \in [Runs -> RunStates]
          /\ StagesOK' /\ Sole' /\ FreeBeforeCharge'
      BY <1>0, <1>2, <2>1, <2>2, <2>3, Onward DEF handleFailure
    <2>5. QED
      BY <1>2, <2>2, <2>4 DEF PurseInv, handleFailure, moneyVars, metaVars,
                              WhatsAppTypeOK
  <1>3. CASE Crash(r)
    <2>1. NextInBatch(r, {}) /\ {} \in SUBSET run[r].batch
      BY <1>3 DEF Crash, NextInBatch
    <2>2. /\ \A m \in Messages : Free(m) => Free(m)'
          /\ missed' \in SUBSET Messages
      <3>1. \/ missed' = missed
            \/ run[r].msg \in Messages /\ missed' = missed \cup {run[r].msg}
        BY <1>3 DEF Crash
      <3>2. net' = net
        BY <1>3 DEF Crash
      <3>3. QED
        BY <3>1, <3>2 DEF PurseInv, WhatsAppTypeOK, Free
    <2>3. /\ run' \in [Runs -> RunStates]
          /\ StagesOK' /\ Sole' /\ FreeBeforeCharge'
      BY <1>3, <2>1, <2>2, Onward DEF Crash
    <2>4. QED
      BY <1>3, <2>2, <2>3 DEF PurseInv, Crash, WhatsAppTypeOK
  <1>4. QED
    BY <1>1, <1>2, <1>3

-----------------------------------------------------------------------------
LEMMA PurseInvNext ==
    ASSUME PurseInv, WhatsAppAssumption, [WhatsAppNext]_whatsAppVars
    PROVE  PurseInv'
  <1>1. CASE UNCHANGED whatsAppVars
    BY <1>1 DEF whatsAppVars, PurseInv, WhatsAppTypeOK, StagesOK, Sole,
       FreeBeforeCharge, Handles, Sends, Waiting, Free
  <1>2. CASE \E m \in Messages : onShipmentStatus(m) \/ GrowOld(m)
    BY <1>2, QueueSteps
  <1>3. CASE \E r \in Runs : RunStep(r) \/ Crash(r)
    <2>1. PICK r \in Runs : RunStep(r) \/ Crash(r)
      BY <1>3
    <2>2. CASE \E m \in Messages : RecoverRefund(r, m) \/ ReadMessage(r, m)
      BY <2>2, RecoverRefundStep, ReadMessageStep
    <2>3. CASE StartRun(r) \/ RecoverFinish(r) \/ claimDue(r)
      BY <2>3, StartRunStep, RecoverFinishStep, ClaimDueStep
    <2>4. CASE preflight(r) \/ Debit(r)
      BY <2>4, PreflightStep, DebitStep
    <2>5. CASE \/ CountAttempt(r) \/ SendTemplate(r) \/ Throws(r)
               \/ RefundCharge(r)
      BY <2>5, SendSteps
    <2>6. CASE MarkSent(r) \/ handleFailure(r) \/ Crash(r)
      BY <2>6, LeaveSteps
    <2>7. QED
      BY <2>1, <2>2, <2>3, <2>4, <2>5, <2>6 DEF RunStep
  <1>4. CASE \E c \in Hooks :
                \/ \E m \in Messages, next \in Reports : ReceiveStatus(c, m, next)
                \/ ApplyStatus(c) \/ RefundFailed(c)
    BY <1>4, HookSteps
  <1>5. CASE \/ \E a \in Credits : adminCredit(a)
             \/ \E p \in Prices : setPricing(p)
    BY <1>5, MoneySteps
  <1>6. QED
    BY <1>1, <1>2, <1>3, <1>4, <1>5 DEF WhatsAppNext

THEOREM PurseInvariant == WhatsAppSpec => []PurseInv
  <1>1. WhatsAppInit => PurseInv
    BY PurseInitInv, WhatsAppAssumption
  <1>2. PurseInv /\ [WhatsAppNext]_whatsAppVars => PurseInv'
    BY PurseInvNext, WhatsAppAssumption
  <1>3. QED
    BY <1>1, <1>2, PTL DEF WhatsAppSpec

(* Every state of the message queue, the balance, the runs and the webhook *)
(* calls is one the code's types allow; in particular the balance is never *)
(* overdrawn, whatever debits, refunds and credits interleave.             *)
THEOREM WhatsAppTypeCorrect == WhatsAppSpec => []WhatsAppTypeOK
  <1>1. PurseInv => WhatsAppTypeOK
    BY DEF PurseInv
  <1>2. QED
    BY <1>1, PurseInvariant, PTL

-----------------------------------------------------------------------------
(* Refinement.                                                             *)
LEMMA RefundRefines ==
    ASSUME PurseInv, NEW m \in Messages, refundMessage(m) \/ RefundFails(m)
    PROVE  ThePurse!PurseNext \/ UNCHANGED <<total, net, missed>>
  <1>1. net \in [Messages -> Nat] /\ total \in Nat
    BY DEF PurseInv, WhatsAppTypeOK
  <1>2. CASE net[m] = 0
    BY <1>1, <1>2 DEF refundMessage, RefundFails
  <1>3. CASE net[m] > 0
    <2>1. ThePurse!Refund(m) \/ ThePurse!LoseRefund(m)
      BY <1>3 DEF refundMessage, RefundFails, ThePurse!Refund,
         ThePurse!LoseRefund
    <2>2. QED
      BY <2>1 DEF ThePurse!PurseNext
  <1>4. QED
    BY <1>1, <1>2, <1>3

LEMMA DebitRefines ==
    ASSUME PurseInv, WhatsAppAssumption, NEW r \in Runs, Debit(r)
    PROVE  ThePurse!PurseNext \/ UNCHANGED <<total, net, missed>>
  <1>1. CASE debitForMessage(run[r].msg, run[r].price)
    <2> DEFINE m == run[r].msg
               p == run[r].price
    <2>1. m \in Messages /\ p \in Nat \ {0} /\ Free(m) /\ missed' = missed
      BY DEF PurseInv, StagesOK, FreeBeforeCharge, Uncharged, Sending, Debit,
             WhatsAppAssumption
    <2>2. net \in [Messages -> Nat] /\ total \in Nat
      BY DEF PurseInv, WhatsAppTypeOK
    <2>3. /\ total >= p /\ total' = total - p
          /\ net' = [net EXCEPT ![m] = net[m] + p]
      BY <1>1 DEF debitForMessage
    <2> HIDE DEF m, p
    <2>4. total' \in Nat /\ total' < total /\ total - total' = p
      BY <2>1, <2>2, <2>3
    <2>5. ThePurse!Charge(m)
      BY <2>1, <2>3, <2>4 DEF ThePurse!Charge, Free
    <2>6. QED
      BY <2>1, <2>5 DEF ThePurse!PurseNext
  <1>2. CASE UNCHANGED <<total, net>>
    BY <1>2 DEF Debit
  <1>3. QED
    BY <1>1, <1>2 DEF Debit

LEMMA CrashRefines ==
    ASSUME PurseInv, NEW r \in Runs, Crash(r)
    PROVE  ThePurse!PurseNext \/ UNCHANGED <<total, net, missed>>
  <1>1. UNCHANGED <<total, net>>
    BY DEF Crash
  <1>2. \/ missed' = missed
        \/ /\ run[r].msg \in Messages /\ net[run[r].msg] > 0
           /\ missed' = missed \cup {run[r].msg}
    BY DEF Crash
  <1>3. ASSUME NEW m \in Messages, net[m] > 0, missed' = missed \cup {m}
        PROVE  ThePurse!PurseNext
    BY <1>1, <1>3 DEF ThePurse!PurseNext, ThePurse!LoseRefund
  <1>4. QED
    BY <1>1, <1>2, <1>3

LEMMA PurseStep ==
    ASSUME PurseInv, WhatsAppAssumption, [WhatsAppNext]_whatsAppVars
    PROVE  ThePurse!PurseNext \/ UNCHANGED <<total, net, missed>>
  <1>1. CASE UNCHANGED whatsAppVars
    BY <1>1 DEF whatsAppVars
  <1>2. CASE \E m \in Messages : onShipmentStatus(m) \/ GrowOld(m)
    BY <1>2 DEF onShipmentStatus, GrowOld, moneyVars
  <1>3. CASE \E r \in Runs : RunStep(r) \/ Crash(r)
    <2>1. PICK r \in Runs : RunStep(r) \/ Crash(r)
      BY <1>3
    <2>2. CASE \E m \in Messages : RecoverRefund(r, m)
      BY <2>2, RefundRefines DEF RecoverRefund
    <2>3. CASE RefundCharge(r)
      BY <2>3, RefundRefines DEF RefundCharge, PurseInv, StagesOK, Sending
    <2>4. CASE Debit(r) \/ Crash(r)
      BY <2>4, DebitRefines, CrashRefines
    <2>5. CASE \/ StartRun(r) \/ RecoverFinish(r) \/ claimDue(r)
               \/ \E m \in Messages : ReadMessage(r, m)
      BY <2>5 DEF StartRun, RecoverFinish, claimDue, ReadMessage, moneyVars
    <2>6. CASE \/ preflight(r) \/ CountAttempt(r) \/ SendTemplate(r)
               \/ MarkSent(r) \/ Throws(r) \/ handleFailure(r)
      BY <2>6 DEF preflight, CountAttempt, SendTemplate, MarkSent, Throws,
                  handleFailure, moneyVars
    <2>7. QED
      BY <2>1, <2>2, <2>3, <2>4, <2>5, <2>6 DEF RunStep
  <1>4. CASE \E c \in Hooks :
                \/ \E m \in Messages, next \in Reports : ReceiveStatus(c, m, next)
                \/ ApplyStatus(c) \/ RefundFailed(c)
    <2>1. CASE \E c \in Hooks : RefundFailed(c)
      BY <2>1, RefundRefines DEF RefundFailed, PurseInv, StagesOK
    <2>2. QED
      BY <1>4, <2>1 DEF ReceiveStatus, ApplyStatus, moneyVars
  <1>5. CASE \E p \in Prices : setPricing(p)
    BY <1>5 DEF setPricing
  <1>6. CASE \E a \in Credits : adminCredit(a)
    <2>1. total' \in Nat /\ UNCHANGED <<net, missed>>
      BY <1>6 DEF adminCredit, PurseInv, WhatsAppTypeOK, WhatsAppAssumption
    <2>2. QED
      BY <2>1 DEF ThePurse!PurseNext, ThePurse!Credit
  <1>7. QED
    BY <1>1, <1>2, <1>3, <1>4, <1>5, <1>6 DEF WhatsAppNext

(* The balance is the purse a merchant is promised: never overdrawn, one   *)
(* charge per message at a time unless a refund of it was lost, and what   *)
(* comes back is what was charged, for any number of overlapping runs,     *)
(* webhook calls, crashes and price changes.                               *)
THEOREM WhatsAppImplementsPurse == WhatsAppSpec => ImplementsPurse
  <1>1. WhatsAppInit => ThePurse!PurseInit
    BY WhatsAppAssumption DEF WhatsAppInit, ThePurse!PurseInit,
       WhatsAppAssumption
  <1>2. PurseInv /\ [WhatsAppNext]_whatsAppVars
            => [ThePurse!PurseNext]_(ThePurse!purseVars)
    BY PurseStep, WhatsAppAssumption DEF ThePurse!purseVars
  <1>3. QED
    BY <1>1, <1>2, PurseInvariant, PTL
       DEF WhatsAppSpec, ImplementsPurse, ThePurse!PurseSpec

-----------------------------------------------------------------------------
(***************************************************************************)
(* The second invariant: what Meta has of a message, and what is charged   *)
(* for it.                                                                 *)
(***************************************************************************)

(* Meta accepted the message, and the run that sent it knows.              *)
Knows(r, m) == Sends(r, m) /\ run[r].stage = "accepted"

(* Every acceptance but one was lost; the one belongs to the run that      *)
(* knows of it, or the message is not sent any more.                       *)
AcceptedOnce ==
    /\ accepted \in [Messages -> Nat] /\ lost \in [Messages -> Nat]
    /\ \A m \in Messages : accepted[m] \in {lost[m], lost[m] + 1}
    /\ \A m \in Messages : Waiting(m) => accepted[m] = lost[m]
    /\ \A r \in Runs, m \in Messages :
           Handles(r, m) => accepted[m] = lost[m] + (IF Knows(r, m) THEN 1 ELSE 0)

Delivered(m) == status[m] \in {"SENT", "DELIVERED", "READ"}
Refunds(c, m) == hook[c].stage = "refund" /\ hook[c].msg = m

(* What Meta reports on has been sent, and no run works on it any more.    *)
LinkedIsSent ==
    /\ \A m \in linked : /\ Delivered(m) \/ status[m] = "FAILED"
                         /\ \A r \in Runs : ~Handles(r, m)
    /\ \A m \in Messages : Delivered(m) => m \in linked
    /\ \A c \in Hooks : hook[c].stage # "idle" => hook[c].msg \in linked

(* A message that is closed is free, or its refund is still to come.       *)
ClosedIsFree ==
    /\ \A m \in Messages : status[m] \in {"FAILED", "SKIPPED"} =>
           \/ Free(m) \/ \E r \in Runs : Sends(r, m)
           \/ \E c \in Hooks : Refunds(c, m)
    /\ \A r \in Runs : run[r].stage = "closing" =>
           \/ Free(run[r].msg) \/ \E q \in Runs : Sends(q, run[r].msg)
           \/ status[run[r].msg] # "SENDING"

(* A message that is being sent, or was, is charged.                       *)
SentIsCharged ==
    /\ \A r \in Runs, m \in Messages :
           Sends(r, m) /\ run[r].stage \in {"charged", "counted", "accepted"}
               => net[m] > 0 \/ m \in raced
    /\ \A m \in Messages : Delivered(m) => net[m] > 0 \/ m \in raced
    /\ \A c \in Hooks, m \in Messages :
           Refunds(c, m) => status[m] = "FAILED" \/ m \in raced

ChargeInv == AcceptedOnce /\ LinkedIsSent /\ ClosedIsFree /\ SentIsCharged

LEMMA ChargeInitInv == ASSUME WhatsAppAssumption, WhatsAppInit PROVE ChargeInv
  <1>1. \A r \in Runs, m \in Messages : ~ Handles(r, m) /\ ~ Sends(r, m)
    BY DEF WhatsAppInit, Handles, Sends, Sending, NoRun
  <1>2. \A c \in Hooks : hook[c].stage = "idle"
    BY DEF WhatsAppInit, NoHook
  <1>3. AcceptedOnce
    BY <1>1 DEF WhatsAppInit, AcceptedOnce
  <1>4. LinkedIsSent /\ ClosedIsFree /\ SentIsCharged
    BY <1>1, <1>2 DEF WhatsAppInit, LinkedIsSent, ClosedIsFree, SentIsCharged,
       Delivered, Refunds, NoRun
  <1>5. QED
    BY <1>3, <1>4 DEF ChargeInv

-----------------------------------------------------------------------------
(* Steps that leave the runs, the charges and what Meta has alone: they    *)
(* may change a status that nobody works on, and what a webhook does.      *)
LEMMA ChargeMoneySteps ==
    ASSUME ChargeInv, UNCHANGED <<status, linked, net, run, hook, metaVars, missed, raced>>
    PROVE  ChargeInv'
  BY DEF ChargeInv, metaVars, AcceptedOnce, LinkedIsSent, ClosedIsFree, SentIsCharged,
         Knows, Handles, Sends, Waiting, Free, Delivered, Refunds

LEMMA ChargeQueueSteps ==
    ASSUME PurseInv, ChargeInv, NEW m \in Messages, onShipmentStatus(m) \/ GrowOld(m)
    PROVE  ChargeInv'
  <1>1. CASE GrowOld(m)
    BY <1>1, ChargeMoneySteps DEF GrowOld, moneyVars
  <1>2. CASE onShipmentStatus(m)
    <2>1. /\ UNCHANGED <<linked, net, run, hook, accepted, lost, missed, raced>>
          /\ status[m] = "none"
          /\ \A k \in Messages : \/ status'[k] = status[k]
                                 \/ k = m /\ status'[k] \in {"SCHEDULED", "SKIPPED"}
      BY <1>2 DEF onShipmentStatus, moneyVars, metaVars, PurseInv, WhatsAppTypeOK
    <2>2. \A k \in Messages : (Waiting(k)' => Waiting(k)) /\ (Delivered(k)' <=> Delivered(k))
      BY <2>1 DEF Waiting, Delivered
    <2>3. \A q \in Runs, k \in Messages :
              /\ Handles(q, k)' <=> Handles(q, k)
              /\ Sends(q, k)' <=> Sends(q, k)
              /\ Knows(q, k)' <=> Knows(q, k)
      BY <2>1 DEF Handles, Sends, Knows
    <2>4. AcceptedOnce'
      BY <2>1, <2>2, <2>3 DEF ChargeInv, AcceptedOnce
    <2>5. m \notin linked /\ Free(m)
      BY <2>1 DEF ChargeInv, LinkedIsSent, Delivered, PurseInv, FreeBeforeCharge, Waiting
    <2>6. LinkedIsSent'
      BY <2>1, <2>2, <2>3, <2>5 DEF ChargeInv, LinkedIsSent, PurseInv, WhatsAppTypeOK
    <2>7. ClosedIsFree'
      BY <2>1, <2>3, <2>5 DEF ChargeInv, ClosedIsFree, Free, Refunds, Sends, PurseInv,
         StagesOK
    <2>8. SentIsCharged'
      BY <2>1, <2>2, <2>3 DEF ChargeInv, SentIsCharged, Refunds, Sends
    <2>9. QED
      BY <2>4, <2>6, <2>7, <2>8 DEF ChargeInv
  <1>3. QED
    BY <1>1, <1>2

LEMMA ChargeReceive ==
    ASSUME PurseInv, ChargeInv, NEW c \in Hooks, NEW m \in Messages, NEW next \in Reports,
           ReceiveStatus(c, m, next)
    PROVE  ChargeInv'
  <1>1. /\ UNCHANGED <<status, linked, net, run, accepted, lost, missed, raced>>
        /\ hook[c].stage = "idle" /\ m \in linked
        /\ hook'[c].stage = "received" /\ hook'[c].msg = m
        /\ \A d \in Hooks \ {c} : hook'[d] = hook[d]
    BY DEF ReceiveStatus, moneyVars, metaVars, PurseInv, WhatsAppTypeOK
  <1>2. \A d \in Hooks, k \in Messages : Refunds(d, k)' <=> Refunds(d, k)
    BY <1>1 DEF Refunds
  <1>3. AcceptedOnce'
    BY <1>1 DEF ChargeInv, AcceptedOnce, Waiting, Knows, Handles, Sends
  <1>4. LinkedIsSent'
    BY <1>1 DEF ChargeInv, LinkedIsSent, Handles, Sends, Delivered
  <1>5. ClosedIsFree'
    BY <1>1, <1>2 DEF ChargeInv, ClosedIsFree, Free, Sends
  <1>6. SentIsCharged'
    BY <1>1, <1>2 DEF ChargeInv, SentIsCharged, Sends, Delivered
  <1>7. QED
    BY <1>3, <1>4, <1>5, <1>6 DEF ChargeInv

(* A report changes a row that was sent: to another state of a sent row, or*)
(* to FAILED with a refund to come.                                        *)
LEMMA ChargeApply ==
    ASSUME PurseInv, ChargeInv, NEW c \in Hooks, NEW m \in Messages, m = hook[c].msg,
           ApplyStatus(c)
    PROVE  ChargeInv'
  <1> DEFINE fails == hook[c].next = "FAILED" /\ Rank(hook[c].seen) < 2
             advances == Rank(hook[c].next) > Rank(hook[c].seen)
  <1>1. /\ m \in Messages /\ m \in linked /\ hook[c].next \in Reports
        /\ hook[c].stage = "received" /\ hook[c].seen \in Status
    BY DEF ApplyStatus, PurseInv, StagesOK, WhatsAppTypeOK, HookStates, ChargeInv,
           LinkedIsSent
  <1>2. /\ UNCHANGED <<linked, net, run, accepted, lost, missed>>
        /\ \A k \in Messages \ {m} : status'[k] = status[k]
        /\ \A d \in Hooks \ {c} : hook'[d] = hook[d]
        /\ raced \subseteq raced'
    BY <1>1 DEF ApplyStatus, moneyVars, metaVars, PurseInv, WhatsAppTypeOK
  <1>3. /\ Delivered(m) \/ status[m] = "FAILED"
        /\ \A r \in Runs : ~ Handles(r, m)
    BY <1>1 DEF ChargeInv, LinkedIsSent
  <1>4. \/ status'[m] = "FAILED" /\ hook'[c].stage = "refund" /\ hook'[c].msg = m
        \/ /\ Delivered(m)' /\ hook'[c].stage = "idle"
           /\ status[m] = "FAILED" => m \in raced'
        \/ status'[m] = status[m] /\ hook'[c].stage = "idle"
    <2>1. CASE fails
      BY <1>1, <2>1 DEF ApplyStatus, PurseInv, WhatsAppTypeOK, HookStates
    <2>2. CASE ~fails /\ advances
      <3>1. hook[c].next # "FAILED"
        BY <1>1, <2>2 DEF Rank, Status
      <3>2. status'[m] = hook[c].next /\ hook'[c] = NoHook
            /\ (status[m] = "FAILED" => m \in raced')
        BY <1>1, <2>2 DEF ApplyStatus, PurseInv, WhatsAppTypeOK
      <3>3. QED
        BY <1>1, <3>1, <3>2 DEF Delivered, Reports, NoHook
    <2>3. CASE ~fails /\ ~advances
      BY <1>1, <2>3 DEF ApplyStatus, PurseInv, WhatsAppTypeOK, NoHook
    <2>4. QED
      BY <2>1, <2>2, <2>3
  <1> HIDE DEF fails, advances
  <1>5. \A d \in Hooks, k \in Messages :
            /\ Refunds(d, k) => Refunds(d, k)'
            /\ Refunds(d, k)' => Refunds(d, k) \/ (d = c /\ k = m)
    BY <1>1, <1>2, <1>4 DEF Refunds
  <1>6. \A q \in Runs, k \in Messages :
            /\ Handles(q, k)' <=> Handles(q, k)
            /\ Sends(q, k)' <=> Sends(q, k)
            /\ Knows(q, k)' <=> Knows(q, k)
    BY <1>2 DEF Handles, Sends, Knows
  <1>7. \A k \in Messages : Waiting(k)' => Waiting(k) /\ k # m
    BY <1>2, <1>3, <1>4 DEF Waiting, Delivered
  <1>8. AcceptedOnce'
    BY <1>2, <1>6, <1>7 DEF ChargeInv, AcceptedOnce
  <1>9. LinkedIsSent'
    <2>1. \A k \in Messages : k # m => (Delivered(k)' <=> Delivered(k))
      BY <1>2 DEF Delivered
    <2>2. Delivered(m)' \/ status'[m] = "FAILED"
      BY <1>3, <1>4 DEF Delivered
    <2>3. linked \subseteq Messages
      BY DEF PurseInv, WhatsAppTypeOK
    <2>4. \A d \in Hooks : hook'[d].stage # "idle" => hook'[d].msg \in linked
      BY <1>1, <1>2, <1>4 DEF ChargeInv, LinkedIsSent
    <2>5. QED
      BY <1>1, <1>2, <1>6, <2>1, <2>2, <2>3, <2>4 DEF ChargeInv, LinkedIsSent
  <1>10. ClosedIsFree'
    <2>1. \A k \in Messages : Free(k)' <=> Free(k)
      BY <1>2 DEF Free
    <2>2. \A k \in Messages : status'[k] \in {"FAILED", "SKIPPED"} =>
             \/ Free(k) \/ \E r \in Runs : Sends(r, k)
             \/ \E d \in Hooks : Refunds(d, k)'
      <3>1. SUFFICES ASSUME NEW k \in Messages, status'[k] \in {"FAILED", "SKIPPED"}
                     PROVE  \/ Free(k) \/ \E r \in Runs : Sends(r, k)
                            \/ \E d \in Hooks : Refunds(d, k)'
        OBVIOUS
      <3>2. CASE status'[k] = status[k]
        BY <1>5, <3>1, <3>2 DEF ChargeInv, ClosedIsFree
      <3>3. CASE k = m /\ hook'[c].stage = "refund" /\ hook'[c].msg = m
        BY <3>3 DEF Refunds
      <3>4. QED
        BY <1>2, <1>4, <3>1, <3>2, <3>3 DEF Delivered
    <2>3. \A r \in Runs :
              /\ run[r].stage = "closing" /\ run[r].msg \in Messages
              /\ status[run[r].msg] # status'[run[r].msg]
              => status'[run[r].msg] # "SENDING"
      BY <1>2, <1>4 DEF Delivered
    <2>4. \A r \in Runs : run[r].stage = "closing" => run[r].msg \in Messages
      BY DEF PurseInv, StagesOK
    <2>5. QED
      BY <1>2, <1>6, <2>1, <2>2, <2>3, <2>4 DEF ChargeInv, ClosedIsFree
  <1>11. SentIsCharged'
    <2>1. \A k \in Messages : Delivered(k)' => net[k] > 0 \/ k \in raced'
      BY <1>2, <1>3, <1>4 DEF ChargeInv, SentIsCharged, Delivered
    <2>2. \A d \in Hooks, k \in Messages :
              Refunds(d, k)' => status'[k] = "FAILED" \/ k \in raced'
      <3>1. SUFFICES ASSUME NEW d \in Hooks, NEW k \in Messages, Refunds(d, k)',
                            k \notin raced'
                     PROVE  status'[k] = "FAILED"
        OBVIOUS
      <3>2. CASE d = c
        BY <1>2, <1>4, <3>1, <3>2 DEF Refunds
      <3>3. CASE d # c
        <4>1. Refunds(d, k) /\ status[k] = "FAILED"
          BY <1>2, <3>1, <3>3 DEF ChargeInv, SentIsCharged, Refunds
        <4>2. QED
          BY <1>2, <1>4, <3>1, <4>1
      <3>4. QED
        BY <3>2, <3>3
    <2>3. QED
      BY <1>2, <1>6, <2>1, <2>2 DEF ChargeInv, SentIsCharged
  <1>12. QED
    BY <1>8, <1>9, <1>10, <1>11 DEF ChargeInv

(* What a refund does to the message, and to the others.                   *)
LEMMA RefundClears ==
    ASSUME WhatsAppTypeOK, NEW m \in Messages,
           refundMessage(m) \/ RefundFails(m)
    PROVE  /\ Free(m)'
           /\ \A k \in Messages : Free(k) => Free(k)'
           /\ \A k \in Messages \ {m} : net'[k] = net[k]
  BY DEF WhatsAppTypeOK, refundMessage, RefundFails, Free

LEMMA ChargeRefundFailed ==
    ASSUME PurseInv, ChargeInv, NEW c \in Hooks, NEW m \in Messages, m = hook[c].msg,
           RefundFailed(c)
    PROVE  ChargeInv'
  <1>1. Refunds(c, m) /\ m \in linked
    BY DEF RefundFailed, PurseInv, StagesOK, Refunds, ChargeInv, LinkedIsSent
  <1>2. /\ UNCHANGED <<status, linked, run, accepted, lost, raced>>
        /\ hook'[c].stage = "idle" /\ \A d \in Hooks \ {c} : hook'[d] = hook[d]
    BY DEF RefundFailed, metaVars, PurseInv, WhatsAppTypeOK, NoHook
  <1>3. /\ Free(m)' /\ \A k \in Messages : Free(k) => Free(k)'
        /\ \A k \in Messages \ {m} : net'[k] = net[k]
    BY <1>1, RefundClears DEF RefundFailed, PurseInv
  <1>4. \A q \in Runs, k \in Messages :
            /\ Handles(q, k)' <=> Handles(q, k)
            /\ Sends(q, k)' <=> Sends(q, k)
            /\ Knows(q, k)' <=> Knows(q, k)
    BY <1>2 DEF Handles, Sends, Knows
  <1>5. \A d \in Hooks, k \in Messages :
            /\ Refunds(d, k)' => Refunds(d, k)
            /\ Refunds(d, k) => Refunds(d, k)' \/ k = m
    BY <1>2 DEF Refunds
  <1>6. AcceptedOnce'
    BY <1>2, <1>4 DEF ChargeInv, AcceptedOnce, Waiting
  <1>7. LinkedIsSent'
    BY <1>2, <1>4 DEF ChargeInv, LinkedIsSent, Delivered, PurseInv, WhatsAppTypeOK
  <1>8. ClosedIsFree'
    <2>1. \A k \in Messages : status[k] \in {"FAILED", "SKIPPED"} =>
             \/ Free(k)' \/ \E r \in Runs : Sends(r, k)
             \/ \E d \in Hooks : Refunds(d, k)'
      BY <1>3, <1>5 DEF ChargeInv, ClosedIsFree
    <2>2. \A r \in Runs : run[r].stage = "closing" =>
           \/ Free(run[r].msg)' \/ \E q \in Runs : Sends(q, run[r].msg)
           \/ status[run[r].msg] # "SENDING"
      <3>1. SUFFICES ASSUME NEW r \in Runs, NEW k \in Messages, run[r].stage = "closing",
                            k = run[r].msg
                     PROVE  \/ Free(k)' \/ \E q \in Runs : Sends(q, k)
                            \/ status[k] # "SENDING"
        BY <1>2 DEF PurseInv, StagesOK, Free
      <3>2. QED
        BY <1>3, <3>1 DEF ChargeInv, ClosedIsFree
    <2>3. QED
      BY <1>2, <1>4, <2>1, <2>2 DEF ClosedIsFree, Sends, Free
  <1>9. SentIsCharged'
    <2>1. \A r \in Runs : ~ Sends(r, m)
      BY <1>1 DEF ChargeInv, LinkedIsSent, Handles
    <2>2. Delivered(m) => m \in raced
      BY <1>1 DEF ChargeInv, SentIsCharged, Delivered
    <2>3. QED
      BY <1>2, <1>3, <1>4, <1>5, <2>1, <2>2 DEF ChargeInv, SentIsCharged, Delivered
  <1>10. QED
    BY <1>6, <1>7, <1>8, <1>9 DEF ChargeInv

-----------------------------------------------------------------------------
(* Steps of a run that sends nothing yet.                                  *)

(* Who handles, sends or knows of a message when one run moves.            *)
LEMMA WhoHandles ==
    ASSUME PurseInv, NEW r \in Runs, NEW next \in RunStates, Becomes(r, next)
    PROVE  /\ run'[r] = next
           /\ \A q \in Runs \ {r} : run'[q] = run[q]
           /\ \A q \in Runs \ {r}, k \in Messages :
                  /\ Handles(q, k)' <=> Handles(q, k)
                  /\ Sends(q, k)' <=> Sends(q, k)
                  /\ Knows(q, k)' <=> Knows(q, k)
           /\ \A k \in Messages :
                  /\ Handles(r, k)' <=> k \in next.batch \/ Sends(r, k)'
                  /\ Sends(r, k)' <=> next.stage \in Sending /\ next.msg = k
                  /\ Knows(r, k)' <=> next.stage = "accepted" /\ next.msg = k
  <1>1. run'[r] = next /\ \A q \in Runs \ {r} : run'[q] = run[q]
    BY Frame DEF PurseInv
  <1>2. QED
    BY <1>1 DEF Handles, Sends, Knows, Sending

(* The run starts, or passes a message over.                               *)
LEMMA ChargeIdles ==
    ASSUME PurseInv, ChargeInv, NEW r \in Runs, NEW next \in RunStates, Becomes(r, next),
           run[r].stage \notin Sending, next.stage \notin Sending \cup {"closing"},
           next.batch \subseteq run[r].batch,
           UNCHANGED <<status, linked, net, hook, accepted, lost, missed, raced>>
    PROVE  ChargeInv'
  <1>1. /\ run'[r] = next
        /\ \A q \in Runs \ {r} : run'[q] = run[q]
        /\ \A q \in Runs \ {r}, k \in Messages :
               /\ Handles(q, k)' <=> Handles(q, k)
               /\ Sends(q, k)' <=> Sends(q, k)
               /\ Knows(q, k)' <=> Knows(q, k)
        /\ \A k \in Messages :
               /\ Handles(r, k)' <=> k \in next.batch \/ Sends(r, k)'
               /\ Sends(r, k)' <=> next.stage \in Sending /\ next.msg = k
               /\ Knows(r, k)' <=> next.stage = "accepted" /\ next.msg = k
    BY WhoHandles
  <1>2. \A k \in Messages : /\ ~ Sends(r, k) /\ ~ Sends(r, k)'
                            /\ ~ Knows(r, k) /\ ~ Knows(r, k)'
                            /\ Handles(r, k)' => Handles(r, k)
    BY <1>1 DEF Sends, Knows, Handles
  <1>3. AcceptedOnce'
    BY <1>1, <1>2 DEF ChargeInv, AcceptedOnce, Waiting
  <1>4. LinkedIsSent'
    BY <1>1, <1>2 DEF ChargeInv, LinkedIsSent, Delivered, PurseInv, WhatsAppTypeOK
  <1>5. \A k \in Messages : (\E q \in Runs : Sends(q, k)) => \E q \in Runs : Sends(q, k)'
    BY <1>1, <1>2
  <1>6. ClosedIsFree'
    <2>1. \A k \in Messages : (Free(k)' <=> Free(k)) /\ \A c \in Hooks : Refunds(c, k)' <=> Refunds(c, k)
      BY DEF Free, Refunds
    <2>2. \A q \in Runs : run'[q].stage = "closing" => q # r /\ run'[q] = run[q]
                                                     /\ run[q].msg \in Messages
      BY <1>1 DEF PurseInv, StagesOK, Sending
    <2>3. QED
      BY <1>5, <2>1, <2>2 DEF ChargeInv, ClosedIsFree
  <1>7. SentIsCharged'
    BY <1>1, <1>2 DEF ChargeInv, SentIsCharged, Delivered, Refunds, Sends
  <1>8. QED
    BY <1>3, <1>4, <1>6, <1>7 DEF ChargeInv

LEMMA ChargeStartRun ==
    ASSUME PurseInv, ChargeInv, NEW r \in Runs, StartRun(r)
    PROVE  ChargeInv'
  <1> DEFINE next == [run[r] EXCEPT !.stage = "recover", !.todo = Stale]
  <1>1. /\ next \in RunStates /\ next.stage = "recover"
        /\ next.batch = run[r].batch
    BY DEF PurseInv, WhatsAppTypeOK, RunStates, RunStages, Stale
  <1>2. /\ Becomes(r, next) /\ run[r].stage = "idle"
        /\ UNCHANGED <<status, linked, net, hook, accepted, lost, missed, raced>>
    BY DEF StartRun, moneyVars, metaVars
  <1> HIDE DEF next
  <1>3. QED
    BY <1>1, <1>2, ChargeIdles DEF Sending

(* An abandoned row is refunded.  If another run is still sending it, or   *)
(* did, the history says so.                                               *)
LEMMA ChargeRecoverRefund ==
    ASSUME PurseInv, ChargeInv, NEW r \in Runs, NEW m \in Messages, RecoverRefund(r, m)
    PROVE  ChargeInv'
  <1> DEFINE next == [run[r] EXCEPT !.stage = "closing", !.msg = m,
                                    !.todo = run[r].todo \ {m}]
  <1>1. /\ next \in RunStates /\ next.stage = "closing" /\ next.msg = m
        /\ next.batch = run[r].batch
    BY DEF PurseInv, WhatsAppTypeOK, RunStates, RunStages
  <1>2. /\ Becomes(r, next) /\ run[r].stage = "recover"
        /\ UNCHANGED <<status, linked, hook, accepted, lost>>
        /\ raced' = IF status[m] # "SENDING" \/ \E q \in Runs : run[q].msg = m
                    THEN raced \cup {m} ELSE raced
    BY DEF RecoverRefund, metaVars
  <1> HIDE DEF next
  <1>3. /\ run'[r] = next
        /\ \A q \in Runs \ {r} : run'[q] = run[q]
        /\ \A q \in Runs \ {r}, k \in Messages :
               /\ Handles(q, k)' <=> Handles(q, k)
               /\ Sends(q, k)' <=> Sends(q, k)
               /\ Knows(q, k)' <=> Knows(q, k)
        /\ \A k \in Messages :
               /\ Handles(r, k)' <=> k \in next.batch \/ Sends(r, k)'
               /\ Sends(r, k)' <=> next.stage \in Sending /\ next.msg = k
               /\ Knows(r, k)' <=> next.stage = "accepted" /\ next.msg = k
    BY <1>1, <1>2, WhoHandles
  <1>4. \A q \in Runs, k \in Messages : /\ Sends(q, k)' <=> Sends(q, k)
                                        /\ Knows(q, k)' <=> Knows(q, k)
                                        /\ Handles(q, k)' <=> Handles(q, k)
    BY <1>1, <1>2, <1>3 DEF Sends, Knows, Handles, Sending
  <1>5. /\ Free(m)' /\ \A k \in Messages : Free(k) => Free(k)'
        /\ \A k \in Messages \ {m} : net'[k] = net[k]
    BY RefundClears DEF RecoverRefund, PurseInv
  <1>6. AcceptedOnce'
    BY <1>2, <1>4 DEF ChargeInv, AcceptedOnce, Waiting
  <1>7. LinkedIsSent'
    BY <1>2, <1>4 DEF ChargeInv, LinkedIsSent, Delivered, PurseInv, WhatsAppTypeOK
  <1>8. ClosedIsFree'
    <2>1. \A c \in Hooks, k \in Messages : Refunds(c, k)' <=> Refunds(c, k)
      BY <1>2 DEF Refunds
    <2>2. \A q \in Runs, k \in Messages : run'[q].stage = "closing" /\ k = run'[q].msg =>
           \/ Free(k)' \/ \E p \in Runs : Sends(p, k) \/ status[k] # "SENDING"
      <3>1. SUFFICES ASSUME NEW q \in Runs, NEW k \in Messages,
                            run'[q].stage = "closing", k = run'[q].msg
                     PROVE  \/ Free(k)' \/ \E p \in Runs : Sends(p, k)
                            \/ status[k] # "SENDING"
        OBVIOUS
      <3>2. CASE q = r
        BY <1>1, <1>3, <1>5, <3>1, <3>2 DEF Free
      <3>3. CASE q # r
        BY <1>3, <1>5, <3>1, <3>3 DEF ChargeInv, ClosedIsFree
      <3>4. QED
        BY <3>2, <3>3
    <2>3. \A q \in Runs : run'[q].stage = "closing" => run'[q].msg \in Messages
      BY <1>1, <1>3 DEF PurseInv, StagesOK
    <2>4. \A q \in Runs : run'[q].stage = "closing" =>
           \/ Free(run[q].msg)' \/ (\E p \in Runs : Sends(p, run[q].msg))'
           \/ status'[run'[q].msg] # "SENDING"
      <3>1. SUFFICES ASSUME NEW q \in Runs, NEW k \in Messages,
                            run'[q].stage = "closing", k = run'[q].msg
                     PROVE  \/ Free(run[q].msg)' \/ (\E p \in Runs : Sends(p, run[q].msg))'
                            \/ status'[k] # "SENDING"
        BY <2>3
      <3>2. \/ Free(k)' \/ \E p \in Runs : Sends(p, k)' \/ status'[k] # "SENDING"
        BY <1>2, <1>4, <2>2, <3>1
      <3>3. QED
        BY <3>1, <3>2 DEF Free, Sends
    <2>5. \A k \in Messages : status[k] \in {"FAILED", "SKIPPED"} =>
             \/ Free(k)' \/ \E q \in Runs : Sends(q, k)'
             \/ \E c \in Hooks : Refunds(c, k)'
      BY <1>4, <1>5, <2>1 DEF ChargeInv, ClosedIsFree
    <2>6. QED
      BY <1>2, <2>4, <2>5 DEF ClosedIsFree
  <1>9. SentIsCharged'
    <2>1. raced \subseteq raced' /\ \A q \in Runs : Sends(q, m) => m \in raced'
      BY <1>2 DEF Sends
    <2>2. Delivered(m) => m \in raced'
      BY <1>2 DEF Delivered
    <2>3. \A q \in Runs, k \in Messages :
              Sends(q, k)' => run'[q].stage = run[q].stage
      BY <1>1, <1>3 DEF Sending
    <2>4. QED
      BY <1>2, <1>4, <1>5, <2>1, <2>2, <2>3 DEF ChargeInv, SentIsCharged, Delivered, Refunds
  <1>10. QED
    BY <1>6, <1>7, <1>8, <1>9 DEF ChargeInv

(* ... and closed, if it is still SENDING.                                 *)
LEMMA ChargeRecoverFinish ==
    ASSUME PurseInv, ChargeInv, NEW r \in Runs, RecoverFinish(r)
    PROVE  ChargeInv'
  <1> DEFINE next == [run[r] EXCEPT !.stage = "recover", !.msg = NoMessage]
  <1>1. /\ next \in RunStates /\ next.stage = "recover"
        /\ next.batch = run[r].batch
    BY DEF PurseInv, WhatsAppTypeOK, RunStates, RunStages
  <1>2. PICK m \in Messages : m = run[r].msg
    BY DEF RecoverFinish, PurseInv, StagesOK
  <1>3. /\ Becomes(r, next) /\ run[r].stage = "closing"
        /\ UNCHANGED <<linked, net, hook, accepted, lost, missed, raced>>
        /\ \A k \in Messages \ {m} : status'[k] = status[k]
        /\ status'[m] = IF status[m] = "SENDING" THEN "FAILED" ELSE status[m]
    BY <1>2 DEF RecoverFinish, Finish, moneyVars, metaVars, PurseInv, WhatsAppTypeOK
  <1> HIDE DEF next
  <1>4. /\ run'[r] = next
        /\ \A q \in Runs \ {r} : run'[q] = run[q]
        /\ \A q \in Runs \ {r}, k \in Messages :
               /\ Handles(q, k)' <=> Handles(q, k)
               /\ Sends(q, k)' <=> Sends(q, k)
               /\ Knows(q, k)' <=> Knows(q, k)
        /\ \A k \in Messages :
               /\ Handles(r, k)' <=> k \in next.batch \/ Sends(r, k)'
               /\ Sends(r, k)' <=> next.stage \in Sending /\ next.msg = k
               /\ Knows(r, k)' <=> next.stage = "accepted" /\ next.msg = k
    BY <1>1, <1>3, WhoHandles
  <1>5. \A q \in Runs, k \in Messages : /\ Sends(q, k)' <=> Sends(q, k)
                                        /\ Knows(q, k)' <=> Knows(q, k)
                                        /\ Handles(q, k)' <=> Handles(q, k)
    BY <1>1, <1>3, <1>4 DEF Sends, Knows, Handles, Sending
  <1>6. \A k \in Messages : /\ Waiting(k)' <=> Waiting(k)
                            /\ Delivered(k)' <=> Delivered(k)
                            /\ status[k] = "FAILED" => status'[k] = "FAILED"
    BY <1>3 DEF Waiting, Delivered
  <1>7. AcceptedOnce'
    BY <1>3, <1>5, <1>6 DEF ChargeInv, AcceptedOnce
  <1>8. LinkedIsSent'
    BY <1>3, <1>5, <1>6 DEF ChargeInv, LinkedIsSent, PurseInv, WhatsAppTypeOK
  <1>9. ClosedIsFree'
    <2>1. \A k \in Messages : /\ Free(k)' <=> Free(k)
                              /\ \A c \in Hooks : Refunds(c, k)' <=> Refunds(c, k)
      BY <1>3 DEF Free, Refunds
    <2>2. \A q \in Runs : run'[q].stage = "closing" =>
              q # r /\ run'[q] = run[q] /\ run[q].msg \in Messages
      BY <1>1, <1>4 DEF PurseInv, StagesOK
    <2>3. \A k \in Messages : status'[k] \in {"FAILED", "SKIPPED"} =>
             \/ Free(k) \/ \E q \in Runs : Sends(q, k)
             \/ \E c \in Hooks : Refunds(c, k)
      BY <1>2, <1>3 DEF ChargeInv, ClosedIsFree
    <2>4. \A k \in Messages : status'[k] = "SENDING" => status[k] = "SENDING"
      BY <1>3
    <2>5. QED
      BY <1>5, <2>1, <2>2, <2>3, <2>4 DEF ChargeInv, ClosedIsFree
  <1>10. SentIsCharged'
    <2>1. \A q \in Runs, k \in Messages :
              Sends(q, k)' => run'[q].stage = run[q].stage
      BY <1>1, <1>4 DEF Sending
    <2>2. QED
      BY <1>3, <1>5, <1>6, <2>1 DEF ChargeInv, SentIsCharged, Refunds
  <1>11. QED
    BY <1>7, <1>8, <1>9, <1>10 DEF ChargeInv

LEMMA ChargeClaimDue ==
    ASSUME PurseInv, ChargeInv, NEW r \in Runs, claimDue(r)
    PROVE  ChargeInv'
  <1>1. PICK S \in SUBSET {m \in Messages : status[m] = "SCHEDULED"} :
            /\ status' = [m \in Messages |-> IF m \in S THEN "SENDING"
                                             ELSE status[m]]
            /\ NextInBatch(r, S)
    BY DEF claimDue
  <1> DEFINE next == IF S = {} THEN NoRun
                     ELSE [NoRun EXCEPT !.stage = "process", !.batch = S]
  <1>2. /\ next \in RunStates /\ next.batch = S
        /\ next.stage \in {"process", "idle"}
    BY <1>1 DEF NoRun, RunStates, RunStages
  <1>3. /\ Becomes(r, next) /\ run[r].stage = "recover"
        /\ UNCHANGED <<linked, net, hook, accepted, lost, missed, raced>>
    BY <1>1 DEF NextInBatch, claimDue, moneyVars, metaVars
  <1> HIDE DEF next
  <1>4. /\ run'[r] = next
        /\ \A q \in Runs \ {r} : run'[q] = run[q]
        /\ \A q \in Runs \ {r}, k \in Messages :
               /\ Handles(q, k)' <=> Handles(q, k)
               /\ Sends(q, k)' <=> Sends(q, k)
               /\ Knows(q, k)' <=> Knows(q, k)
        /\ \A k \in Messages :
               /\ Handles(r, k)' <=> k \in next.batch \/ Sends(r, k)'
               /\ Sends(r, k)' <=> next.stage \in Sending /\ next.msg = k
               /\ Knows(r, k)' <=> next.stage = "accepted" /\ next.msg = k
    BY <1>2, <1>3, WhoHandles
  <1>5. \A q \in Runs, k \in Messages :
            /\ Sends(q, k)' <=> Sends(q, k)
            /\ Knows(q, k)' <=> Knows(q, k)
            /\ Handles(q, k)' => Handles(q, k) \/ k \in S
    BY <1>2, <1>3, <1>4 DEF Sends, Knows, Sending
  <1>6. /\ \A k \in S : /\ k \in Messages /\ Waiting(k) /\ Free(k)
                        /\ \A q \in Runs : ~ Knows(q, k)
        /\ \A k \in Messages : /\ Waiting(k)' => Waiting(k)
                               /\ Delivered(k)' <=> Delivered(k)
                               /\ status[k] = "FAILED" => status'[k] = "FAILED"
                               /\ status'[k] \in {"FAILED", "SKIPPED"} => status'[k] = status[k]
    <2>1. \A k \in S : k \in Messages /\ Waiting(k)
      BY <1>1 DEF Waiting
    <2>2. \A k \in S : Free(k) /\ \A q \in Runs : ~ Knows(q, k)
      BY <2>1 DEF PurseInv, FreeBeforeCharge, Sole, Knows, Handles
    <2>3. QED
      BY <1>1, <2>1, <2>2 DEF Waiting, Delivered
  <1>7. AcceptedOnce'
    <2>1. \A q \in Runs, k \in Messages : Handles(q, k)' =>
              accepted[k] = lost[k] + (IF Knows(q, k) THEN 1 ELSE 0)
      BY <1>5, <1>6 DEF ChargeInv, AcceptedOnce
    <2>2. QED
      BY <1>3, <1>5, <1>6, <2>1 DEF ChargeInv, AcceptedOnce
  <1>8. LinkedIsSent'
    <2>1. \A k \in linked : k \in Messages /\ k \notin S
      BY <1>6 DEF ChargeInv, LinkedIsSent, Waiting, Delivered, PurseInv, WhatsAppTypeOK
    <2>2. QED
      BY <1>3, <1>5, <1>6, <2>1 DEF ChargeInv, LinkedIsSent
  <1>9. ClosedIsFree'
    <2>1. \A k \in Messages : /\ Free(k)' <=> Free(k)
                              /\ \A c \in Hooks : Refunds(c, k)' <=> Refunds(c, k)
      BY <1>3 DEF Free, Refunds
    <2>2. \A q \in Runs : run'[q].stage = "closing" =>
              q # r /\ run'[q] = run[q] /\ run[q].msg \in Messages
      BY <1>2, <1>4 DEF PurseInv, StagesOK
    <2>3. \A k \in Messages : status'[k] = "SENDING" => status[k] = "SENDING" \/ Free(k)
      BY <1>1, <1>6
    <2>4. QED
      BY <1>5, <1>6, <2>1, <2>2, <2>3 DEF ChargeInv, ClosedIsFree
  <1>10. SentIsCharged'
    <2>1. \A q \in Runs, k \in Messages :
              Sends(q, k)' => run'[q].stage = run[q].stage
      BY <1>2, <1>4 DEF Sending
    <2>2. QED
      BY <1>3, <1>5, <1>6, <2>1 DEF ChargeInv, SentIsCharged, Refunds
  <1>11. QED
    BY <1>7, <1>8, <1>9, <1>10 DEF ChargeInv

(* A run takes up a message, or passes it over.                            *)
LEMMA ChargeReadMessage ==
    ASSUME PurseInv, ChargeInv, NEW r \in Runs, NEW m \in Messages, ReadMessage(r, m)
    PROVE  ChargeInv'
  <1>0. /\ UNCHANGED <<status, linked, net, hook, accepted, lost, missed, raced>>
        /\ run[r].stage = "process" /\ m \in run[r].batch
    BY DEF ReadMessage, moneyVars, metaVars
  <1>1. CASE NextInBatch(r, run[r].batch \ {m})
    <2> DEFINE B == run[r].batch \ {m}
               next == IF B = {} THEN NoRun
                       ELSE [NoRun EXCEPT !.stage = "process", !.batch = B]
    <2>1. B \subseteq Messages
      BY DEF PurseInv, WhatsAppTypeOK, RunStates
    <2>2. Becomes(r, next)
      BY <1>1 DEF NextInBatch
    <2> HIDE DEF B
    <2>3. /\ next \in RunStates /\ next.batch = B /\ next.stage \in {"process", "idle"}
      BY <2>1 DEF NoRun, RunStates, RunStages
    <2> HIDE DEF next
    <2>4. next.batch \subseteq run[r].batch /\ next.stage \notin Sending \cup {"closing"}
      BY <2>3 DEF B, Sending
    <2>5. QED
      BY <1>0, <2>2, <2>3, <2>4, ChargeIdles DEF Sending
  <1>2. CASE Becomes(r, [run[r] EXCEPT !.stage = "read", !.msg = m,
                                        !.batch = run[r].batch \ {m},
                                        !.tries = attempts[m]])
    <2> DEFINE next == [run[r] EXCEPT !.stage = "read", !.msg = m,
                                      !.batch = run[r].batch \ {m},
                                      !.tries = attempts[m]]
    <2>1. /\ next \in RunStates /\ next.stage = "read" /\ next.msg = m
          /\ next.batch = run[r].batch \ {m}
      BY DEF PurseInv, WhatsAppTypeOK, RunStates, RunStages
    <2>2. Becomes(r, next)
      BY <1>2
    <2> HIDE DEF next
    <2>3. /\ run'[r] = next
          /\ \A q \in Runs \ {r} : run'[q] = run[q]
          /\ \A q \in Runs \ {r}, k \in Messages :
                 /\ Handles(q, k)' <=> Handles(q, k)
                 /\ Sends(q, k)' <=> Sends(q, k)
                 /\ Knows(q, k)' <=> Knows(q, k)
          /\ \A k \in Messages :
                 /\ Handles(r, k)' <=> k \in next.batch \/ Sends(r, k)'
                 /\ Sends(r, k)' <=> next.stage \in Sending /\ next.msg = k
                 /\ Knows(r, k)' <=> next.stage = "accepted" /\ next.msg = k
      BY <2>1, <2>2, WhoHandles
    <2>4. \A q \in Runs, k \in Messages :
              /\ Sends(q, k) => Sends(q, k)'
              /\ Knows(q, k)' <=> Knows(q, k)
              /\ Handles(q, k)' <=> Handles(q, k)
      BY <1>0, <2>1, <2>3 DEF Sends, Knows, Handles, Sending
    <2>5. AcceptedOnce'
      BY <1>0, <2>4 DEF ChargeInv, AcceptedOnce, Waiting
    <2>6. LinkedIsSent'
      BY <1>0, <2>4 DEF ChargeInv, LinkedIsSent, Delivered, PurseInv, WhatsAppTypeOK
    <2>7. ClosedIsFree'
      <3>1. \A k \in Messages : /\ Free(k)' <=> Free(k)
                                /\ \A c \in Hooks : Refunds(c, k)' <=> Refunds(c, k)
        BY <1>0 DEF Free, Refunds
      <3>2. \A q \in Runs : run'[q].stage = "closing" =>
                q # r /\ run'[q] = run[q] /\ run[q].msg \in Messages
        BY <2>1, <2>3 DEF PurseInv, StagesOK
      <3>3. QED
        BY <1>0, <2>4, <3>1, <3>2 DEF ChargeInv, ClosedIsFree
    <2>8. SentIsCharged'
      <3>1. \A q \in Runs, k \in Messages :
                Sends(q, k)' => run'[q].stage = "read" \/ (q # r /\ run'[q] = run[q] /\ Sends(q, k))
        BY <2>1, <2>3
      <3>2. QED
        BY <1>0, <3>1 DEF ChargeInv, SentIsCharged, Delivered, Refunds
    <2>9. QED
      BY <2>5, <2>6, <2>7, <2>8 DEF ChargeInv
  <1>3. QED
    BY <1>1, <1>2 DEF ReadMessage

-----------------------------------------------------------------------------
(* Steps of a run that is sending.                                         *)

(* The run goes on with its message m: charges, acceptances and refunds    *)
(* concern that message only.                                              *)
LEMMA ChargeSame ==
    ASSUME PurseInv, ChargeInv, NEW r \in Runs, NEW next \in RunStates, Becomes(r, next),
           NEW m \in Messages, m = run[r].msg,
           run[r].stage \in Sending, next.stage \in Sending,
           next.msg = m, next.batch = run[r].batch,
           UNCHANGED <<status, linked, hook, raced>>,
           \A k \in Messages \ {m} : net'[k] = net[k] /\ (Free(k) => Free(k)'),
           next.stage \in {"charged", "counted", "accepted"} => net'[m] > 0 \/ m \in raced,
           accepted' \in [Messages -> Nat], lost' \in [Messages -> Nat],
           \A k \in Messages \ {m} : accepted'[k] = accepted[k] /\ lost'[k] = lost[k],
           accepted'[m] = lost'[m] + (IF next.stage = "accepted" THEN 1 ELSE 0)
    PROVE  ChargeInv'
  <1>1. /\ run'[r] = next
        /\ \A q \in Runs \ {r} : run'[q] = run[q]
        /\ \A q \in Runs \ {r}, k \in Messages :
               /\ Handles(q, k)' <=> Handles(q, k)
               /\ Sends(q, k)' <=> Sends(q, k)
               /\ Knows(q, k)' <=> Knows(q, k)
        /\ \A k \in Messages :
               /\ Handles(r, k)' <=> k \in next.batch \/ Sends(r, k)'
               /\ Sends(r, k)' <=> next.stage \in Sending /\ next.msg = k
               /\ Knows(r, k)' <=> next.stage = "accepted" /\ next.msg = k
    BY WhoHandles
  <1>2. \A q \in Runs, k \in Messages :
            /\ Sends(q, k)' <=> Sends(q, k)
            /\ Handles(q, k)' <=> Handles(q, k)
            /\ Knows(q, k)' <=> IF q = r THEN next.stage = "accepted" /\ k = m
                                ELSE Knows(q, k)
    BY <1>1 DEF Sends, Handles
  <1>3. /\ Sends(r, m) /\ Handles(r, m) /\ ~ Waiting(m)
        /\ \A q \in Runs \ {r} : ~ Handles(q, m) /\ ~ Sends(q, m)
    BY DEF Sends, Handles, PurseInv, Sole
  <1>4. AcceptedOnce'
    <2>1. \A k \in Messages : /\ accepted'[k] \in {lost'[k], lost'[k] + 1}
                              /\ Waiting(k) => accepted'[k] = lost'[k]
      BY <1>3 DEF ChargeInv, AcceptedOnce
    <2>2. \A q \in Runs, k \in Messages : Handles(q, k) =>
              accepted'[k] = lost'[k] + (IF Knows(q, k)' THEN 1 ELSE 0)
      <3>1. SUFFICES ASSUME NEW q \in Runs, NEW k \in Messages, Handles(q, k)
                     PROVE  accepted'[k] = lost'[k] + (IF Knows(q, k)' THEN 1 ELSE 0)
        OBVIOUS
      <3>2. CASE k = m
        BY <1>2, <1>3, <3>1, <3>2
      <3>3. CASE k # m
        <4>1. Knows(q, k)' <=> Knows(q, k)
          BY <1>2, <3>3 DEF Knows, Sends
        <4>2. QED
          BY <3>1, <3>3, <4>1 DEF ChargeInv, AcceptedOnce
      <3>4. QED
        BY <3>2, <3>3
    <2>3. QED
      BY <1>2, <2>1, <2>2 DEF AcceptedOnce, Waiting
  <1>5. LinkedIsSent'
    BY <1>2 DEF ChargeInv, LinkedIsSent, Delivered, PurseInv, WhatsAppTypeOK
  <1>6. ClosedIsFree'
    <2>1. \A k \in Messages : /\ Free(k) => Free(k)' \/ Sends(r, k)'
                              /\ \A c \in Hooks : Refunds(c, k)' <=> Refunds(c, k)
      BY <1>2, <1>3 DEF Refunds
    <2>2. \A q \in Runs : run'[q].stage = "closing" =>
              q # r /\ run'[q] = run[q] /\ run[q].msg \in Messages
      BY <1>1 DEF PurseInv, StagesOK, Sending
    <2>3. QED
      BY <1>2, <2>1, <2>2 DEF ChargeInv, ClosedIsFree
  <1>7. SentIsCharged'
    <2>1. ~ Delivered(m) /\ \A c \in Hooks : ~ Refunds(c, m)
      BY <1>3 DEF ChargeInv, LinkedIsSent, Refunds
    <2>2. \A q \in Runs, k \in Messages :
           Sends(q, k) /\ run'[q].stage \in {"charged", "counted", "accepted"}
               => net'[k] > 0 \/ k \in raced
      <3>1. SUFFICES ASSUME NEW q \in Runs, NEW k \in Messages, Sends(q, k),
                            run'[q].stage \in {"charged", "counted", "accepted"}
                     PROVE  net'[k] > 0 \/ k \in raced
        OBVIOUS
      <3>2. CASE q = r
        BY <1>1, <3>1, <3>2 DEF Sends
      <3>3. CASE q # r
        BY <1>1, <1>3, <3>1, <3>3 DEF ChargeInv, SentIsCharged
      <3>4. QED
        BY <3>2, <3>3
    <2>3. \A k \in Messages : Delivered(k) => net'[k] > 0 \/ k \in raced
      BY <2>1 DEF ChargeInv, SentIsCharged
    <2>4. \A c \in Hooks, k \in Messages : Refunds(c, k) => status[k] = "FAILED" \/ k \in raced
      BY DEF ChargeInv, SentIsCharged
    <2>5. QED
      BY <1>2, <2>2, <2>3, <2>4 DEF SentIsCharged, Delivered, Refunds
  <1>8. QED
    BY <1>4, <1>5, <1>6, <1>7 DEF ChargeInv

(* What is known of the message a run sends.                               *)
LEMMA SendingKnows ==
    ASSUME PurseInv, ChargeInv, NEW r \in Runs, run[r].stage \in Sending
    PROVE  /\ run[r].msg \in Messages /\ run[r] \in RunStates
           /\ Sends(r, run[r].msg) /\ ~ Waiting(run[r].msg)
           /\ \A q \in Runs \ {r} : ~ Handles(q, run[r].msg)
           /\ run[r].msg \notin run[r].batch
           /\ accepted \in [Messages -> Nat] /\ lost \in [Messages -> Nat]
           /\ accepted[run[r].msg] = lost[run[r].msg]
                                     + (IF run[r].stage = "accepted" THEN 1 ELSE 0)
           /\ run[r].stage \in {"charged", "counted", "accepted"}
                  => net[run[r].msg] > 0 \/ run[r].msg \in raced
           /\ run[r].stage \in Uncharged => Free(run[r].msg)
  <1>1. run[r].msg \in Messages /\ run[r] \in RunStates
    BY DEF PurseInv, StagesOK, WhatsAppTypeOK
  <1>2. Sends(r, run[r].msg) /\ Handles(r, run[r].msg)
        /\ (Knows(r, run[r].msg) <=> run[r].stage = "accepted")
    BY DEF Sends, Handles, Knows
  <1>3. /\ ~ Waiting(run[r].msg) /\ \A q \in Runs \ {r} : ~ Handles(q, run[r].msg)
        /\ run[r].msg \notin run[r].batch
    BY <1>1, <1>2 DEF PurseInv, Sole
  <1>4. /\ accepted \in [Messages -> Nat] /\ lost \in [Messages -> Nat]
        /\ accepted[run[r].msg] = lost[run[r].msg]
                                  + (IF run[r].stage = "accepted" THEN 1 ELSE 0)
    BY <1>1, <1>2 DEF ChargeInv, AcceptedOnce
  <1>5. run[r].stage \in {"charged", "counted", "accepted"}
            => net[run[r].msg] > 0 \/ run[r].msg \in raced
    BY <1>1, <1>2 DEF ChargeInv, SentIsCharged
  <1>6. run[r].stage \in Uncharged => Free(run[r].msg)
    BY DEF PurseInv, FreeBeforeCharge
  <1>7. QED
    BY <1>1, <1>2, <1>3, <1>4, <1>5, <1>6

(* Steps to another stage, and to a stage with a verdict, that charge and  *)
(* lose nothing.                                                           *)
LEMMA ChargeStages ==
    ASSUME PurseInv, ChargeInv, NEW r \in Runs, NEW next \in RunStates, Becomes(r, next),
           run[r].stage \in Sending \ {"accepted"}, next.stage \in Sending \ {"accepted"},
           next.msg = run[r].msg, next.batch = run[r].batch,
           next.stage \in {"charged", "counted"} => run[r].stage \in {"charged", "counted"},
           UNCHANGED <<status, linked, hook, raced, net, missed, metaVars>>
    PROVE  ChargeInv'
  <1>1. PICK m \in Messages : m = run[r].msg
    BY SendingKnows
  <1>2. /\ accepted' \in [Messages -> Nat] /\ lost' \in [Messages -> Nat]
        /\ accepted'[m] = lost'[m] + (IF next.stage = "accepted" THEN 1 ELSE 0)
        /\ \A k \in Messages \ {m} : accepted'[k] = accepted[k] /\ lost'[k] = lost[k]
        /\ next.stage \in {"charged", "counted", "accepted"} => net'[m] > 0 \/ m \in raced
    BY <1>1, SendingKnows DEF metaVars
  <1>3. \A k \in Messages \ {m} : net'[k] = net[k] /\ (Free(k) => Free(k)')
    BY DEF Free
  <1>4. QED
    BY <1>1, <1>2, <1>3, ChargeSame

LEMMA ChargePreflight ==
    ASSUME PurseInv, ChargeInv, NEW r \in Runs, preflight(r)
    PROVE  ChargeInv'
  <1>1. /\ run[r].stage = "read" /\ run[r] \in RunStates
        /\ UNCHANGED <<status, linked, hook, raced, net, missed, metaVars>>
    BY DEF preflight, moneyVars, PurseInv, WhatsAppTypeOK
  <1>2. CASE Becomes(r, [run[r] EXCEPT !.stage = "priced", !.price = price])
    <2> DEFINE next == [run[r] EXCEPT !.stage = "priced", !.price = price]
    <2>1. /\ next \in RunStates /\ next.stage = "priced"
          /\ next.msg = run[r].msg /\ next.batch = run[r].batch
      BY <1>1 DEF PurseInv, WhatsAppTypeOK, RunStates, RunStages
    <2>2. Becomes(r, next)
      BY <1>2
    <2> HIDE DEF next
    <2>3. QED
      BY <1>1, <2>1, <2>2, ChargeStages DEF Sending
  <1>3. CASE \E v \in {"SKIPPED", "FAILED"} : Stop(r, "stopped", v)
    <2>1. PICK v \in {"SKIPPED", "FAILED"} : Stop(r, "stopped", v)
      BY <1>3
    <2> DEFINE next == [run[r] EXCEPT !.stage = "stopped", !.verdict = v]
    <2>2. /\ next \in RunStates /\ next.stage = "stopped"
          /\ next.msg = run[r].msg /\ next.batch = run[r].batch
      BY <1>1 DEF RunStates, RunStages
    <2>3. Becomes(r, next)
      BY <2>1 DEF Stop
    <2> HIDE DEF next
    <2>4. QED
      BY <1>1, <2>2, <2>3, ChargeStages DEF Sending
  <1>4. QED
    BY <1>2, <1>3 DEF preflight

LEMMA ChargeDebit ==
    ASSUME PurseInv, ChargeInv, WhatsAppAssumption, NEW r \in Runs, Debit(r)
    PROVE  ChargeInv'
  <1>1. /\ run[r].stage = "priced" /\ run[r].stage \in Sending /\ run[r] \in RunStates
        /\ run[r].price \in Nat \ {0} /\ net \in [Messages -> Nat]
        /\ UNCHANGED <<status, linked, hook, raced, missed, metaVars>>
    BY DEF Debit, PurseInv, StagesOK, WhatsAppTypeOK, WhatsAppAssumption, Sending
  <1>2. CASE debitForMessage(run[r].msg, run[r].price) /\ Step(r, "charged")
    <2> DEFINE next == [run[r] EXCEPT !.stage = "charged"]
    <2>1. /\ next \in RunStates /\ next.stage = "charged"
          /\ next.msg = run[r].msg /\ next.batch = run[r].batch
      BY <1>1 DEF RunStates, RunStages
    <2>2. Becomes(r, next)
      BY <1>2 DEF Step
    <2>3. PICK m \in Messages : m = run[r].msg
      BY <1>1, SendingKnows
    <2>4. net' = [net EXCEPT ![m] = net[m] + run[r].price]
      BY <1>2, <2>3 DEF debitForMessage
    <2>5. net'[m] > 0 /\ \A k \in Messages \ {m} : net'[k] = net[k]
      BY <1>1, <2>4
    <2>6. \A k \in Messages \ {m} : net'[k] = net[k] /\ (Free(k) => Free(k)')
      BY <1>1, <2>5 DEF Free
    <2>7. /\ accepted' \in [Messages -> Nat] /\ lost' \in [Messages -> Nat]
          /\ accepted'[m] = lost'[m] + (IF next.stage = "accepted" THEN 1 ELSE 0)
          /\ \A k \in Messages \ {m} : accepted'[k] = accepted[k] /\ lost'[k] = lost[k]
      BY <1>1, <2>1, <2>3, SendingKnows DEF metaVars
    <2> HIDE DEF next
    <2>8. QED
      BY <1>1, <2>1, <2>2, <2>3, <2>5, <2>6, <2>7, ChargeSame DEF Sending
  <1>3. CASE Stop(r, "stopped", "FAILED") /\ UNCHANGED <<total, net>>
    <2> DEFINE next == [run[r] EXCEPT !.stage = "stopped", !.verdict = "FAILED"]
    <2>2. /\ next \in RunStates /\ next.stage = "stopped"
          /\ next.msg = run[r].msg /\ next.batch = run[r].batch
      BY <1>1 DEF RunStates, RunStages
    <2>3. Becomes(r, next)
      BY <1>3 DEF Stop
    <2> HIDE DEF next
    <2>4. QED
      BY <1>1, <1>3, <2>2, <2>3, ChargeStages DEF Sending
  <1>4. QED
    BY <1>2, <1>3 DEF Debit

LEMMA ChargeCountAttempt ==
    ASSUME PurseInv, ChargeInv, NEW r \in Runs, CountAttempt(r)
    PROVE  ChargeInv'
  <1> DEFINE next == [run[r] EXCEPT !.stage = "counted"]
  <1>1. /\ run[r].stage = "charged" /\ run[r] \in RunStates
        /\ UNCHANGED <<status, linked, hook, raced, net, missed, metaVars>>
    BY DEF CountAttempt, moneyVars, PurseInv, WhatsAppTypeOK
  <1>2. /\ next \in RunStates /\ next.stage = "counted"
        /\ next.msg = run[r].msg /\ next.batch = run[r].batch
    BY <1>1 DEF RunStates, RunStages
  <1>3. Becomes(r, next)
    BY DEF CountAttempt, Step
  <1> HIDE DEF next
  <1>4. QED
    BY <1>1, <1>2, <1>3, ChargeStages DEF Sending

(* Meta accepts the message, and the run learns of it or not.              *)
LEMMA ChargeSend ==
    ASSUME PurseInv, ChargeInv, NEW r \in Runs, SendTemplate(r)
    PROVE  ChargeInv'
  <1>1. /\ run[r].stage = "counted" /\ run[r].stage \in Sending /\ run[r] \in RunStates
        /\ UNCHANGED <<status, linked, hook, raced, net, missed>>
        /\ Retry(r) \in {"SCHEDULED", "FAILED"}
    BY DEF SendTemplate, moneyVars, PurseInv, WhatsAppTypeOK, Sending, Retry
  <1>2. PICK m \in Messages : m = run[r].msg
    BY <1>1, SendingKnows
  <1>3. /\ accepted \in [Messages -> Nat] /\ lost \in [Messages -> Nat]
        /\ accepted[m] = lost[m] /\ (net[m] > 0 \/ m \in raced)
    BY <1>1, <1>2, SendingKnows
  <1>4. \A k \in Messages \ {m} : net'[k] = net[k] /\ (Free(k) => Free(k)')
    BY <1>1 DEF Free
  <1>5. CASE /\ Step(r, "accepted") /\ lost' = lost
             /\ accepted' = [accepted EXCEPT ![m] = accepted[m] + 1]
    <2> DEFINE next == [run[r] EXCEPT !.stage = "accepted"]
    <2>1. /\ next \in RunStates /\ next.stage = "accepted"
          /\ next.msg = run[r].msg /\ next.batch = run[r].batch
      BY <1>1 DEF RunStates, RunStages
    <2>2. Becomes(r, next)
      BY <1>5 DEF Step
    <2> HIDE DEF next
    <2>3. /\ accepted' \in [Messages -> Nat] /\ lost' \in [Messages -> Nat]
          /\ accepted'[m] = lost'[m] + (IF next.stage = "accepted" THEN 1 ELSE 0)
          /\ \A k \in Messages \ {m} : accepted'[k] = accepted[k] /\ lost'[k] = lost[k]
      BY <1>3, <1>5, <2>1
    <2>4. QED
      BY <1>1, <1>2, <1>3, <1>4, <2>1, <2>2, <2>3, ChargeSame DEF Sending
  <1>6. ASSUME NEW v \in {"SCHEDULED", "FAILED"}, Stop(r, "failing", v),
               \/ UNCHANGED metaVars
               \/ /\ accepted' = [accepted EXCEPT ![m] = accepted[m] + 1]
                  /\ lost' = [lost EXCEPT ![m] = lost[m] + 1]
        PROVE  ChargeInv'
    <2> DEFINE next == [run[r] EXCEPT !.stage = "failing", !.verdict = v]
    <2>1. /\ next \in RunStates /\ next.stage = "failing"
          /\ next.msg = run[r].msg /\ next.batch = run[r].batch
      BY <1>1 DEF RunStates, RunStages
    <2>2. Becomes(r, next)
      BY <1>6 DEF Stop
    <2> HIDE DEF next
    <2>3. /\ accepted' \in [Messages -> Nat] /\ lost' \in [Messages -> Nat]
          /\ accepted'[m] = lost'[m] + (IF next.stage = "accepted" THEN 1 ELSE 0)
          /\ \A k \in Messages \ {m} : accepted'[k] = accepted[k] /\ lost'[k] = lost[k]
      BY <1>3, <1>6, <2>1 DEF metaVars
    <2>4. QED
      BY <1>1, <1>2, <1>4, <2>1, <2>2, <2>3, ChargeSame DEF Sending
  <1>7. QED
    BY <1>1, <1>2, <1>5, <1>6 DEF SendTemplate

(* A statement fails: what Meta accepted and the run knew of is lost.      *)
LEMMA ChargeThrows ==
    ASSUME PurseInv, ChargeInv, NEW r \in Runs, Throws(r)
    PROVE  ChargeInv'
  <1>1. /\ run[r].stage \in Sending /\ run[r] \in RunStates
        /\ UNCHANGED <<status, linked, hook, raced, net, missed, accepted>>
    BY DEF Throws, moneyVars, PurseInv, WhatsAppTypeOK, Sending
  <1>2. PICK m \in Messages : m = run[r].msg
    BY <1>1, SendingKnows
  <1>3. PICK s \in {"stopped", "failing"} : Stop(r, s, "FAILED")
    BY DEF Throws
  <1>4. /\ accepted \in [Messages -> Nat] /\ lost \in [Messages -> Nat]
        /\ accepted[m] = lost[m] + (IF run[r].stage = "accepted" THEN 1 ELSE 0)
    BY <1>1, <1>2, SendingKnows
  <1>5. lost' = IF run[r].stage = "accepted" THEN [lost EXCEPT ![m] = lost[m] + 1] ELSE lost
    BY <1>2 DEF Throws
  <1> DEFINE next == [run[r] EXCEPT !.stage = s, !.verdict = "FAILED"]
  <1>6. /\ next \in RunStates /\ next.stage = s
        /\ next.msg = run[r].msg /\ next.batch = run[r].batch
    BY <1>1 DEF RunStates, RunStages
  <1>7. Becomes(r, next)
    BY <1>3 DEF Stop
  <1> HIDE DEF next
  <1>8. /\ accepted' \in [Messages -> Nat] /\ lost' \in [Messages -> Nat]
        /\ accepted'[m] = lost'[m]
        /\ \A k \in Messages \ {m} : accepted'[k] = accepted[k] /\ lost'[k] = lost[k]
    BY <1>1, <1>4, <1>5
  <1>9. accepted'[m] = lost'[m] + (IF next.stage = "accepted" THEN 1 ELSE 0)
    BY <1>6, <1>8
  <1>10. \A k \in Messages \ {m} : net'[k] = net[k] /\ (Free(k) => Free(k)')
    BY <1>1 DEF Free
  <1>11. next.stage \in Sending /\ next.stage \notin {"charged", "counted", "accepted"}
    BY <1>6 DEF Sending
  <1>12. QED
    BY <1>1, <1>2, <1>6, <1>7, <1>8, <1>9, <1>10, <1>11, ChargeSame

LEMMA ChargeRefundCharge ==
    ASSUME PurseInv, ChargeInv, NEW r \in Runs, RefundCharge(r)
    PROVE  ChargeInv'
  <1>1. /\ run[r].stage = "failing" /\ run[r].stage \in Sending /\ run[r] \in RunStates
        /\ UNCHANGED <<status, linked, hook, raced, metaVars>>
    BY DEF RefundCharge, PurseInv, WhatsAppTypeOK, Sending
  <1>2. PICK m \in Messages : m = run[r].msg
    BY <1>1, SendingKnows
  <1>3. \A k \in Messages \ {m} : net'[k] = net[k] /\ (Free(k) => Free(k)')
    BY <1>2, RefundClears DEF RefundCharge, PurseInv
  <1> DEFINE next == [run[r] EXCEPT !.stage = "stopped"]
  <1>4. /\ next \in RunStates /\ next.stage = "stopped"
        /\ next.msg = run[r].msg /\ next.batch = run[r].batch
    BY <1>1 DEF RunStates, RunStages
  <1>5. Becomes(r, next)
    BY DEF RefundCharge, Step
  <1> HIDE DEF next
  <1>6. /\ accepted' \in [Messages -> Nat] /\ lost' \in [Messages -> Nat]
        /\ accepted'[m] = lost'[m] + (IF next.stage = "accepted" THEN 1 ELSE 0)
        /\ \A k \in Messages \ {m} : accepted'[k] = accepted[k] /\ lost'[k] = lost[k]
    BY <1>1, <1>2, <1>4, SendingKnows DEF metaVars
  <1>7. QED
    BY <1>1, <1>2, <1>3, <1>4, <1>5, <1>6, ChargeSame DEF Sending

-----------------------------------------------------------------------------
(* Steps that end a run's work on a message.                               *)

(* A run is done with its message or dies.  What it leaves is not known to *)
(* be accepted without being linked or lost; and it is free, sent, or will *)
(* be found SENDING.                                                       *)
LEMMA ChargeOnward ==
    ASSUME PurseInv, ChargeInv, NEW r \in Runs, NEW B \in SUBSET run[r].batch,
           NextInBatch(r, B), UNCHANGED <<hook, accepted, net, raced>>,
           lost' \in [Messages -> Nat],
           \A k \in Messages : ~ Sends(r, k) => status'[k] = status[k] /\ lost'[k] = lost[k],
           \A k \in Messages : Sends(r, k) =>
               /\ accepted[k] \in {lost'[k], lost'[k] + 1}
               /\ Waiting(k)' => accepted[k] = lost'[k]
               /\ Delivered(k)' => k \in linked' /\ (net[k] > 0 \/ k \in raced)
               /\ status'[k] \in {"FAILED", "SKIPPED"} => Free(k)'
               /\ \A q \in Runs \ {r} : run[q].stage = "closing" /\ run[q].msg = k =>
                      Free(k)' \/ status'[k] # "SENDING",
           \A k \in linked' : k \in linked \/ (Sends(r, k) /\ Delivered(k)'),
           linked \subseteq linked',
           \A k \in Messages : Free(k) => Free(k)'
    PROVE  ChargeInv'
  <1> DEFINE next == IF B = {} THEN NoRun
                     ELSE [NoRun EXCEPT !.stage = "process", !.batch = B]
  <1>1. \A q \in Runs : run[q].batch \subseteq Messages
    BY DEF PurseInv, WhatsAppTypeOK, RunStates
  <1>2. /\ next \in RunStates /\ next.batch = B
        /\ next.stage \in {"process", "idle"}
    BY <1>1 DEF NoRun, RunStates, RunStages
  <1>3. Becomes(r, next)
    BY DEF NextInBatch
  <1> HIDE DEF next
  <1>4. /\ run'[r] = next
        /\ \A q \in Runs \ {r} : run'[q] = run[q]
        /\ \A q \in Runs \ {r}, k \in Messages :
               /\ Handles(q, k)' <=> Handles(q, k)
               /\ Sends(q, k)' <=> Sends(q, k)
               /\ Knows(q, k)' <=> Knows(q, k)
        /\ \A k \in Messages :
               /\ Handles(r, k)' <=> k \in next.batch \/ Sends(r, k)'
               /\ Sends(r, k)' <=> next.stage \in Sending /\ next.msg = k
               /\ Knows(r, k)' <=> next.stage = "accepted" /\ next.msg = k
    BY <1>2, <1>3, WhoHandles
  <1>5. \A q \in Runs, k \in Messages :
            /\ Handles(q, k)' => /\ Handles(q, k) /\ ~ Sends(r, k)
                                 /\ Knows(q, k)' <=> Knows(q, k)
            /\ Sends(q, k)' <=> q # r /\ Sends(q, k)
    BY <1>2, <1>4 DEF PurseInv, Sole, Handles, Sends, Sending, Knows
  <1>6. AcceptedOnce'
    <2>1. \A k \in Messages : /\ accepted[k] \in {lost'[k], lost'[k] + 1}
                              /\ Waiting(k)' => accepted[k] = lost'[k]
      BY DEF ChargeInv, AcceptedOnce, Waiting
    <2>2. \A q \in Runs, k \in Messages : Handles(q, k)' =>
              accepted[k] = lost'[k] + (IF Knows(q, k)' THEN 1 ELSE 0)
      BY <1>5 DEF ChargeInv, AcceptedOnce
    <2>3. QED
      BY <2>1, <2>2 DEF ChargeInv, AcceptedOnce
  <1>7. LinkedIsSent'
    <2>1. linked \subseteq Messages /\ linked' \subseteq Messages
      <3>1. linked \subseteq Messages
        BY DEF PurseInv, WhatsAppTypeOK
      <3>2. \A k : Sends(r, k) => k \in Messages
        BY DEF PurseInv, StagesOK, Sends
      <3>3. QED
        BY <3>1, <3>2
    <2>2. \A k \in linked : ~ Sends(r, k) /\ \A q \in Runs : ~ Handles(q, k)
      BY DEF ChargeInv, LinkedIsSent, Handles
    <2>3. \A k \in linked' : /\ (Delivered(k) \/ status[k] = "FAILED")'
                             /\ \A q \in Runs : ~ Handles(q, k)'
      <3>1. SUFFICES ASSUME NEW k \in linked'
                     PROVE  /\ (Delivered(k) \/ status[k] = "FAILED")'
                            /\ \A q \in Runs : ~ Handles(q, k)'
        OBVIOUS
      <3>2. CASE k \in linked
        BY <1>5, <2>1, <2>2, <3>2 DEF ChargeInv, LinkedIsSent, Delivered
      <3>3. CASE Sends(r, k) /\ Delivered(k)'
        BY <1>5, <2>1, <3>3
      <3>4. QED
        BY <3>2, <3>3
    <2>4. \A k \in Messages : Delivered(k)' => k \in linked'
      BY DEF ChargeInv, LinkedIsSent, Delivered
    <2>5. QED
      BY <2>3, <2>4 DEF ChargeInv, LinkedIsSent
  <1>8. ClosedIsFree'
    <2>1. \A c \in Hooks, k \in Messages : Refunds(c, k)' <=> Refunds(c, k)
      BY DEF Refunds
    <2>2. \A k \in Messages : status'[k] \in {"FAILED", "SKIPPED"} =>
           \/ Free(k)' \/ \E q \in Runs : Sends(q, k)'
           \/ \E c \in Hooks : Refunds(c, k)'
      <3>1. SUFFICES ASSUME NEW k \in Messages, status'[k] \in {"FAILED", "SKIPPED"},
                            ~ Sends(r, k)
                     PROVE  \/ Free(k)' \/ \E q \in Runs : Sends(q, k)'
                            \/ \E c \in Hooks : Refunds(c, k)'
        OBVIOUS
      <3>2. \A q \in Runs : Sends(q, k) => Sends(q, k)'
        BY <1>5, <3>1
      <3>3. QED
        BY <2>1, <3>1, <3>2 DEF ChargeInv, ClosedIsFree
    <2>3. \A q \in Runs : run'[q].stage = "closing" =>
              q # r /\ run'[q] = run[q] /\ run[q].msg \in Messages
      BY <1>2, <1>4 DEF PurseInv, StagesOK
    <2>4. \A q \in Runs \ {r}, k \in Messages : run[q].stage = "closing" /\ run[q].msg = k =>
           \/ Free(k)' \/ \E p \in Runs : Sends(p, k)'
           \/ status'[k] # "SENDING"
      <3>1. SUFFICES ASSUME NEW q \in Runs \ {r}, NEW k \in Messages,
                            run[q].stage = "closing", run[q].msg = k, ~ Sends(r, k)
                     PROVE  \/ Free(k)' \/ \E p \in Runs : Sends(p, k)'
                            \/ status'[k] # "SENDING"
        OBVIOUS
      <3>2. \A p \in Runs : Sends(p, k) => Sends(p, k)'
        BY <1>5, <3>1
      <3>3. QED
        BY <3>1, <3>2 DEF ChargeInv, ClosedIsFree
    <2>5. ASSUME NEW q \in Runs, run'[q].stage = "closing"
          PROVE  \/ Free(run[q].msg)' \/ (\E p \in Runs : Sends(p, run[q].msg))'
                 \/ (status[run[q].msg] # "SENDING")'
      <3>1. PICK k \in Messages : k = run[q].msg /\ run'[q].msg = k /\ run[q].stage = "closing"
                                  /\ q # r
        BY <2>3, <2>5
      <3>2. \/ Free(k)' \/ \E p \in Runs : Sends(p, k)' \/ status'[k] # "SENDING"
        BY <2>4, <3>1
      <3>3. QED
        BY <3>1, <3>2 DEF Free, Sends
    <2>6. QED
      BY <2>2, <2>5 DEF ClosedIsFree
  <1>9. SentIsCharged'
    <2>1. \A q \in Runs, k \in Messages : Sends(q, k)' => Sends(q, k) /\ run'[q] = run[q]
      BY <1>4, <1>5
    <2>2. \A k \in Messages : Delivered(k)' => net[k] > 0 \/ k \in raced
      BY DEF ChargeInv, SentIsCharged, Delivered
    <2>3. \A c \in Hooks, k \in Messages : Refunds(c, k) => ~ Sends(r, k)
      BY DEF ChargeInv, LinkedIsSent, Refunds, Handles
    <2>4. \A c \in Hooks, k \in Messages : Refunds(c, k)' => status'[k] = "FAILED" \/ k \in raced
      BY <2>3 DEF ChargeInv, SentIsCharged, Refunds
    <2>5. QED
      BY <2>1, <2>2, <2>4 DEF ChargeInv, SentIsCharged
  <1>10. QED
    BY <1>6, <1>7, <1>8, <1>9 DEF ChargeInv

LEMMA ChargeMarkSent ==
    ASSUME PurseInv, ChargeInv, NEW r \in Runs, MarkSent(r)
    PROVE  ChargeInv'
  <1>1. /\ run[r].stage = "accepted" /\ run[r].stage \in Sending
        /\ NextInBatch(r, run[r].batch) /\ run[r].batch \in SUBSET run[r].batch
        /\ UNCHANGED <<hook, accepted, lost, net, missed, raced>>
    BY DEF MarkSent, moneyVars, metaVars, Sending
  <1>2. PICK m \in Messages : m = run[r].msg
    BY <1>1, SendingKnows
  <1>3. /\ status' = [status EXCEPT ![m] = "SENT"] /\ linked' = linked \cup {m}
    BY <1>2 DEF MarkSent
  <1>4. /\ status'[m] = "SENT" /\ \A k \in Messages \ {m} : status'[k] = status[k]
        /\ \A k \in Messages : Sends(r, k) <=> k = m
    BY <1>1, <1>2, <1>3 DEF PurseInv, WhatsAppTypeOK, Sends
  <1>5. /\ accepted[m] \in {lost[m], lost[m] + 1} /\ lost \in [Messages -> Nat]
        /\ net[m] > 0 \/ m \in raced
    BY <1>1, <1>2, SendingKnows
  <1>6. ~ Waiting(m)' /\ Delivered(m)'
    BY <1>4 DEF Waiting, Delivered
  <1>7. \A k \in Messages : Free(k) => Free(k)'
    BY <1>1 DEF Free
  <1>8. lost' \in [Messages -> Nat] /\ lost' = lost
    BY <1>1, <1>5
  <1>9. \A k \in Messages : Sends(r, k) =>
               /\ accepted[k] \in {lost'[k], lost'[k] + 1}
               /\ Waiting(k)' => accepted[k] = lost'[k]
               /\ Delivered(k)' => k \in linked' /\ (net[k] > 0 \/ k \in raced)
               /\ status'[k] \in {"FAILED", "SKIPPED"} => Free(k)'
               /\ \A q \in Runs \ {r} : run[q].stage = "closing" /\ run[q].msg = k =>
                      Free(k)' \/ status'[k] # "SENDING"
    BY <1>3, <1>4, <1>5, <1>6, <1>8
  <1>10. \A k \in linked' : k \in linked \/ (Sends(r, k) /\ Delivered(k)')
    BY <1>2, <1>3, <1>4, <1>6
  <1>11. QED
    BY <1>1, <1>3, <1>4, <1>7, <1>8, <1>9, <1>10, ChargeOnward

LEMMA ChargeHandleFailure ==
    ASSUME PurseInv, ChargeInv, NEW r \in Runs, handleFailure(r)
    PROVE  ChargeInv'
  <1>1. /\ run[r].stage = "stopped" /\ run[r].stage \in Sending
        /\ run[r].stage \in Uncharged /\ run[r].stage # "accepted"
        /\ NextInBatch(r, run[r].batch) /\ run[r].batch \in SUBSET run[r].batch
        /\ UNCHANGED <<hook, linked, accepted, lost, net, missed, raced>>
    BY DEF handleFailure, moneyVars, metaVars, Sending, Uncharged
  <1>2. PICK m \in Messages : m = run[r].msg
    BY <1>1, SendingKnows
  <1>3. /\ accepted[m] = lost[m] /\ lost \in [Messages -> Nat] /\ Free(m)
        /\ run[r].verdict \in {"SCHEDULED", "SKIPPED", "FAILED"}
    BY <1>1, <1>2, SendingKnows DEF RunStates
  <1>4. /\ \A k \in Messages \ {m} : status'[k] = status[k]
        /\ status'[m] = status[m] \/ status'[m] = run[r].verdict
        /\ \A k \in Messages : Sends(r, k) <=> k = m
    BY <1>1, <1>2 DEF handleFailure, Finish, PurseInv, WhatsAppTypeOK, Sends
  <1>5. ~ Delivered(m) /\ ~ Delivered(m)'
    <2>1. Handles(r, m)
      BY <1>4 DEF Handles
    <2>2. ~ Delivered(m)
      BY <2>1 DEF ChargeInv, LinkedIsSent
    <2>3. QED
      BY <1>3, <1>4, <2>2 DEF Delivered
  <1>6. \A k \in Messages : Free(k) => Free(k)'
    BY <1>1 DEF Free
  <1>7. \A k \in Messages : Sends(r, k) =>
               /\ accepted[k] \in {lost'[k], lost'[k] + 1}
               /\ Waiting(k)' => accepted[k] = lost'[k]
               /\ Delivered(k)' => k \in linked' /\ (net[k] > 0 \/ k \in raced)
               /\ status'[k] \in {"FAILED", "SKIPPED"} => Free(k)'
               /\ \A q \in Runs \ {r} : run[q].stage = "closing" /\ run[q].msg = k =>
                      Free(k)' \/ status'[k] # "SENDING"
    BY <1>1, <1>3, <1>4, <1>5, <1>6
  <1>8. QED
    BY <1>1, <1>3, <1>4, <1>6, <1>7, ChargeOnward

(* The run dies: its charge is returned by the recovery of the row, or     *)
(* will not be.                                                            *)
LEMMA ChargeCrash ==
    ASSUME PurseInv, ChargeInv, NEW r \in Runs, Crash(r)
    PROVE  ChargeInv'
  <1>1. /\ NextInBatch(r, {}) /\ {} \in SUBSET run[r].batch
        /\ UNCHANGED <<hook, status, linked, accepted, net, raced>>
        /\ lost \in [Messages -> Nat]
    BY DEF Crash, NextInBatch, ChargeInv, AcceptedOnce
  <1>2. \A k \in Messages : Free(k) => Free(k)'
    BY <1>1 DEF Crash, Free
  <1>3. /\ lost' \in [Messages -> Nat]
        /\ \A k \in Messages : ~ Sends(r, k) => lost'[k] = lost[k]
    <2>1. CASE run[r].stage = "accepted"
      <3>1. run[r].msg \in Messages
        BY <2>1 DEF PurseInv, StagesOK, Sending
      <3>2. lost' = [lost EXCEPT ![run[r].msg] = lost[run[r].msg] + 1]
        BY <2>1 DEF Crash
      <3>3. lost[run[r].msg] + 1 \in Nat
        BY <1>1, <3>1
      <3>4. lost' \in [Messages -> Nat]
        BY <1>1, <3>1, <3>2, <3>3
      <3>5. ASSUME NEW k \in Messages, ~ Sends(r, k) PROVE lost'[k] = lost[k]
        BY <1>1, <2>1, <3>2, <3>5 DEF Sends, Sending
      <3>6. QED
        BY <3>4, <3>5
    <2>2. CASE run[r].stage # "accepted"
      <3>1. lost' = lost
        BY <2>2 DEF Crash
      <3>2. QED
        BY <1>1, <3>1
    <2>3. QED
      BY <2>1, <2>2
  <1>4. ASSUME NEW k \in Messages, Sends(r, k)
        PROVE  /\ accepted[k] \in {lost'[k], lost'[k] + 1}
               /\ Waiting(k)' => accepted[k] = lost'[k]
               /\ ~ Delivered(k)'
               /\ status'[k] \in {"FAILED", "SKIPPED"} => Free(k)'
               /\ \A q \in Runs \ {r} : run[q].stage = "closing" /\ run[q].msg = k =>
                      Free(k)' \/ status'[k] # "SENDING"
    <2>1. k = run[r].msg /\ run[r].stage \in Sending /\ Handles(r, k)
      BY <1>4 DEF Sends, Handles
    <2>2. /\ accepted[k] = lost[k] + (IF run[r].stage = "accepted" THEN 1 ELSE 0)
          /\ ~ Waiting(k)
      BY <2>1, SendingKnows
    <2>3. accepted[k] = lost'[k]
      BY <1>1, <2>1, <2>2 DEF Crash
    <2>4. ~ Delivered(k)
      BY <2>1 DEF ChargeInv, LinkedIsSent
    <2>5. net[k] \in Nat
      BY DEF PurseInv, WhatsAppTypeOK
    <2>6. status[k] # "SENDING" \/ (\E q \in Runs \ {r} : run[q].msg = k) => Free(k)'
      BY <1>1, <2>1, <2>5 DEF Crash, Free, Sending
    <2>7. QED
      BY <1>1, <2>2, <2>3, <2>4, <2>6 DEF Waiting, Delivered
  <1>5. QED
    BY <1>1, <1>2, <1>3, <1>4, ChargeOnward

-----------------------------------------------------------------------------
LEMMA ChargeInvNext ==
    ASSUME PurseInv, ChargeInv, WhatsAppAssumption, [WhatsAppNext]_whatsAppVars
    PROVE  ChargeInv'
  <1>1. CASE UNCHANGED whatsAppVars
    BY <1>1, ChargeMoneySteps DEF whatsAppVars, metaVars
  <1>2. CASE \E m \in Messages : onShipmentStatus(m) \/ GrowOld(m)
    BY <1>2, ChargeQueueSteps
  <1>3. CASE \E r \in Runs : RunStep(r) \/ Crash(r)
    <2>1. PICK r \in Runs : RunStep(r) \/ Crash(r)
      BY <1>3
    <2>2. CASE \E m \in Messages : RecoverRefund(r, m) \/ ReadMessage(r, m)
      BY <2>2, ChargeRecoverRefund, ChargeReadMessage
    <2>3. CASE StartRun(r) \/ RecoverFinish(r) \/ claimDue(r)
      BY <2>3, ChargeStartRun, ChargeRecoverFinish, ChargeClaimDue
    <2>4. CASE preflight(r) \/ Debit(r)
      BY <2>4, ChargePreflight, ChargeDebit
    <2>5. CASE \/ CountAttempt(r) \/ SendTemplate(r) \/ Throws(r)
               \/ RefundCharge(r)
      BY <2>5, ChargeCountAttempt, ChargeSend, ChargeThrows, ChargeRefundCharge
    <2>6. CASE MarkSent(r) \/ handleFailure(r) \/ Crash(r)
      BY <2>6, ChargeMarkSent, ChargeHandleFailure, ChargeCrash
    <2>7. QED
      BY <2>1, <2>2, <2>3, <2>4, <2>5, <2>6 DEF RunStep
  <1>4. CASE \E c \in Hooks :
                \/ \E m \in Messages, next \in Reports : ReceiveStatus(c, m, next)
                \/ ApplyStatus(c) \/ RefundFailed(c)
    <2>1. PICK c \in Hooks :
                \/ \E m \in Messages, next \in Reports : ReceiveStatus(c, m, next)
                \/ ApplyStatus(c) \/ RefundFailed(c)
      BY <1>4
    <2>2. CASE \E m \in Messages, next \in Reports : ReceiveStatus(c, m, next)
      BY <2>2, ChargeReceive
    <2>3. CASE ApplyStatus(c) \/ RefundFailed(c)
      <3>1. hook[c].msg \in Messages
        BY <2>3 DEF ApplyStatus, RefundFailed, PurseInv, StagesOK
      <3>2. QED
        BY <2>3, <3>1, ChargeApply, ChargeRefundFailed
    <2>4. QED
      BY <2>1, <2>2, <2>3
  <1>5. CASE \/ \E a \in Credits : adminCredit(a)
             \/ \E p \in Prices : setPricing(p)
    BY <1>5, ChargeMoneySteps DEF adminCredit, setPricing
  <1>6. QED
    BY <1>1, <1>2, <1>3, <1>4, <1>5 DEF WhatsAppNext

LEMMA ChargeInvariant == WhatsAppSpec => [](PurseInv /\ ChargeInv)
  <1>1. WhatsAppInit => ChargeInv
    BY ChargeInitInv, WhatsAppAssumption
  <1>2. PurseInv /\ ChargeInv /\ [WhatsAppNext]_whatsAppVars => ChargeInv'
    BY ChargeInvNext, WhatsAppAssumption
  <1>3. QED
    BY <1>1, <1>2, PurseInvariant, PTL DEF WhatsAppSpec

(* Meta gets a message again only when the answer to an earlier attempt    *)
(* was lost, for any number of overlapping runs, crashes and retries: what *)
(* SendTemplate made Meta accept is recorded by MarkSent or counted lost.  *)
THEOREM WhatsAppSentOnce == WhatsAppSpec => []SentOnce
  <1>1. ChargeInv => SentOnce
    BY DEF ChargeInv, AcceptedOnce, SentOnce
  <1>2. QED
    BY <1>1, ChargeInvariant, PTL

(* Merchants pay for what was sent and for nothing else: what Debit took   *)
(* for a message that failed, was skipped or waits again is back when no   *)
(* call works on it, unless a refund was lost; what was sent is charged,   *)
(* unless two calls raced for the row.                                     *)
THEOREM WhatsAppChargedIffSent == WhatsAppSpec => []ChargedIffSent
  <1>1. ASSUME PurseInv, ChargeInv PROVE ChargedIffSent
    <2>1. ASSUME NEW m \in Messages, status[m] \in {"SCHEDULED", "FAILED", "SKIPPED"},
                 ~ Attended(m), m \notin missed
          PROVE  net[m] = 0
      <3>1. CASE status[m] = "SCHEDULED"
        BY <1>1, <2>1, <3>1 DEF PurseInv, FreeBeforeCharge, Waiting, Free
      <3>2. CASE status[m] \in {"FAILED", "SKIPPED"}
        BY <1>1, <2>1, <3>2 DEF ChargeInv, ClosedIsFree, Attended, Sends, Refunds, Free
      <3>3. QED
        BY <2>1, <3>1, <3>2
    <2>2. \A m \in Messages : status[m] \in {"SENT", "DELIVERED", "READ"} /\ m \notin raced
              => net[m] > 0
      BY <1>1 DEF ChargeInv, SentIsCharged, Delivered
    <2>3. QED
      BY <2>1, <2>2 DEF ChargedIffSent
  <1>2. QED
    BY <1>1, ChargeInvariant, PTL

-----------------------------------------------------------------------------
(***************************************************************************)
(* Alerts to the owner.                                                    *)
(***************************************************************************)

(* A delivery works on the alert of a notification.                        *)
AtWork == {"deliver", "check", "ready", "count", "send", "write"}
Works(d, n) == delivery[d].stage \in AtWork /\ delivery[d].notice = n

Notification == [type : STRING, active : BOOLEAN]
AlertStates == [status : AlertStatus, attempts : Nat, old : BOOLEAN]
EvaluationStates ==
    [stage : {"idle", "stock", "active", "cancel", "list", "create"},
     saw : Levels, type : 1 .. Len(Types), had : BOOLEAN,
     unresolved : SUBSET Notices]
DeliveryStates ==
    [stage : AtWork \cup {"idle", "claim"}, notice : Notices \cup {0},
     tries : Nat, verdict : AlertStatus, met : SUBSET Notices]

AlertsTypeOK ==
    /\ notices \in Seq(Notification)
    /\ Len(notices) <= MaxNotices
    /\ alert \in [Notices -> AlertStates]
    /\ heard \in [Notices -> Nat]
    /\ evaluation \in [Evaluations -> EvaluationStates]
    /\ level \in Levels
    /\ delivery \in [Deliveries -> DeliveryStates]
    /\ \A d \in Deliveries : delivery[d].stage \in AtWork =>
           delivery[d].notice \in Notices

(* What Meta has of an alert that is shown like this.                      *)
ShownTrue(n) ==
    /\ heard[n] <= 1
    /\ alert[n].status \in Unsent \cup {"none", "CANCELLED"} => heard[n] = 0
    /\ alert[n].status = "SENT" => heard[n] = 1

(* An alert is sent by the delivery that claimed it, which nobody takes it *)
(* from: a row that is taken for dead is UNKNOWN and never claimed again.  *)
ClaimedOnce ==
    /\ \A d \in Deliveries, n \in Notices :
           Works(d, n) => alert[n].status \in {"SENDING", "UNKNOWN"}
    /\ \A c, d \in Deliveries, n \in Notices : Works(c, n) /\ Works(d, n) => c = d

(* What a delivery knows of how often Meta has the alert it works on.      *)
VerdictKnown(work, times) ==
    IF work.stage = "write"
    THEN /\ work.verdict \in {"SENT", "UNKNOWN"} \cup Unsent \cup {"CANCELLED"}
         /\ work.verdict = "SENT" => times = 1
         /\ work.verdict \notin {"SENT", "UNKNOWN"} => times = 0
    ELSE times = 0

AlertsInv ==
    /\ AlertsTypeOK /\ ClaimedOnce
    /\ \A n \in Notices : ShownTrue(n)
    /\ \A d \in Deliveries, n \in Notices : Works(d, n) => VerdictKnown(delivery[d], heard[n])

LEMMA AlertsInitInv == ASSUME AlertsAssumption, AlertsInit PROVE AlertsInv
  <1>1. AlertsTypeOK
    BY DEF AlertsAssumption, AlertsInit, AlertsTypeOK, EvaluationStates,
           AlertStates, Notification, DeliveryStates, NoAlert, NoEvaluation,
           NoDelivery, AlertStatus, AtWork, Levels, Notices
  <1>2. QED
    BY <1>1 DEF AlertsInit, AlertsInv, ClaimedOnce, Works, NoDelivery, NoAlert,
           ShownTrue, Notices, AtWork

-----------------------------------------------------------------------------
(* An alert that is not at work changes with an evaluation: cancelled when *)
(* it was unsent, created when there was none.                             *)
LEMMA AlertsApart ==
    ASSUME AlertsInv, UNCHANGED <<delivery, heard>>,
           \A n \in Notices :
               \/ alert'[n].status = alert[n].status
               \/ alert[n].status \in Unsent /\ alert'[n].status = "CANCELLED"
               \/ alert[n].status = "none" /\ alert'[n].status = "PENDING"
               \/ alert[n].status = "SENDING" /\ alert'[n].status = "UNKNOWN"
    PROVE  /\ ClaimedOnce'
           /\ \A n \in Notices : ShownTrue(n)'
           /\ \A d \in Deliveries, n \in Notices : Works(d, n)' => VerdictKnown(delivery[d], heard[n])'
  <1>1. ClaimedOnce'
    BY DEF AlertsInv, ClaimedOnce, Works, Unsent
  <1>2. ASSUME NEW n \in Notices PROVE ShownTrue(n)'
    BY DEF AlertsInv, ShownTrue, Unsent
  <1>3. ASSUME NEW d \in Deliveries, NEW n \in Notices, Works(d, n)'
        PROVE  VerdictKnown(delivery[d], heard[n])'
    BY <1>3 DEF AlertsInv, Works, VerdictKnown
  <1>4. QED
    BY <1>1, <1>2, <1>3

LEMMA AlertsEvaluation ==
    ASSUME AlertsInv, AlertsAssumption, NEW e \in Evaluations,
           EvaluationStep(e) \/ EvaluationFails(e)
    PROVE  AlertsInv'
  <1>1. UNCHANGED <<delivery, heard>>
    BY DEF EvaluationStep, EvaluationFails, packagingStockAlerts, ReadActive,
           reconcile, CancelResolved, ListUnresolved, CreateAlerts
  <1>2. AlertsTypeOK'
    <2>1. /\ Raised \in SUBSET Notices
          /\ Notices \subseteq Nat
          /\ Levels = {"OK"} \cup Range(Types)
      BY DEF AlertsInv, AlertsTypeOK, Raised, Notices, AlertsAssumption, Levels
    <2>2. /\ notices' \in Seq(Notification)
          /\ Len(notices') <= MaxNotices
      <3>1. CASE reconcile(e)
        <4>1. TypeOf(e) \in STRING
          <5>1. evaluation[e].type \in 1 .. Len(Types)
            BY DEF AlertsInv, AlertsTypeOK, EvaluationStates
          <5>2. QED
            BY <5>1 DEF AlertsAssumption, TypeOf
        <4>2. CASE notices' = notices
          BY <4>2 DEF AlertsInv, AlertsTypeOK
        <4>3. CASE /\ Len(notices) < MaxNotices
                   /\ notices' = Append(notices, [type |-> TypeOf(e), active |-> TRUE])
          <5>1. [type |-> TypeOf(e), active |-> TRUE] \in Notification
            BY <4>1 DEF Notification
          <5>2. QED
            BY <4>3, <5>1 DEF AlertsInv, AlertsTypeOK, AlertsAssumption
        <4>4. CASE resolve(TypeOf(e))
          <5>1. /\ DOMAIN notices = 1 .. Len(notices) /\ Len(notices) \in Nat
                /\ \A n \in 1 .. Len(notices) :
                       notices[n] \in Notification
            BY DEF AlertsInv, AlertsTypeOK
          <5>2. notices' = [n \in 1 .. Len(notices) |->
                    IF n \in Active(TypeOf(e))
                    THEN [notices[n] EXCEPT !.active = FALSE] ELSE notices[n]]
            BY <4>4, <5>1 DEF resolve, Raised
          <5>3. notices' \in [1 .. Len(notices) -> Notification]
            BY <5>1, <5>2 DEF Notification
          <5>4. notices' \in Seq(Notification)
            BY <5>1, <5>3, SeqDef
          <5>5. Len(notices') = Len(notices)
            BY <5>1, <5>3, <5>4, LenProperties
          <5>6. QED
            BY <5>4, <5>5 DEF AlertsInv, AlertsTypeOK
        <4>5. QED
          BY <3>1, <4>2, <4>3, <4>4 DEF reconcile, raise
      <3>2. CASE ~ reconcile(e)
        BY <3>2 DEF AlertsInv, AlertsTypeOK, EvaluationStep, EvaluationFails,
           packagingStockAlerts, ReadActive, CancelResolved, ListUnresolved,
           CreateAlerts
      <3>3. QED
        BY <3>1, <3>2
    <2>3. alert' \in [Notices -> AlertStates]
      <3>1. CASE CancelResolved(e) \/ CreateAlerts(e)
        <4>1. \A n \in Notices, to \in AlertStatus :
                  [alert[n] EXCEPT !.status = to] \in AlertStates
          BY DEF AlertsInv, AlertsTypeOK, AlertStates
        <4>2. \A n \in Notices : alert[n] \in AlertStates
          BY DEF AlertsInv, AlertsTypeOK
        <4>3. {"CANCELLED", "PENDING"} \subseteq AlertStatus
          BY DEF AlertStatus
        <4>4. QED
          BY <3>1, <4>1, <4>2, <4>3 DEF CancelResolved, CreateAlerts
      <3>2. CASE ~ (CancelResolved(e) \/ CreateAlerts(e))
        BY <3>2 DEF AlertsInv, AlertsTypeOK, EvaluationStep, EvaluationFails,
           packagingStockAlerts, ReadActive, ListUnresolved, reconcile
      <3>3. QED
        BY <3>1, <3>2
    <2>4. evaluation' \in [Evaluations -> EvaluationStates]
      <3>1. evaluation[e] \in EvaluationStates /\ evaluation \in [Evaluations -> EvaluationStates]
        BY DEF AlertsInv, AlertsTypeOK
      <3>2. NoEvaluation \in EvaluationStates
        BY DEF EvaluationStates, NoEvaluation, Levels, AlertsAssumption
      <3>3. CASE packagingStockAlerts(e)
        <4>1. level \in Levels
          BY DEF AlertsInv, AlertsTypeOK
        <4>2. [NoEvaluation EXCEPT !.stage = "stock", !.saw = level] \in EvaluationStates
          BY <3>2, <4>1 DEF EvaluationStates
        <4>3. QED
          BY <3>1, <3>3, <4>2 DEF packagingStockAlerts, Evaluating
      <3>4. CASE ReadActive(e)
        <4> DEFINE had == Active(TypeOf(e)) # {}
        <4>1. had \in BOOLEAN
          OBVIOUS
        <4>2. evaluation' = [evaluation EXCEPT ![e] =
                  [evaluation[e] EXCEPT !.stage = "active", !.had = had]]
          BY <3>4 DEF ReadActive, Evaluating
        <4> HIDE DEF had
        <4>3. [evaluation[e] EXCEPT !.stage = "active", !.had = had] \in EvaluationStates
          BY <3>1, <4>1 DEF EvaluationStates
        <4>4. QED
          BY <3>1, <4>2, <4>3
      <3>9. CASE CancelResolved(e)
        BY <3>1, <3>9 DEF CancelResolved, Evaluating, EvaluationStates
      <3>5. CASE reconcile(e)
        <4>1. Len(Types) \in Nat
          BY DEF AlertsAssumption
        <4>2. CASE evaluation[e].type = Len(Types)
          BY <3>1, <3>5, <4>2 DEF reconcile, Evaluating, EvaluationStates
        <4>3. CASE evaluation[e].type # Len(Types)
          <5>1. evaluation' = [evaluation EXCEPT ![e] =
                    [evaluation[e] EXCEPT !.stage = "stock",
                                          !.type = evaluation[e].type + 1]]
            BY <3>5, <4>3 DEF reconcile, Evaluating
          <5>2. evaluation[e].type + 1 \in 1 .. Len(Types)
            BY <3>1, <4>1, <4>3 DEF EvaluationStates
          <5>3. [evaluation[e] EXCEPT !.stage = "stock",
                        !.type = evaluation[e].type + 1] \in EvaluationStates
            BY <3>1, <5>2 DEF EvaluationStates
          <5>4. QED
            BY <3>1, <5>1, <5>3
        <4>4. QED
          BY <4>2, <4>3
      <3>6. CASE ListUnresolved(e)
        BY <2>1, <3>1, <3>6 DEF ListUnresolved, Evaluating, EvaluationStates
      <3>7. CASE CreateAlerts(e) \/ EvaluationFails(e)
        BY <3>1, <3>2, <3>7 DEF CreateAlerts, EvaluationFails, Evaluating
      <3>8. QED
        BY <3>3, <3>4, <3>5, <3>6, <3>7, <3>9 DEF EvaluationStep
    <2>5. level' = level
      BY DEF EvaluationStep, EvaluationFails, packagingStockAlerts, ReadActive,
           reconcile, CancelResolved, ListUnresolved, CreateAlerts, stockVars
    <2>6. QED
      BY <1>1, <2>2, <2>3, <2>4, <2>5 DEF AlertsInv, AlertsTypeOK
  <1>3. \A n \in Notices :
               \/ alert'[n].status = alert[n].status
               \/ alert[n].status \in Unsent /\ alert'[n].status = "CANCELLED"
               \/ alert[n].status = "none" /\ alert'[n].status = "PENDING"
    <2>1. CASE CancelResolved(e)
      BY <2>1 DEF CancelResolved, AlertsInv, AlertsTypeOK, AlertStates
    <2>2. CASE CreateAlerts(e)
      BY <2>2 DEF CreateAlerts, AlertsInv, AlertsTypeOK, AlertStates
    <2>3. CASE ~ (CancelResolved(e) \/ CreateAlerts(e))
      BY <2>3 DEF EvaluationStep, EvaluationFails, packagingStockAlerts,
           ReadActive, reconcile, ListUnresolved
    <2>4. QED
      BY <2>1, <2>2, <2>3
  <1>4. QED
    BY <1>1, <1>2, <1>3, AlertsApart DEF AlertsInv

-----------------------------------------------------------------------------
(* What leaves the alerts, the deliveries and Meta alone.                  *)
LEMMA AlertsStock ==
    ASSUME AlertsInv, NEW to \in Levels, StockMoves(to)
    PROVE  AlertsInv'
  <1>1. AlertsTypeOK'
    BY DEF StockMoves, AlertsInv, AlertsTypeOK
  <1>2. UNCHANGED <<alert, delivery, heard>>
    BY DEF StockMoves
  <1>3. QED
    BY <1>1, <1>2, AlertsApart DEF AlertsInv

LEMMA AlertsGrowOld ==
    ASSUME AlertsInv, NEW n \in Notices, AlertGrowsOld(n)
    PROVE  AlertsInv'
  <1>1. alert \in [Notices -> AlertStates]
    BY DEF AlertsInv, AlertsTypeOK
  <1>2. alert' = [alert EXCEPT ![n] = [alert[n] EXCEPT !.old = TRUE]]
    BY <1>1 DEF AlertGrowsOld
  <1>3. [alert[n] EXCEPT !.old = TRUE] \in AlertStates
    BY <1>1 DEF AlertStates
  <1>4. alert' \in [Notices -> AlertStates]
    BY <1>1, <1>2, <1>3
  <1>5. AlertsTypeOK'
    BY <1>4 DEF AlertGrowsOld, AlertsInv, AlertsTypeOK, stockVars
  <1>6. \A k \in Notices : alert'[k].status = alert[k].status
    BY <1>1, <1>2 DEF AlertStates
  <1>7. UNCHANGED <<delivery, heard>>
    BY DEF AlertGrowsOld
  <1>8. QED
    BY <1>5, <1>6, <1>7, AlertsApart DEF AlertsInv

-----------------------------------------------------------------------------
(* One delivery goes on: it starts, keeps or leaves its alert, and what it *)
(* knows of it stays true.                                                 *)
LEMMA AlertsOnward ==
    ASSUME AlertsInv, NEW d \in Deliveries, NEW now \in DeliveryStates,
           now.stage \in AtWork => now.notice \in Notices,
           delivery' = [delivery EXCEPT ![d] = now],
           UNCHANGED <<level, notices, evaluation>>,
           alert' \in [Notices -> AlertStates], heard' \in [Notices -> Nat],
           \A n \in Notices : ShownTrue(n)',
           (* Only the row it works on changes. *)
           \A n \in Notices :
               ~ Works(d, n) /\ ~ (now.stage \in AtWork /\ now.notice = n) =>
                   heard'[n] = heard[n] /\ alert'[n].status = alert[n].status,
           now.stage \in AtWork =>
               /\ alert'[now.notice].status \in {"SENDING", "UNKNOWN"}
               /\ VerdictKnown(now, heard'[now.notice])
               /\ \/ Works(d, now.notice)
                  \/ \A c \in Deliveries : ~ Works(c, now.notice)
    PROVE  AlertsInv'
  <1>1. delivery \in [Deliveries -> DeliveryStates] /\ delivery'[d] = now
    BY DEF AlertsInv, AlertsTypeOK
  <1>2. AlertsTypeOK'
    BY <1>1 DEF AlertsInv, AlertsTypeOK
  <1>3. ASSUME NEW c \in Deliveries, c # d, NEW n \in Notices, Works(c, n)'
        PROVE  /\ Works(c, n) /\ delivery'[c] = delivery[c]
               /\ ~ (now.stage \in AtWork /\ now.notice = n)
               /\ heard'[n] = heard[n] /\ alert'[n].status = alert[n].status
    <2>1. Works(c, n) /\ delivery'[c] = delivery[c]
      BY <1>1, <1>3 DEF Works
    <2>2. ~ Works(d, n)
      BY <1>3, <2>1 DEF AlertsInv, ClaimedOnce
    <2>3. QED
      BY <2>1, <2>2
  <1>4. ASSUME NEW n \in Notices, Works(d, n)'
        PROVE  now.stage \in AtWork /\ now.notice = n
    BY <1>1, <1>4 DEF Works
  <1>5. ClaimedOnce'
    <2>1. ASSUME NEW c \in Deliveries, NEW n \in Notices, Works(c, n)'
          PROVE  alert'[n].status \in {"SENDING", "UNKNOWN"}
      <3>1. CASE c = d
        BY <1>4, <2>1, <3>1
      <3>2. CASE c # d
        BY <1>3, <2>1, <3>2 DEF AlertsInv, ClaimedOnce
      <3>3. QED
        BY <3>1, <3>2
    <2>2. ASSUME NEW b \in Deliveries, NEW c \in Deliveries, NEW n \in Notices,
                 Works(b, n)', Works(c, n)'
          PROVE  b = c
      BY <1>3, <1>4, <2>2 DEF AlertsInv, ClaimedOnce
    <2>3. QED
      BY <2>1, <2>2 DEF ClaimedOnce
  <1>6. ASSUME NEW c \in Deliveries, NEW n \in Notices, Works(c, n)'
        PROVE  VerdictKnown(delivery[c], heard[n])'
    <2>1. CASE c = d
      BY <1>1, <1>4, <1>6, <2>1
    <2>2. CASE c # d
      BY <1>3, <1>6, <2>2 DEF AlertsInv
    <2>3. QED
      BY <2>1, <2>2
  <1>7. QED
    BY <1>2, <1>5, <1>6 DEF AlertsInv

(* ... while the alerts and Meta stay as they are.                         *)
LEMMA AlertsQuietly ==
    ASSUME AlertsInv, NEW d \in Deliveries, NEW now \in DeliveryStates,
           delivery' = [delivery EXCEPT ![d] = now],
           UNCHANGED <<level, notices, evaluation, alert, heard>>,
           now.stage \in AtWork =>
               /\ delivery[d].stage \in AtWork /\ now.notice = delivery[d].notice
               /\ VerdictKnown(now, heard[now.notice])
    PROVE  AlertsInv'
  <1>1. now.stage \in AtWork => now.notice \in Notices /\ Works(d, now.notice)
    BY DEF AlertsInv, AlertsTypeOK, Works
  <1>2. \A n \in Notices : ShownTrue(n)'
    BY DEF AlertsInv, ShownTrue
  <1>3. now.stage \in AtWork => alert[now.notice].status \in {"SENDING", "UNKNOWN"}
    BY <1>1 DEF AlertsInv, ClaimedOnce
  <1>4. alert' \in [Notices -> AlertStates] /\ heard' \in [Notices -> Nat]
    BY DEF AlertsInv, AlertsTypeOK
  <1>5. QED
    BY <1>1, <1>2, <1>3, <1>4, AlertsOnward

(* The delivery's own facts, at work.                                      *)
LEMMA AlertsAtWork ==
    ASSUME AlertsInv, NEW d \in Deliveries
    PROVE  /\ delivery[d] \in DeliveryStates
           /\ NoDelivery \in DeliveryStates
           /\ NextClaim(d) \in DeliveryStates
           /\ NoDelivery.stage \notin AtWork /\ NextClaim(d).stage \notin AtWork
           /\ delivery[d].stage \in AtWork =>
                  /\ delivery[d].notice \in Notices
                  /\ Works(d, delivery[d].notice)
                  /\ VerdictKnown(delivery[d], heard[delivery[d].notice])
                  /\ alert[delivery[d].notice].status \in {"SENDING", "UNKNOWN"}
  <1>1. delivery[d] \in DeliveryStates
    BY DEF AlertsInv, AlertsTypeOK
  <1>2. NoDelivery \in DeliveryStates /\ NoDelivery.stage \notin AtWork
    BY DEF NoDelivery, DeliveryStates, AtWork, AlertStatus
  <1>3. NextClaim(d) \in DeliveryStates /\ NextClaim(d).stage \notin AtWork
    BY <1>1, <1>2 DEF NextClaim, DeliveryStates, AtWork
  <1>4. ASSUME delivery[d].stage \in AtWork
        PROVE  /\ delivery[d].notice \in Notices
               /\ Works(d, delivery[d].notice)
               /\ VerdictKnown(delivery[d], heard[delivery[d].notice])
               /\ alert[delivery[d].notice].status \in {"SENDING", "UNKNOWN"}
    BY <1>4 DEF AlertsInv, AlertsTypeOK, Works, ClaimedOnce
  <1>5. QED
    BY <1>1, <1>2, <1>3, <1>4

(* Reading and checking: nothing has been sent yet, and the call goes on   *)
(* or is to write that the alert is blocked or called off.                 *)
LEMMA AlertsChecks ==
    ASSUME AlertsInv, NEW d \in Deliveries,
           ReadAlert(d) \/ CheckMaterial(d) \/ Recheck(d)
    PROVE  AlertsInv'
  <1> DEFINE n == delivery[d].notice
  <1>1. /\ delivery[d] \in DeliveryStates /\ delivery[d].stage \in AtWork
        /\ n \in Notices /\ heard[n] = 0
    BY AlertsAtWork DEF ReadAlert, CheckMaterial, Recheck, AtWork, VerdictKnown
  <1>2. UNCHANGED <<level, notices, evaluation, alert, heard>>
    BY DEF ReadAlert, CheckMaterial, Recheck, stockVars
  <1>3. ASSUME NEW now \in DeliveryStates, VerdictKnown(now, 0),
               now.stage \in AtWork, now.notice = n,
               delivery' = [delivery EXCEPT ![d] = now]
        PROVE  AlertsInv'
    BY <1>1, <1>2, <1>3, AlertsQuietly
  <1>4. ASSUME NEW verdict \in {"CANCELLED", "BLOCKED"}, Ends(d, verdict)
        PROVE  AlertsInv'
    <2> DEFINE now == [delivery[d] EXCEPT !.stage = "write", !.verdict = verdict]
    <2>1. /\ now \in DeliveryStates /\ now.stage = "write" /\ now.notice = n
          /\ now.verdict = verdict
      BY <1>1 DEF DeliveryStates, AtWork, AlertStatus
    <2>2. delivery' = [delivery EXCEPT ![d] = now]
      BY <1>4 DEF Ends, Delivering
    <2> HIDE DEF now
    <2>3. VerdictKnown(now, 0) /\ now.stage \in AtWork
      BY <2>1 DEF VerdictKnown, AtWork, Unsent
    <2>4. QED
      BY <1>3, <2>1, <2>2, <2>3
  <1>5. ASSUME NEW stage \in {"ready", "count"}, Goes(d, stage)
        PROVE  AlertsInv'
    <2> DEFINE now == [delivery[d] EXCEPT !.stage = stage]
    <2>1. /\ now \in DeliveryStates /\ now.stage = stage /\ now.notice = n
      BY <1>1 DEF DeliveryStates, AtWork
    <2>2. delivery' = [delivery EXCEPT ![d] = now]
      BY <1>5 DEF Goes, Delivering
    <2> HIDE DEF now
    <2>3. VerdictKnown(now, 0) /\ now.stage \in AtWork
      BY <2>1 DEF VerdictKnown, AtWork
    <2>4. QED
      BY <1>3, <2>1, <2>2, <2>3
  <1>6. CASE ReadAlert(d)
    <2> DEFINE tries == alert[n].attempts
               now == [delivery[d] EXCEPT
                   !.tries = tries,
                   !.stage = IF notices[n].active THEN "check" ELSE "write",
                   !.verdict = IF notices[n].active THEN "none" ELSE "CANCELLED"]
    <2>1. tries \in Nat
      BY <1>1 DEF AlertsInv, AlertsTypeOK, AlertStates
    <2>2. delivery' = [delivery EXCEPT ![d] = now]
      BY <1>6 DEF ReadAlert, Delivering
    <2> HIDE DEF tries
    <2>3. /\ now \in DeliveryStates /\ now.notice = n
          /\ \/ now.stage = "check"
             \/ now.stage = "write" /\ now.verdict = "CANCELLED"
      BY <1>1, <2>1 DEF DeliveryStates, AtWork, AlertStatus
    <2> HIDE DEF now
    <2>4. VerdictKnown(now, 0) /\ now.stage \in AtWork
      BY <2>3 DEF VerdictKnown, AtWork
    <2>5. QED
      BY <1>3, <2>2, <2>3, <2>4
  <1>7. QED
    BY <1>4, <1>5, <1>6 DEF CheckMaterial, Recheck

(* A call starts, and takes the rows that were left behind for dead.       *)
LEMMA AlertsStart ==
    ASSUME AlertsInv, NEW d \in Deliveries, dispatchDue(d)
    PROVE  AlertsInv'
  <1> DEFINE now == [delivery[d] EXCEPT !.stage = "claim"]
  <1>1. /\ now \in DeliveryStates /\ now.stage = "claim"
        /\ delivery' = [delivery EXCEPT ![d] = now]
    BY AlertsAtWork DEF dispatchDue, Goes, Delivering, DeliveryStates
  <1> HIDE DEF now
  <1>2. alert \in [Notices -> AlertStates]
    BY DEF AlertsInv, AlertsTypeOK
  <1>3. \A n \in Notices :
            [alert[n] EXCEPT !.status = "UNKNOWN", !.old = FALSE] \in AlertStates
    BY <1>2 DEF AlertStates, AlertStatus
  <1>4. alert' \in [Notices -> AlertStates]
    BY <1>2, <1>3 DEF dispatchDue, ExpireStale
  <1>5. \A n \in Notices :
            \/ alert'[n].status = alert[n].status
            \/ alert[n].status = "SENDING" /\ alert'[n].status = "UNKNOWN"
    BY <1>2 DEF dispatchDue, ExpireStale, AlertStates
  <1>6. /\ UNCHANGED <<level, notices, evaluation, heard>>
        /\ delivery[d].stage = "idle"
    BY DEF dispatchDue, stockVars
  <1>7. delivery \in [Deliveries -> DeliveryStates]
    BY DEF AlertsInv, AlertsTypeOK
  <1>8. ASSUME NEW c \in Deliveries, NEW n \in Notices, Works(c, n)'
        PROVE  Works(c, n) /\ delivery'[c] = delivery[c]
    BY <1>1, <1>7, <1>8 DEF Works, AtWork
  <1>9. AlertsTypeOK'
    BY <1>1, <1>4, <1>6, <1>7 DEF AlertsInv, AlertsTypeOK, AtWork
  <1>10. ClaimedOnce'
    BY <1>5, <1>8 DEF AlertsInv, ClaimedOnce
  <1>11. \A n \in Notices : ShownTrue(n)'
    BY <1>5, <1>6 DEF AlertsInv, ShownTrue, Unsent
  <1>12. \A c \in Deliveries, n \in Notices :
             Works(c, n)' => VerdictKnown(delivery[c], heard[n])'
    BY <1>6, <1>8 DEF AlertsInv
  <1>13. QED
    BY <1>9, <1>10, <1>11, <1>12 DEF AlertsInv

(* A row that waits has not reached Meta, and nobody is at work on it.     *)
LEMMA AlertsClaim ==
    ASSUME AlertsInv, NEW d \in Deliveries, ClaimAlert(d)
    PROVE  AlertsInv'
  <1>1. /\ delivery[d] \in DeliveryStates /\ delivery[d].stage = "claim"
        /\ UNCHANGED <<level, notices, evaluation, heard>>
        /\ alert \in [Notices -> AlertStates] /\ heard \in [Notices -> Nat]
    BY AlertsAtWork DEF ClaimAlert, stockVars, AlertsInv, AlertsTypeOK
  <1>2. CASE Delivering(d, NoDelivery) /\ UNCHANGED alert
    BY <1>1, <1>2, AlertsAtWork, AlertsQuietly DEF Delivering
  <1>3. CASE \E n \in {i \in Raised : Claimable(d, i)} :
                 /\ alert' = [alert EXCEPT ![n].status = "SENDING", ![n].old = FALSE]
                 /\ Delivering(d, [delivery[d] EXCEPT !.stage = "deliver",
                                       !.notice = n, !.met = @ \cup {n}])
    <2>1. PICK n \in Raised :
                 /\ Claimable(d, n)
                 /\ alert' = [alert EXCEPT ![n].status = "SENDING", ![n].old = FALSE]
                 /\ Delivering(d, [delivery[d] EXCEPT !.stage = "deliver",
                                       !.notice = n, !.met = @ \cup {n}])
      BY <1>3
    <2>2. n \in Notices
      <3>1. /\ DOMAIN notices = 1 .. Len(notices) /\ Len(notices) \in Nat
            /\ Len(notices) <= MaxNotices
        BY LenProperties DEF AlertsInv, AlertsTypeOK
      <3>2. QED
        BY <3>1, AlertsAssumption DEF Raised, Notices, AlertsAssumption
    <2> DEFINE met == delivery[d].met \cup {n}
               now == [delivery[d] EXCEPT !.stage = "deliver", !.notice = n,
                                          !.met = met]
               row == [alert[n] EXCEPT !.status = "SENDING", !.old = FALSE]
    <2>3. met \in SUBSET Notices
      BY <1>1, <2>2 DEF DeliveryStates
    <2>4. delivery' = [delivery EXCEPT ![d] = now]
      BY <2>1 DEF Delivering
    <2> HIDE DEF met
    <2>5. now \in DeliveryStates /\ now.stage = "deliver" /\ now.notice = n
      BY <1>1, <2>2, <2>3 DEF DeliveryStates, AtWork
    <2> HIDE DEF now
    <2>6. /\ row \in AlertStates /\ row.status = "SENDING"
          /\ alert' = [alert EXCEPT ![n] = row]
      BY <1>1, <2>1, <2>2 DEF AlertStates, AlertStatus
    <2> HIDE DEF row
    <2>7. /\ alert' \in [Notices -> AlertStates] /\ alert'[n] = row
          /\ \A k \in Notices \ {n} : alert'[k] = alert[k]
      BY <1>1, <2>2, <2>6
    <2>8. alert[n].status \in {"PENDING", "BLOCKED"}
      BY <2>1 DEF Claimable
    <2>9. heard[n] = 0 /\ \A c \in Deliveries : ~ Works(c, n)
      BY <2>2, <2>8 DEF AlertsInv, ShownTrue, ClaimedOnce, Unsent
    <2>10. \A k \in Notices : ShownTrue(k)'
      BY <1>1, <2>2, <2>6, <2>7, <2>9 DEF AlertsInv, ShownTrue
    <2>11. VerdictKnown(now, heard'[n])
      BY <1>1, <2>5, <2>9 DEF VerdictKnown
    <2>12. \A k \in Notices :
               ~ Works(d, k) /\ ~ (now.stage \in AtWork /\ now.notice = k) =>
                   heard'[k] = heard[k] /\ alert'[k].status = alert[k].status
      BY <1>1, <2>5, <2>7 DEF AtWork
    <2>13. QED
      BY ZenonT(30), <1>1, <2>2, <2>4, <2>5, <2>6, <2>7, <2>9, <2>10, <2>11, <2>12,
         AlertsOnward
  <1>4. QED
    BY <1>2, <1>3 DEF ClaimAlert

LEMMA AlertsFail ==
    ASSUME AlertsInv, NEW d \in Deliveries, DeliveryFails(d)
    PROVE  AlertsInv'
  <1>1. UNCHANGED <<level, notices, evaluation, alert, heard>>
    BY DEF DeliveryFails
  <1>2. QED
    BY <1>1, AlertsAtWork, AlertsQuietly DEF DeliveryFails, Delivering

LEMMA AlertsCount ==
    ASSUME AlertsInv, NEW d \in Deliveries, CountSend(d)
    PROVE  AlertsInv'
  <1> DEFINE n == delivery[d].notice
             now == [delivery[d] EXCEPT !.stage = "send"]
             row == [alert[n] EXCEPT !.attempts = alert[n].attempts + 1,
                                     !.old = FALSE]
  <1>1. /\ delivery[d] \in DeliveryStates /\ delivery[d].stage = "count"
        /\ n \in Notices /\ Works(d, n) /\ heard[n] = 0
        /\ alert[n].status \in {"SENDING", "UNKNOWN"}
    BY AlertsAtWork DEF CountSend, AtWork, VerdictKnown
  <1>2. /\ UNCHANGED <<level, notices, evaluation, heard>>
        /\ alert \in [Notices -> AlertStates] /\ heard \in [Notices -> Nat]
    BY DEF CountSend, stockVars, AlertsInv, AlertsTypeOK
  <1>3. /\ now \in DeliveryStates /\ now.stage = "send" /\ now.notice = n
        /\ delivery' = [delivery EXCEPT ![d] = now]
    BY <1>1 DEF CountSend, Goes, Delivering, DeliveryStates, AtWork
  <1>4. alert[n] \in AlertStates /\ alert[n].attempts + 1 \in Nat
    BY <1>1, <1>2 DEF AlertStates
  <1>5. /\ row \in AlertStates /\ row.status = alert[n].status
        /\ alert' = [alert EXCEPT ![n] = row]
    BY <1>1, <1>2, <1>4 DEF CountSend, AlertStates
  <1> HIDE DEF now, row
  <1>6. /\ alert' \in [Notices -> AlertStates]
        /\ \A k \in Notices : alert'[k].status = alert[k].status
    BY <1>1, <1>2, <1>5
  <1>7. \A k \in Notices : ShownTrue(k)'
    BY <1>2, <1>6 DEF AlertsInv, ShownTrue
  <1>8. VerdictKnown(now, heard'[n])
    BY <1>1, <1>2, <1>3 DEF VerdictKnown
  <1>9. QED
    BY <1>1, <1>2, <1>3, <1>6, <1>7, <1>8, AlertsOnward

(* What is sent was not sent before; what is heard back tells of it.       *)
LEMMA AlertsSend ==
    ASSUME AlertsInv, NEW d \in Deliveries, SendAlert(d)
    PROVE  AlertsInv'
  <1> DEFINE n == delivery[d].notice
  <1>1. /\ delivery[d] \in DeliveryStates /\ delivery[d].stage = "send"
        /\ n \in Notices /\ Works(d, n) /\ heard[n] = 0
        /\ alert[n].status \in {"SENDING", "UNKNOWN"}
    BY AlertsAtWork DEF SendAlert, AtWork, VerdictKnown
  <1>2. /\ UNCHANGED <<level, notices, evaluation, alert>>
        /\ alert \in [Notices -> AlertStates] /\ heard \in [Notices -> Nat]
    BY DEF SendAlert, stockVars, AlertsInv, AlertsTypeOK
  <1>3. PICK verdict \in {"SENT", "UNKNOWN", "FAILED", "PENDING"} :
            /\ Ends(d, verdict)
            /\ \/ /\ heard' = [heard EXCEPT ![n] = 1]
                  /\ verdict \in {"SENT", "UNKNOWN"}
               \/ heard' = heard /\ verdict # "SENT"
    BY <1>1, <1>2 DEF SendAlert
  <1> DEFINE now == [delivery[d] EXCEPT !.stage = "write", !.verdict = verdict]
  <1>4. /\ now \in DeliveryStates /\ now.stage = "write" /\ now.notice = n
        /\ now.verdict = verdict
        /\ delivery' = [delivery EXCEPT ![d] = now]
    BY <1>1, <1>3 DEF Ends, Delivering, DeliveryStates, AtWork, AlertStatus
  <1> HIDE DEF now
  <1>5. /\ heard' \in [Notices -> Nat] /\ heard'[n] \in {0, 1}
        /\ verdict = "SENT" => heard'[n] = 1
        /\ verdict \notin {"SENT", "UNKNOWN"} => heard'[n] = 0
        /\ \A k \in Notices \ {n} : heard'[k] = heard[k]
    BY <1>1, <1>2, <1>3
  <1>6. \A k \in Notices : ShownTrue(k)'
    BY <1>1, <1>2, <1>5 DEF AlertsInv, ShownTrue, Unsent
  <1>7. VerdictKnown(now, heard'[n])
    BY <1>3, <1>4, <1>5 DEF VerdictKnown, Unsent
  <1>8. \A k \in Notices :
            ~ Works(d, k) /\ ~ (now.stage \in AtWork /\ now.notice = k) =>
                heard'[k] = heard[k] /\ alert'[k].status = alert[k].status
    BY <1>1, <1>2, <1>5
  <1>9. QED
    BY <1>1, <1>2, <1>4, <1>5, <1>6, <1>7, <1>8, AlertsOnward

(* The row tells what came of the call, even if it was taken for dead.     *)
LEMMA AlertsWrite ==
    ASSUME AlertsInv, NEW d \in Deliveries, WriteAlert(d)
    PROVE  AlertsInv'
  <1> DEFINE n == delivery[d].notice
             row == [alert[n] EXCEPT !.status = delivery[d].verdict, !.old = FALSE]
  <1>1. /\ delivery[d] \in DeliveryStates /\ delivery[d].stage = "write"
        /\ n \in Notices /\ Works(d, n) /\ VerdictKnown(delivery[d], heard[n])
    BY AlertsAtWork DEF WriteAlert, AtWork
  <1>2. /\ UNCHANGED <<level, notices, evaluation, heard>>
        /\ alert \in [Notices -> AlertStates] /\ heard \in [Notices -> Nat]
    BY DEF WriteAlert, stockVars, AlertsInv, AlertsTypeOK
  <1>3. /\ row \in AlertStates /\ row.status = delivery[d].verdict
        /\ alert' = [alert EXCEPT ![n] = row]
    BY <1>1, <1>2 DEF WriteAlert, AlertStates, DeliveryStates
  <1> HIDE DEF row
  <1>4. /\ alert' \in [Notices -> AlertStates]
        /\ alert'[n].status = delivery[d].verdict
        /\ \A k \in Notices \ {n} : alert'[k] = alert[k]
    BY <1>1, <1>2, <1>3
  <1>5. /\ NextClaim(d) \in DeliveryStates /\ NextClaim(d).stage \notin AtWork
        /\ delivery' = [delivery EXCEPT ![d] = NextClaim(d)]
    BY AlertsAtWork DEF WriteAlert, Delivering
  <1>6. \A k \in Notices : ShownTrue(k)'
    BY <1>1, <1>2, <1>4 DEF AlertsInv, ShownTrue, VerdictKnown, Unsent
  <1>7. \A k \in Notices : ~ Works(d, k) =>
            heard'[k] = heard[k] /\ alert'[k].status = alert[k].status
    BY <1>1, <1>2, <1>4
  <1>8. QED
    BY <1>2, <1>4, <1>5, <1>6, <1>7, AlertsOnward

-----------------------------------------------------------------------------
LEMMA AlertsInvNext ==
    ASSUME AlertsInv, AlertsAssumption, [AlertsNext]_alertVars
    PROVE  AlertsInv'
  <1>1. CASE UNCHANGED alertVars
    BY <1>1 DEF alertVars, AlertsInv, AlertsTypeOK, ClaimedOnce, ShownTrue, Works
  <1>2. CASE \E to \in Levels : StockMoves(to)
    BY <1>2, AlertsStock
  <1>3. CASE \E e \in Evaluations : EvaluationStep(e) \/ EvaluationFails(e)
    BY <1>3, AlertsEvaluation
  <1>4. CASE \E n \in Notices : AlertGrowsOld(n)
    BY <1>4, AlertsGrowOld
  <1>5. CASE \E d \in Deliveries : DeliveryStep(d) \/ DeliveryFails(d)
    BY <1>5, AlertsStart, AlertsClaim, AlertsChecks, AlertsCount, AlertsSend,
       AlertsWrite, AlertsFail DEF DeliveryStep
  <1>6. QED
    BY <1>1, <1>2, <1>3, <1>4, <1>5 DEF AlertsNext

(* An owner's alert reaches Meta at most once, and is shown as what it is, *)
(* for any number of notifications, overlapping evaluations and deliveries,*)
(* calls that die and rows that are taken for dead: dispatchDue claims a   *)
(* row that nobody works on, and never one that it found SENDING.          *)
THEOREM AlertsOneSendPerCycle == AlertsSpec => []OneSendPerCycle
  <1>1. AlertsInit => AlertsInv
    BY AlertsInitInv, AlertsAssumption
  <1>2. AlertsInv /\ [AlertsNext]_alertVars => AlertsInv'
    BY AlertsInvNext, AlertsAssumption
  <1>3. AlertsInv => OneSendPerCycle
    BY DEF AlertsInv, ShownTrue, OneSendPerCycle
  <1>4. QED
    BY <1>1, <1>2, <1>3, PTL DEF AlertsSpec
=============================================================================
