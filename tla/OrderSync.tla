----------------------------- MODULE OrderSync -----------------------------
(***************************************************************************)
(* How the orders of a platform reach the database, and how their          *)
(* transitions become outcomes:                                            *)
(*   src/ecommerce/ecommerce-sync.service.ts                               *)
(*   src/ecommerce/ecommerce-order-timeline.service.ts                     *)
(*   src/ecommerce/order-status.util.ts                                    *)
(*   src/shopify/shopify-webhook.service.ts                                *)
(*                                                                         *)
(* A sync reads the platform page by page (one order a page, MaxPages      *)
(* pages a request) and leaves its cursor and its window in the            *)
(* connection, where the next request finds them.  Shopify's pages hold    *)
(* what changed in the window, YouCan's every order.  Shopify also sends   *)
(* webhooks, late, repeated or never; a webhook fetches the order and      *)
(* writes it unless the stored one is newer, which is two steps of a Read  *)
(* Committed transaction.  What a YouCan sync finds changed it writes to   *)
(* the timeline, and the timeline decides the outcome of orders that       *)
(* nobody dispatched here.                                                 *)
(*                                                                         *)
(* An order's state stands for its status and its fulfilment status.       *)
(* Times start at 1; 0 is null.                                            *)
(***************************************************************************)
EXTENDS Integers, FiniteSets

CONSTANTS
    Shops,      \* the connections to look at: the platform, its orders and
                \* their states, a bound on what happens to them, and
                \* whether Shopify sends its webhooks here
    Orders,     \* orders in the order the platform lists them: 1..n
    Callers,    \* requests for a sync that may be in progress at a time
    Hooks,      \* webhook calls that may be in progress at a time
    MaxPages,   \* MAX_PAGES_PER_REQUEST
    MaxClock    \* bound on the platform's clock

ASSUME OrderSyncAssumption ==
    /\ IsFiniteSet(Orders) /\ Orders = 1 .. Cardinality(Orders)
    /\ IsFiniteSet(Hooks)
    /\ MaxPages \in Nat \ {0} /\ MaxClock \in Nat

States == {"OPEN", "DELIVERED", "RETURNED", "CANCELLED"}
Shop == [platform : {"SHOPIFY", "YOUCAN"}, orders : SUBSET Orders,
         states : SUBSET States, updates : Nat, hooked : BOOLEAN]

(* YouCan sends no webhooks here.                                          *)
ASSUME ShopsAssumption ==
    /\ Shops \subseteq Shop
    /\ \A s \in Shops : s.hooked => s.platform = "SHOPIFY"

None == [state |-> "NONE", at |-> 0]

VARIABLES
    shop,       \* the connection; never changes
    remote,     \* the orders as the platform has them
    clock,      \* the time, at the platform and here
    deliveries, \* what happened at the platform; Shopify sends it as webhooks
    receipts,   \* ShopifyWebhookReceipt
    rows,       \* EcommerceOrder
    conn,       \* the sync columns of the EcommerceConnection
    snaps,      \* the connection each caller has read
    run,        \* the sync in runningSyncs
    hooks,      \* what each webhook call is doing
    events,     \* EcommerceOrderEvent of each order
    due,        \* orders whose outcome sync follows a stored event
    booked,     \* the outcome booked with each order
    viewing,    \* an order without events whose timeline is being read
    owing,      \* new and cancelled orders not counted yet (history)
    mishaps     \* what befell an order (history)

vars == <<shop, remote, clock, deliveries, receipts, rows, conn, snaps,
          run, hooks, events, due, booked, viewing, owing, mishaps>>

outside == <<shop, remote, clock, deliveries>>
timeline == <<events, due, booked, viewing>>

NoSnap == [taken |-> FALSE,
           conn |-> [cursor |-> 0, from |-> 0, started |-> 0, last |-> 0]]
NoRun == [stage |-> "idle", cursor |-> 0, from |-> 0, started |-> 0,
          pages |-> 0, order |-> 0, version |-> None, more |-> FALSE,
          seen |-> None]
NoHook == [stage |-> "idle", id |-> [order |-> 0, state |-> "OPEN", at |-> 0],
           version |-> None, seen |-> None]
NoView == [order |-> 0, version |-> None]

OrderSyncInit ==
    /\ shop \in Shops
    /\ remote = [o \in Orders |-> None] /\ clock = 1
    /\ deliveries = {} /\ receipts = {}
    /\ rows = [o \in Orders |-> None]
    /\ conn = NoSnap.conn
    /\ snaps = [c \in Callers |-> NoSnap]
    /\ run = NoRun /\ hooks = [h \in Hooks |-> NoHook]
    /\ events = [o \in Orders |-> {}] /\ due = {}
    /\ booked = [o \in Orders |-> "none"]
    /\ viewing = NoView
    /\ owing = [o \in Orders |-> 0] /\ mishaps = [o \in Orders |-> {}]

Stored(o) == rows[o].state # "NONE"
Exists(o) == remote[o].state \in States

(* The platform: an order is placed, changes or is deleted; its update     *)
(* time moves on, that of another order may be the same.                   *)
PlatformUpdate(o, s) ==
    \E t \in {clock, clock + 1} :
        /\ t <= MaxClock /\ Cardinality(deliveries) < shop.updates
        /\ o \in shop.orders /\ s \in shop.states \cup {"DELETED"}
        /\ t > remote[o].at
        /\ remote[o].state # "DELETED"
        /\ (remote[o].state = "NONE") => s # "DELETED"
        /\ s = "DELETED" => shop.platform = "SHOPIFY"
        /\ clock' = t
        /\ remote' = [remote EXCEPT ![o] = [state |-> s, at |-> t]]
        /\ deliveries' = deliveries \cup {[order |-> o, state |-> s, at |-> t]}
        /\ UNCHANGED <<shop, receipts, rows, conn, snaps, run, hooks,
                       timeline, owing, mishaps>>

TimePasses ==
    /\ clock < MaxClock /\ clock' = clock + 1
    /\ UNCHANGED <<shop, remote, deliveries, receipts, rows, conn, snaps,
                   run, hooks, timeline, owing, mishaps>>

-----------------------------------------------------------------------------
(* Writing an order row, and the history of it.                            *)
Turned(before, after) ==
    \/ before.state = "NONE"
    \/ before.state # "CANCELLED" /\ after.state = "CANCELLED"

(* A plausible slip: a cancelled order is counted whenever it is written.  *)
CountsEachTime(seen, version) ==
    seen.state = "NONE" \/ version.state = "CANCELLED"

(* What the caller of the write counts: recordNewOrder or                  *)
(* recordCancellation, judged by what it had read.                         *)
Counts(seen, version) ==
    \/ seen.state = "NONE"
    \/ seen.state # "CANCELLED" /\ version.state = "CANCELLED"

(* owing changes by n; it is kept only while nothing has befallen o.       *)
Owes(o, n) ==
    owing' = [owing EXCEPT ![o] =
        IF mishaps'[o] \cap {"raced", "uncounted"} = {} THEN @ + n ELSE 0]

Befalls(S, what) ==
    [o \in Orders |-> IF o \in S THEN mishaps[o] \cup {what} ELSE mishaps[o]]

(* rows[o] # seen: somebody has written the row since it was read.         *)
WriteRow(o, seen, version) ==
    /\ rows' = [rows EXCEPT ![o] = version]
    /\ mishaps' = IF rows[o] # seen THEN Befalls({o}, "raced") ELSE mishaps
    /\ Owes(o, IF Turned(rows[o], version) THEN 1 ELSE 0)

-----------------------------------------------------------------------------
(* syncConnection reads the connection, then looks for a running sync; a   *)
(* caller who finds one gets its result.                                   *)
ReadConnection(c) ==
    /\ ~snaps[c].taken
    /\ snaps' = [snaps EXCEPT ![c] = [taken |-> TRUE, conn |-> conn]]
    /\ UNCHANGED <<outside, receipts, rows, conn, run, hooks, timeline, owing,
                   mishaps>>

JoinRunning(c) ==
    /\ snaps[c].taken /\ run.stage # "idle"
    /\ snaps' = [snaps EXCEPT ![c] = NoSnap]
    /\ UNCHANGED <<outside, receipts, rows, conn, run, hooks, timeline, owing,
                   mishaps>>

(* A plausible slip: the window of a resumed sync is moved up to now.      *)
WindowUpToNow(k) ==
    [from |-> IF k.started # 0 THEN k.from ELSE k.last, started |-> clock]

(* Where a sync begins: a window left open is resumed, otherwise a new one *)
(* reaches from the last finished one to now.                              *)
WindowOf(k) ==
    [from |-> IF k.started # 0 THEN k.from ELSE k.last,
     started |-> IF k.started # 0 THEN k.started ELSE clock]

(* runSync up to its first page.                                           *)
StartSync(c) ==
    LET k == snaps[c].conn
        window == WindowOf(k)
    IN  /\ snaps[c].taken /\ run.stage = "idle"
        /\ snaps' = [snaps EXCEPT ![c] = NoSnap]
        /\ run' = [NoRun EXCEPT !.stage = "fetch", !.cursor = k.cursor,
                                !.from = window.from,
                                !.started = window.started]
        /\ conn' = [conn EXCEPT !.from = window.from,
                                !.started = window.started]
        /\ UNCHANGED <<outside, receipts, rows, hooks, timeline, owing,
                       mishaps>>

InWindow(o) ==
    /\ Exists(o)
    /\ shop.platform = "SHOPIFY" =>
          run.from <= remote[o].at /\ remote[o].at <= run.started

(* fetchOrdersPage: the next order after the cursor.                       *)
FetchPage ==
    LET ahead == {o \in Orders : o > run.cursor /\ InWindow(o)}
    IN  /\ run.stage = "fetch"
        /\ \/ /\ ahead = {}
              /\ run' = [run EXCEPT !.stage = "end", !.order = 0,
                                    !.more = FALSE]
           \/ \E o \in ahead :
                 /\ \A p \in ahead : o <= p
                 /\ run' = [run EXCEPT !.stage = "read", !.order = o,
                                       !.version = remote[o],
                                       !.more = (ahead # {o})]
        /\ UNCHANGED <<outside, receipts, rows, conn, snaps, hooks, timeline,
                       owing, mishaps>>

(* persistOrders: the stored orders are read before they are written.      *)
ReadExisting ==
    /\ run.stage = "read"
    /\ run' = [run EXCEPT !.stage = "write", !.seen = rows[run.order]]
    /\ UNCHANGED <<outside, receipts, rows, conn, snaps, hooks, timeline,
                   owing, mishaps>>

UpsertOrder ==
    /\ run.stage = "write"
    /\ WriteRow(run.order, run.seen, run.version)
    /\ run' = [run EXCEPT !.stage = "changes"]
    /\ UNCHANGED <<outside, receipts, conn, snaps, hooks, timeline>>

-----------------------------------------------------------------------------
(* detectAndStoreChanges: a YouCan order whose state has changed gets an   *)
(* event whose key is the transition; an event is immutable, so the key of *)
(* a transition made before stores nothing.  An order that is new has no   *)
(* state to compare with.                                                  *)
Transition(before, after) ==
    [key |-> <<before.state, after.state>>, state |-> after.state,
     at |-> after.at]

upsertEvents(o, new) ==
    events' = [events EXCEPT ![o] = @ \cup
        {e \in new : \A old \in events[o] : old.key # e.key}]

DetectChanges ==
    LET o == run.order
        e == Transition(run.seen, run.version)
        changed == /\ shop.platform = "YOUCAN" /\ run.seen.state # "NONE"
                   /\ run.seen.state # run.version.state
        fresh == \A old \in events[o] : old.key # e.key
    IN  /\ run.stage = "changes"
        /\ run' = [run EXCEPT !.stage = "count"]
        /\ \/ /\ changed /\ upsertEvents(o, {e})
              /\ due' = due \cup {o}
              /\ mishaps' = IF fresh
                    THEN [mishaps EXCEPT ![o] = @ \ {"missed"}]
                    ELSE Befalls({o}, "missed")
           \/ /\ ~changed /\ UNCHANGED <<events, due>>
              /\ mishaps' = IF shop.platform = "YOUCAN" /\ run.seen.state = "NONE"
                    THEN Befalls({o}, "missed") ELSE mishaps
        /\ UNCHANGED <<outside, receipts, rows, conn, snaps, hooks, booked,
                       viewing, owing>>

Outcome(s) == IF s = "DELIVERED" THEN "DELIVERED" ELSE "FAILED"
Relevant(E) == {e \in E : e.state # "OPEN"}

(* A plausible slip: a delivery outranks what happened after it.           *)
DeliveredFirst(E) ==
    IF \E e \in E : e.state = "DELIVERED" THEN {"DELIVERED"}
    ELSE {Outcome(e.state) : e \in Relevant(E)}

(* deriveTerminalOutcome and syncFromTimelineEvents: the outcome that      *)
(* happened last decides; nothing else books.                              *)
deriveTerminalOutcome(E) ==
    {Outcome(e.state) : e \in {f \in Relevant(E) :
                                  \A g \in Relevant(E) : g.at <= f.at}}

BookOutcome(o) ==
    /\ o \in due /\ due' = due \ {o}
    /\ \/ /\ Relevant(events[o]) = {} /\ UNCHANGED booked
       \/ \E outcome \in deriveTerminalOutcome(events[o]) :
             booked' = [booked EXCEPT ![o] = outcome]
    /\ UNCHANGED <<outside, receipts, rows, conn, snaps, run, hooks, events,
                   viewing, owing, mishaps>>

(* The outcome sync throws; a warning is logged.                           *)
BookingFails(o) ==
    /\ o \in due /\ due' = due \ {o}
    /\ mishaps' = Befalls({o}, "missed")
    /\ UNCHANGED <<outside, receipts, rows, conn, snaps, run, hooks, events,
                   booked, viewing, owing>>

(* getTimeline and backfillAllOrders: an order that has no events gets     *)
(* those its row tells of.                                                 *)
ViewTimeline(o) ==
    /\ shop.platform = "YOUCAN" /\ viewing = NoView
    /\ Stored(o) /\ events[o] = {}
    /\ viewing' = [order |-> o, version |-> rows[o]]
    /\ UNCHANGED <<outside, receipts, rows, conn, snaps, run, hooks, events,
                   due, booked, owing, mishaps>>

backfillSyntheticEvents ==
    LET v == viewing.version
        system == [key |-> <<"SYSTEM", "OPEN">>, state |-> "OPEN", at |-> 1]
    IN  /\ viewing # NoView /\ viewing' = NoView
        /\ upsertEvents(viewing.order,
               {system} \cup {[key |-> <<"SYSTEM", s>>, state |-> s,
                               at |-> v.at] : s \in {v.state} \cap {"CANCELLED"}})
        /\ due' = due \cup {viewing.order}
        /\ UNCHANGED <<outside, receipts, rows, conn, snaps, run, hooks,
                       booked, owing, mishaps>>

-----------------------------------------------------------------------------
(* recordNewOrder and recordCancellation of a sync; an error is logged.    *)
CountOrder ==
    LET o == run.order
        counts == Counts(run.seen, run.version)
    IN  /\ run.stage = "count" /\ o \notin due
        /\ run' = [run EXCEPT !.stage = "end"]
        /\ mishaps' \in {mishaps} \cup
              IF counts THEN {Befalls({o}, "uncounted")} ELSE {}
        /\ Owes(o, IF counts THEN -1 ELSE 0)
        /\ UNCHANGED <<outside, receipts, rows, conn, snaps, hooks, timeline>>

(* After the last page the window is closed; otherwise the cursor is kept, *)
(* and the request ends when it has read its pages.                        *)
EndPage ==
    LET pages == run.pages + 1
    IN  /\ run.stage = "end"
        /\ \/ /\ ~run.more /\ run' = NoRun
              /\ conn' = [cursor |-> 0, from |-> 0, started |-> 0,
                          last |-> run.started]
           \/ /\ run.more /\ conn' = [conn EXCEPT !.cursor = run.order]
              /\ run' = IF pages = MaxPages THEN NoRun
                        ELSE [run EXCEPT !.stage = "fetch", !.pages = pages,
                                         !.cursor = run.order, !.order = 0,
                                         !.version = None, !.seen = None]
        /\ UNCHANGED <<outside, receipts, rows, snaps, hooks, timeline, owing,
                       mishaps>>

(* What a sync that ends between its steps leaves undone.                  *)
Undone ==
    IF run.stage \notin {"changes", "count"} THEN mishaps
    ELSE [mishaps EXCEPT ![run.order] =
        @ \cup {"uncounted"}
          \cup IF run.stage = "changes" THEN {"missed"} ELSE {}]

(* A page cannot be read or stored, its lines included.                    *)
SyncFails ==
    /\ run.stage \in {"fetch", "read", "write", "changes"}
    /\ run' = NoRun /\ mishaps' = Undone
    /\ IF run.order = 0 THEN UNCHANGED owing ELSE Owes(run.order, 0)
    /\ UNCHANGED <<outside, receipts, rows, conn, snaps, hooks, timeline>>

-----------------------------------------------------------------------------
(* ShopifyWebhookService.  A webhook whose receipt exists is answered at   *)
(* once.  Otherwise the order is fetched as it is now.                     *)
ReceiveWebhook(h, d) ==
    /\ shop.hooked /\ hooks[h].stage = "idle"
    /\ d \notin receipts /\ d.state # "DELETED"
    /\ hooks' = [hooks EXCEPT ![h] = [stage |-> "fetched", id |-> d,
                                      version |-> remote[d.order],
                                      seen |-> None]]
    /\ UNCHANGED <<outside, receipts, rows, conn, snaps, run, timeline, owing,
                   mishaps>>

Remove(o) ==
    /\ rows' = [rows EXCEPT ![o] = None]
    /\ events' = [events EXCEPT ![o] = {}]
    /\ booked' = [booked EXCEPT ![o] = "none"]

(* deleteOrder: the topic ORDERS_DELETE, one transaction.                  *)
DeleteOrder(d) ==
    /\ shop.hooked /\ d \notin receipts /\ d.state = "DELETED"
    /\ receipts' = receipts \cup {d} /\ Remove(d.order)
    /\ UNCHANGED <<outside, conn, snaps, run, hooks, due, viewing, owing,
                   mishaps>>

(* The order is gone at Shopify.  The receipt of another call with the     *)
(* same webhook makes this one's transaction fail.                         *)
RemoveGone(h) ==
    /\ hooks[h].stage = "fetched" /\ hooks[h].version.state = "DELETED"
    /\ hooks' = [hooks EXCEPT ![h] = NoHook]
    /\ \/ /\ hooks[h].id \in receipts
          /\ UNCHANGED <<receipts, rows, events, booked>>
       \/ /\ hooks[h].id \notin receipts
          /\ receipts' = receipts \cup {hooks[h].id}
          /\ Remove(hooks[h].id.order)
    /\ UNCHANGED <<outside, conn, snaps, run, due, viewing, owing, mishaps>>

(* upsertCurrentOrder reads the stored order ...                           *)
ReadStored(h) ==
    /\ hooks[h].stage = "fetched" /\ hooks[h].version.state \in States
    /\ hooks' = [hooks EXCEPT ![h].stage = "write",
                              ![h].seen = rows[hooks[h].id.order]]
    /\ UNCHANGED <<outside, receipts, rows, conn, snaps, run, timeline, owing,
                   mishaps>>

NotOlder(seen, version) == seen.state = "NONE" \/ seen.at <= version.at

(* ... and writes the fetched one unless what it read is newer; the new    *)
(* or cancelled order is counted after the commit.                         *)
UpsertCurrentOrder(h) ==
    LET w == hooks[h]
        o == w.id.order
        applies == NotOlder(w.seen, w.version) /\ w.id \notin receipts
        counts == applies /\ Counts(w.seen, w.version)
    IN  /\ w.stage = "write"
        /\ receipts' = receipts \cup {w.id}
        /\ \/ applies /\ WriteRow(o, w.seen, w.version)
           \/ ~applies /\ UNCHANGED <<rows, owing, mishaps>>
        /\ hooks' = [hooks EXCEPT ![h] =
               IF counts THEN [w EXCEPT !.stage = "count"] ELSE NoHook]
        /\ UNCHANGED <<outside, conn, snaps, run, timeline>>

CountFromHook(h) ==
    LET o == hooks[h].id.order
    IN  /\ hooks[h].stage = "count"
        /\ hooks' = [hooks EXCEPT ![h] = NoHook]
        /\ mishaps' \in {mishaps, Befalls({o}, "uncounted")}
        /\ Owes(o, -1)
        /\ UNCHANGED <<outside, receipts, rows, conn, snaps, run, timeline>>

(* The process dies with everything it was doing.                          *)
Crash ==
    LET counting == {hooks[h].id.order : h \in
                        {g \in Hooks : hooks[g].stage = "count"}}
    IN  /\ run.stage # "idle" \/ due # {} \/ viewing # NoView
           \/ \E h \in Hooks : hooks[h].stage # "idle"
        /\ run' = NoRun /\ due' = {} /\ viewing' = NoView
        /\ hooks' = [h \in Hooks |-> NoHook]
        /\ snaps' = [c \in Callers |-> NoSnap]
        /\ mishaps' = [o \in Orders |->
               Undone[o] \cup (IF o \in due THEN {"missed"} ELSE {})
                         \cup (IF o \in counting THEN {"uncounted"} ELSE {})]
        /\ owing' = [o \in Orders |-> IF "uncounted" \in mishaps'[o] THEN 0
                                      ELSE owing[o]]
        /\ UNCHANGED <<outside, receipts, rows, conn, events, booked>>

OrderSyncNext ==
    \/ \E o \in Orders : \/ \E s \in States \cup {"DELETED"} :
                                PlatformUpdate(o, s)
                         \/ BookOutcome(o) \/ BookingFails(o)
                         \/ ViewTimeline(o)
    \/ TimePasses \/ backfillSyntheticEvents
    \/ \E c \in Callers : ReadConnection(c) \/ JoinRunning(c) \/ StartSync(c)
    \/ FetchPage \/ ReadExisting \/ UpsertOrder \/ DetectChanges
    \/ CountOrder \/ EndPage \/ SyncFails \/ Crash
    \/ \E h \in Hooks : \/ \E d \in deliveries : ReceiveWebhook(h, d)
                        \/ RemoveGone(h) \/ ReadStored(h)
                        \/ UpsertCurrentOrder(h) \/ CountFromHook(h)
    \/ \E d \in deliveries : DeleteOrder(d)

OrderSyncSpec == OrderSyncInit /\ [][OrderSyncNext]_vars

-----------------------------------------------------------------------------
(***************************************************************************)
(* Properties.                                                             *)
(***************************************************************************)

(* No order update falls between two windows: when a sync closes its       *)
(* window, every order the platform last changed before the window's end   *)
(* is stored as the platform has it, whatever pages, failed requests,      *)
(* crashes and webhooks came in between.                                   *)
NoUpdateSkipped ==
    [][conn'.last # conn.last =>
         \A o \in Orders :
             Exists(o) /\ remote[o].at < conn'.last /\ "raced" \notin mishaps[o]
             => rows[o] = remote[o]]_vars

(* The outcome booked with an undispatched order is the one the stored     *)
(* order shows, unless a transition left no event of its own or its        *)
(* booking was lost.                                                       *)
OutcomeFollowsPlatform ==
    \A o \in Orders :
        /\ shop.platform = "YOUCAN" /\ rows[o].state \in States \ {"OPEN"}
        /\ o \notin due /\ ~(run.order = o /\ run.stage = "changes")
        /\ "missed" \notin mishaps[o]
        => booked[o] = Outcome(rows[o].state)

(* Every order that appears or turns cancelled in the database is counted  *)
(* for its customer, once, unless two importers wrote it unseen or the     *)
(* count itself was lost.                                                  *)
CountedOnce ==
    \A o \in Orders :
        /\ ~(run.order = o /\ run.stage \in {"changes", "count"})
        /\ \A h \in Hooks : ~(hooks[h].id.order = o /\ hooks[h].stage = "count")
        /\ mishaps[o] \cap {"raced", "uncounted"} = {}
        => owing[o] = 0
=============================================================================
