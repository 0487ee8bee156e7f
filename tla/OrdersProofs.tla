---------------------------- MODULE OrdersProofs ----------------------------
(***************************************************************************)
(* What is proved of how orders come in: from a platform (OrderSync) and   *)
(* from Zomaal's own shop (ShopOrders).  The two have no state in common;  *)
(* they share a module because their proofs rest on the same facts about   *)
(* sets and sequences.                                                     *)
(***************************************************************************)
EXTENDS OrderSync, ShopOrders, SumTheorems, FiniteSetTheorems, SequenceTheorems,
        TLAPS

(***************************************************************************)
(* OrderSync.                                                              *)
(***************************************************************************)
Version == [state : States \cup {"NONE", "DELETED"}, at : Nat]
Delivery == [order : Orders, state : States \cup {"DELETED"}, at : Nat]
Window == [cursor : Nat, from : Nat, started : Nat, last : Nat]
RunStates ==
    [stage : {"idle", "fetch", "read", "write", "changes", "count", "end"},
     cursor : Nat, from : Nat, started : Nat, pages : Nat, order : Nat,
     version : Version, more : BOOLEAN, seen : Version]
HookStates ==
    [stage : {"idle", "fetched", "write", "count"},
     id : [order : Nat, state : States \cup {"DELETED"}, at : Nat],
     version : Version, seen : Version]
Names == States \cup {"NONE", "DELETED", "SYSTEM"}
OrderEvent == [key : Names \X Names, state : States, at : Nat]

(* The types, by what the steps change together.                           *)
OutsideTyped ==
    /\ shop \in Shop /\ remote \in [Orders -> Version] /\ clock \in Nat
    /\ deliveries \in SUBSET Delivery
RunTyped ==
    /\ run \in RunStates
    /\ run.stage \in {"read", "write", "changes", "count"} =>
           run.order \in Orders /\ run.version.state \in States
HooksTyped ==
    /\ hooks \in [Hooks -> HookStates]
    /\ \A h \in Hooks : hooks[h].stage # "idle" => hooks[h].id.order \in Orders
RowsTyped == rows \in [Orders -> Version]
ConnTyped ==
    /\ conn \in Window
    /\ snaps \in [Callers -> [taken : BOOLEAN, conn : Window]]
TimelineTyped ==
    /\ events \in [Orders -> SUBSET OrderEvent] /\ due \in SUBSET Orders
    /\ booked \in [Orders -> {"none", "DELIVERED", "FAILED"}]
    /\ viewing \in [order : Nat, version : Version]
    /\ viewing # NoView => viewing.order \in Orders
HistoryTyped ==
    /\ owing \in [Orders -> Int]
    /\ mishaps \in [Orders -> SUBSET {"raced", "uncounted", "missed"}]

SyncTypes ==
    /\ OutsideTyped /\ RunTyped /\ HooksTyped /\ RowsTyped /\ ConnTyped
    /\ TimelineTyped /\ HistoryTyped

LEMMA OrdersPositive == Orders \subseteq Nat /\ 0 \notin Orders
  <1>1. Orders = 1 .. Cardinality(Orders) /\ Cardinality(Orders) \in Nat
    BY OrderSyncAssumption, FS_CardinalityType DEF OrderSyncAssumption
  <1>2. QED
    BY <1>1

LEMMA NothingTyped ==
    /\ None \in Version /\ NoRun \in RunStates /\ NoHook \in HookStates
    /\ NoSnap \in [taken : BOOLEAN, conn : Window]
    /\ NoView \in [order : Nat, version : Version]
    /\ NoView.order = 0 /\ NoRun.stage = "idle" /\ NoHook.stage = "idle"
  <1>1. None \in Version
    BY DEF None, Version
  <1>2. QED
    BY <1>1 DEF NoRun, RunStates, NoHook, HookStates, NoSnap, Window, NoView, States

LEMMA SyncInitTypes == ASSUME OrderSyncInit PROVE SyncTypes
  <1>1. OutsideTyped /\ RowsTyped
    BY NothingTyped, ShopsAssumption
    DEF OrderSyncInit, OutsideTyped, RowsTyped, ShopsAssumption
  <1>2. RunTyped /\ HooksTyped
    BY NothingTyped DEF OrderSyncInit, RunTyped, HooksTyped
  <1>3. ConnTyped
    BY NothingTyped DEF OrderSyncInit, ConnTyped
  <1>4. TimelineTyped /\ HistoryTyped
    BY NothingTyped DEF OrderSyncInit, TimelineTyped, HistoryTyped
  <1>5. QED
    BY <1>1, <1>2, <1>3, <1>4 DEF SyncTypes

-----------------------------------------------------------------------------
(* Types, part by part.                                                    *)
LEMMA OutsideSteps ==
    ASSUME SyncTypes, [OrderSyncNext]_vars
    PROVE  OutsideTyped'
  <1>1. CASE \E o \in Orders, s \in States \cup {"DELETED"} : PlatformUpdate(o, s)
    <2>1. PICK o \in Orders, s \in States \cup {"DELETED"} : PlatformUpdate(o, s)
      BY <1>1
    <2>2. PICK t \in {clock, clock + 1} :
              /\ clock' = t /\ shop' = shop
              /\ remote' = [remote EXCEPT ![o] = [state |-> s, at |-> t]]
              /\ deliveries' = deliveries \cup {[order |-> o, state |-> s, at |-> t]}
      BY <2>1 DEF PlatformUpdate
    <2>3. /\ t \in Nat /\ [state |-> s, at |-> t] \in Version
          /\ [order |-> o, state |-> s, at |-> t] \in Delivery
      BY <2>2 DEF SyncTypes, OutsideTyped, Version, Delivery
    <2>4. QED
      BY <2>2, <2>3 DEF SyncTypes, OutsideTyped
  <1>2. CASE TimePasses
    BY <1>2 DEF TimePasses, SyncTypes, OutsideTyped
  <1>3. CASE UNCHANGED outside
    BY <1>3 DEF outside, SyncTypes, OutsideTyped
  <1>4. QED
    BY <1>1, <1>2, <1>3
    DEF OrderSyncNext, vars, outside, BookOutcome, BookingFails, ViewTimeline,
        backfillSyntheticEvents, ReadConnection, JoinRunning, StartSync,
        FetchPage, ReadExisting, UpsertOrder, DetectChanges, CountOrder, EndPage,
        SyncFails, Crash, ReceiveWebhook, RemoveGone, ReadStored,
        UpsertCurrentOrder, CountFromHook, DeleteOrder

LEMMA RunSteps ==
    ASSUME SyncTypes, [OrderSyncNext]_vars
    PROVE  RunTyped'
  <1>1. /\ run \in RunStates /\ NoRun \in RunStates /\ NoRun.stage = "idle"
        /\ run.stage \in {"read", "write", "changes", "count"} =>
               run.order \in Orders /\ run.version.state \in States
    BY NothingTyped DEF SyncTypes, RunTyped
  <1>2. ASSUME NEW c \in Callers, StartSync(c) PROVE RunTyped'
    <2>1. snaps[c].conn \in Window /\ clock \in Nat
      BY DEF SyncTypes, ConnTyped, OutsideTyped
    <2>2. WindowOf(snaps[c].conn) \in [from : Nat, started : Nat]
      BY <2>1 DEF WindowOf, Window
    <2>3. run'.stage = "fetch" /\ run' \in RunStates
      BY <1>1, <1>2, <2>1, <2>2 DEF StartSync, RunStates, Window
    <2>4. QED
      BY <2>3 DEF RunTyped
  <1>3. CASE FetchPage
    <2>1. CASE run' = [run EXCEPT !.stage = "end", !.order = 0, !.more = FALSE]
      BY <1>1, <2>1 DEF RunTyped, RunStates
    <2>2. ASSUME NEW o \in Orders, NEW ahead, Exists(o),
                 run' = [run EXCEPT !.stage = "read", !.order = o,
                                    !.version = remote[o], !.more = (ahead # {o})]
          PROVE  RunTyped'
      <3> DEFINE more == ahead # {o}
      <3>1. more \in BOOLEAN /\ remote[o] \in Version /\ o \in Nat
        BY OrdersPositive DEF SyncTypes, OutsideTyped
      <3> HIDE DEF more
      <3>2. run' = [run EXCEPT !.stage = "read", !.order = o,
                               !.version = remote[o], !.more = more]
        BY <2>2 DEF more
      <3>3. run' \in RunStates /\ run'.order = o /\ run'.version = remote[o]
        BY <1>1, <3>1, <3>2 DEF RunStates
      <3>4. QED
        BY <2>2, <3>3 DEF RunTyped, Exists
    <2>3. QED
      BY <1>3, <2>1, <2>2 DEF FetchPage, InWindow
  <1>4. CASE ReadExisting
    <2>1. /\ run.order \in Orders /\ rows[run.order] \in Version
          /\ run.version.state \in States
      BY <1>1, <1>4 DEF ReadExisting, SyncTypes, RowsTyped
    <2>2. /\ run' \in RunStates /\ run'.order = run.order
          /\ run'.version = run.version
      BY <1>1, <1>4, <2>1 DEF ReadExisting, RunStates
    <2>3. QED
      BY <2>1, <2>2 DEF RunTyped
  <1>5. CASE UpsertOrder \/ DetectChanges \/ CountOrder
    <2>1. PICK stage \in {"changes", "count", "end"} :
              run' = [run EXCEPT !.stage = stage]
      BY <1>5 DEF UpsertOrder, DetectChanges, CountOrder
    <2>2. run.order \in Orders /\ run.version.state \in States
      BY <1>1, <1>5 DEF UpsertOrder, DetectChanges, CountOrder
    <2>3. /\ run' \in RunStates /\ run'.order = run.order
          /\ run'.version = run.version
      BY <1>1, <2>1 DEF RunStates
    <2>4. QED
      BY <2>2, <2>3 DEF RunTyped
  <1>6. CASE EndPage
    <2>1. CASE run' = NoRun
      BY <1>1, <2>1 DEF RunTyped
    <2>2. CASE run' = [run EXCEPT !.stage = "fetch", !.pages = run.pages + 1,
                                  !.cursor = run.order, !.order = 0,
                                  !.version = None, !.seen = None]
      <3>1. run' \in RunStates /\ run'.stage = "fetch"
        <4>1. run.pages + 1 \in Nat /\ run.order \in Nat /\ None \in Version
          BY <1>1, NothingTyped DEF RunStates
        <4>2. QED
          BY <1>1, <2>2, <4>1 DEF RunStates
      <3>2. QED
        BY <3>1 DEF RunTyped
    <2>3. QED
      BY <1>6, <2>1, <2>2 DEF EndPage
  <1>7. CASE run' = NoRun \/ run' = run
    BY <1>1, <1>7 DEF RunTyped
  <1>8. QED
    BY <1>2, <1>3, <1>4, <1>5, <1>6, <1>7
    DEF OrderSyncNext, vars, outside, BookOutcome, BookingFails, ViewTimeline,
        backfillSyntheticEvents, ReadConnection, JoinRunning, PlatformUpdate,
        TimePasses, SyncFails, Crash, ReceiveWebhook, RemoveGone, ReadStored,
        UpsertCurrentOrder, CountFromHook, DeleteOrder

LEMMA HooksSteps ==
    ASSUME SyncTypes, [OrderSyncNext]_vars
    PROVE  HooksTyped'
  <1>1. /\ hooks \in [Hooks -> HookStates] /\ NoHook \in HookStates
        /\ NoHook.stage = "idle"
        /\ \A h \in Hooks : hooks[h].stage # "idle" => hooks[h].id.order \in Orders
    BY NothingTyped DEF SyncTypes, HooksTyped
  <1>2. ASSUME NEW h \in Hooks, NEW now \in HookStates,
               now.stage # "idle" => now.id.order \in Orders,
               hooks' = [hooks EXCEPT ![h] = now]
        PROVE  HooksTyped'
    <2>1. hooks' \in [Hooks -> HookStates]
      BY <1>1, <1>2
    <2>2. \A g \in Hooks : hooks'[g] = IF g = h THEN now ELSE hooks[g]
      BY <1>1, <1>2
    <2>3. QED
      BY <1>1, <1>2, <2>1, <2>2 DEF HooksTyped
  <1>3. ASSUME NEW h \in Hooks, NEW d \in deliveries, ReceiveWebhook(h, d)
        PROVE  HooksTyped'
    <2> DEFINE now == [stage |-> "fetched", id |-> d, version |-> remote[d.order],
                       seen |-> None]
    <2>1. d \in Delivery /\ d.order \in Orders /\ remote[d.order] \in Version
      BY DEF SyncTypes, OutsideTyped, Delivery
    <2>2. d \in [order : Nat, state : States \cup {"DELETED"}, at : Nat]
      BY <2>1, OrdersPositive DEF Delivery
    <2>3. now \in HookStates /\ now.id = d
      BY <2>1, <2>2, NothingTyped DEF HookStates
    <2>4. hooks' = [hooks EXCEPT ![h] = now]
      BY <1>3 DEF ReceiveWebhook
    <2> HIDE DEF now
    <2>5. QED
      BY <1>2, <2>1, <2>3, <2>4
  <1>4. ASSUME NEW h \in Hooks, ReadStored(h) PROVE HooksTyped'
    <2> DEFINE now == [hooks[h] EXCEPT !.stage = "write",
                                       !.seen = rows[hooks[h].id.order]]
    <2>1. hooks[h].id.order \in Orders
      BY <1>1, <1>4 DEF ReadStored
    <2>2. rows[hooks[h].id.order] \in Version
      BY <2>1 DEF SyncTypes, RowsTyped
    <2>3. now \in HookStates /\ now.id = hooks[h].id
      BY <1>1, <2>2 DEF HookStates
    <2>4. hooks' = [hooks EXCEPT ![h] = now]
      BY <1>1, <1>4 DEF ReadStored
    <2> HIDE DEF now
    <2>5. QED
      BY <1>2, <2>1, <2>3, <2>4
  <1>5. ASSUME NEW h \in Hooks, UpsertCurrentOrder(h) PROVE HooksTyped'
    <2>1. CASE hooks' = [hooks EXCEPT ![h] = NoHook]
      BY <1>1, <1>2, <2>1
    <2>2. CASE hooks' = [hooks EXCEPT ![h] = [hooks[h] EXCEPT !.stage = "count"]]
      <3> DEFINE now == [hooks[h] EXCEPT !.stage = "count"]
      <3>1. now \in HookStates /\ now.id = hooks[h].id
        BY <1>1 DEF HookStates
      <3>2. hooks[h].id.order \in Orders
        BY <1>1, <1>5 DEF UpsertCurrentOrder
      <3> HIDE DEF now
      <3>3. QED
        BY <1>2, <2>2, <3>1, <3>2 DEF now
    <2>3. QED
      BY <1>5, <2>1, <2>2 DEF UpsertCurrentOrder
  <1>6. ASSUME NEW h \in Hooks, RemoveGone(h) \/ CountFromHook(h) PROVE HooksTyped'
    BY <1>1, <1>2, <1>6 DEF RemoveGone, CountFromHook
  <1>7. CASE hooks' = hooks \/ hooks' = [h \in Hooks |-> NoHook]
    BY <1>1, <1>7 DEF HooksTyped
  <1>8. QED
    BY <1>3, <1>4, <1>5, <1>6, <1>7
    DEF OrderSyncNext, vars, outside, BookOutcome, BookingFails, ViewTimeline,
        backfillSyntheticEvents, ReadConnection, JoinRunning, StartSync,
        PlatformUpdate, TimePasses, FetchPage, ReadExisting, UpsertOrder,
        DetectChanges, CountOrder, EndPage, SyncFails, Crash, DeleteOrder

LEMMA RowsSteps ==
    ASSUME SyncTypes, [OrderSyncNext]_vars
    PROVE  RowsTyped'
  <1>1. /\ rows \in [Orders -> Version] /\ None \in Version
    BY NothingTyped DEF SyncTypes, RowsTyped
  <1>2. CASE UpsertOrder
    <2>1. run.version \in Version
      BY DEF SyncTypes, RunTyped, RunStates
    <2>2. QED
      BY <1>1, <1>2, <2>1 DEF UpsertOrder, WriteRow, RowsTyped
  <1>3. ASSUME NEW h \in Hooks, UpsertCurrentOrder(h) PROVE RowsTyped'
    <2>1. hooks[h].version \in Version
      BY DEF SyncTypes, HooksTyped, HookStates
    <2>2. QED
      BY <1>1, <1>3, <2>1 DEF UpsertCurrentOrder, WriteRow, RowsTyped
  <1>4. ASSUME NEW o, Remove(o) PROVE RowsTyped'
    BY <1>1, <1>4 DEF Remove, RowsTyped
  <1>5. CASE rows' = rows
    BY <1>1, <1>5 DEF RowsTyped
  <1>6. QED
    BY <1>2, <1>3, <1>4, <1>5
    DEF OrderSyncNext, vars, outside, BookOutcome, BookingFails, ViewTimeline,
        backfillSyntheticEvents, ReadConnection, JoinRunning, StartSync,
        PlatformUpdate, TimePasses, FetchPage, ReadExisting,
        DetectChanges, CountOrder, EndPage, SyncFails, Crash, DeleteOrder,
        ReceiveWebhook, RemoveGone, ReadStored, CountFromHook

LEMMA ConnSteps ==
    ASSUME SyncTypes, [OrderSyncNext]_vars
    PROVE  ConnTyped'
  <1> DEFINE Snap == [taken : BOOLEAN, conn : Window]
  <1>1. /\ conn \in Window /\ snaps \in [Callers -> Snap] /\ NoSnap \in Snap
        /\ clock \in Nat /\ run \in RunStates
    BY NothingTyped DEF SyncTypes, ConnTyped, OutsideTyped, RunTyped
  <1>2. ASSUME NEW c \in Callers, ReadConnection(c) PROVE ConnTyped'
    <2>1. [taken |-> TRUE, conn |-> conn] \in Snap
      BY <1>1
    <2>2. QED
      BY <1>1, <1>2, <2>1 DEF ReadConnection, ConnTyped
  <1>3. ASSUME NEW c \in Callers, StartSync(c) PROVE ConnTyped'
    <2>1. snaps[c].conn \in Window
      BY <1>1
    <2>2. WindowOf(snaps[c].conn) \in [from : Nat, started : Nat]
      BY <1>1, <2>1 DEF WindowOf, Window
    <2>3. conn' \in Window
      BY <1>1, <1>3, <2>2 DEF StartSync, Window
    <2>4. snaps' \in [Callers -> Snap]
      BY <1>1, <1>3 DEF StartSync
    <2>5. QED
      BY <2>3, <2>4 DEF ConnTyped
  <1>4. CASE EndPage
    <2>1. conn' \in Window
      BY <1>1, <1>4 DEF EndPage, Window, RunStates
    <2>2. QED
      BY <1>1, <1>4, <2>1 DEF EndPage, ConnTyped
  <1>5. CASE /\ conn' = conn
             /\ \/ snaps' = snaps \/ snaps' = [c \in Callers |-> NoSnap]
                \/ \E c \in Callers : snaps' = [snaps EXCEPT ![c] = NoSnap]
    BY <1>1, <1>5 DEF ConnTyped
  <1>6. QED
    BY <1>2, <1>3, <1>4, <1>5
    DEF OrderSyncNext, vars, outside, BookOutcome, BookingFails, ViewTimeline,
        backfillSyntheticEvents, JoinRunning, PlatformUpdate, TimePasses,
        FetchPage, ReadExisting, UpsertOrder, DetectChanges, CountOrder,
        SyncFails, Crash, DeleteOrder, ReceiveWebhook, RemoveGone, ReadStored,
        UpsertCurrentOrder, CountFromHook

LEMMA TimelineSteps ==
    ASSUME SyncTypes, [OrderSyncNext]_vars
    PROVE  TimelineTyped'
  <1>1. /\ events \in [Orders -> SUBSET OrderEvent] /\ due \in SUBSET Orders
        /\ booked \in [Orders -> {"none", "DELIVERED", "FAILED"}]
        /\ viewing \in [order : Nat, version : Version]
        /\ viewing # NoView => viewing.order \in Orders
        /\ NoView \in [order : Nat, version : Version]
    BY NothingTyped DEF SyncTypes, TimelineTyped
  <1>2. ASSUME NEW o \in Orders, NEW new \in SUBSET OrderEvent, upsertEvents(o, new)
        PROVE  events' \in [Orders -> SUBSET OrderEvent]
    BY <1>1, <1>2 DEF upsertEvents
  <1>3. CASE DetectChanges
    <2> DEFINE e == Transition(run.seen, run.version)
    <2>1. /\ run.order \in Orders /\ run.version.state \in States
          /\ run.version \in Version /\ run.seen \in Version
      BY <1>3 DEF DetectChanges, SyncTypes, RunTyped, RunStates
    <2>2. {e} \in SUBSET OrderEvent
      <3>1. /\ run.seen.state \in Names /\ run.version.state \in Names
            /\ run.version.at \in Nat
        BY <2>1 DEF Version, Names
      <3> DEFINE key == <<run.seen.state, run.version.state>>
      <3>2. key \in Names \X Names
        BY <3>1
      <3> HIDE DEF key
      <3>3. [key |-> key, state |-> run.version.state, at |-> run.version.at]
                \in OrderEvent
        BY <2>1, <3>1, <3>2 DEF OrderEvent
      <3>4. QED
        BY <3>3 DEF Transition, key
    <2>3. /\ upsertEvents(run.order, {e}) /\ due' = due \cup {run.order}
          \/ UNCHANGED <<events, due>>
      BY <1>3 DEF DetectChanges
    <2>4. UNCHANGED <<booked, viewing>>
      BY <1>3 DEF DetectChanges
    <2> HIDE DEF e
    <2>5. QED
      BY <1>1, <1>2, <2>1, <2>2, <2>3, <2>4 DEF TimelineTyped
  <1>4. CASE backfillSyntheticEvents
    <2> DEFINE v == viewing.version
               new == {[key |-> <<"SYSTEM", "OPEN">>, state |-> "OPEN", at |-> 1]}
                          \cup {[key |-> <<"SYSTEM", s>>, state |-> s, at |-> v.at] :
                                    s \in {v.state} \cap {"CANCELLED"}}
    <2>1. viewing.order \in Orders /\ v \in Version
      BY <1>1, <1>4 DEF backfillSyntheticEvents
    <2>2. new \in SUBSET OrderEvent
      <3>1. v.at \in Nat /\ {"OPEN", "CANCELLED"} \subseteq States
        BY <2>1 DEF Version, States
      <3>2. {"OPEN", "CANCELLED", "SYSTEM"} \subseteq Names
        BY DEF Names, States
      <3>3. ASSUME NEW s \in {"OPEN", "CANCELLED"}, NEW at \in Nat
            PROVE  [key |-> <<"SYSTEM", s>>, state |-> s, at |-> at] \in OrderEvent
        <4>1. <<"SYSTEM", s>> \in Names \X Names
          BY <3>2
        <4> DEFINE key == <<"SYSTEM", s>>
        <4> HIDE DEF key
        <4>2. [key |-> key, state |-> s, at |-> at] \in OrderEvent
          BY <3>1, <4>1 DEF OrderEvent, key
        <4>3. QED
          BY <4>2 DEF key
      <3>4. [key |-> <<"SYSTEM", "OPEN">>, state |-> "OPEN", at |-> 1] \in OrderEvent
        BY <3>3
      <3>5. \A s \in {v.state} \cap {"CANCELLED"} :
                [key |-> <<"SYSTEM", s>>, state |-> s, at |-> v.at] \in OrderEvent
        BY <3>1, <3>3
      <3>6. QED
        BY <3>4, <3>5
    <2>3. /\ upsertEvents(viewing.order, new) /\ due' = due \cup {viewing.order}
          /\ viewing' = NoView /\ booked' = booked
      BY <1>4 DEF backfillSyntheticEvents
    <2> HIDE DEF new
    <2>4. QED
      BY <1>1, <1>2, <2>1, <2>2, <2>3 DEF TimelineTyped
  <1>5. ASSUME NEW o \in Orders, BookOutcome(o) PROVE TimelineTyped'
    BY <1>1, <1>5 DEF BookOutcome, Outcome, deriveTerminalOutcome, TimelineTyped
  <1>6. ASSUME NEW o \in Orders, ViewTimeline(o) PROVE TimelineTyped'
    <2>1. [order |-> o, version |-> rows[o]] \in [order : Nat, version : Version]
      BY OrdersPositive DEF SyncTypes, RowsTyped
    <2>2. QED
      BY <1>1, <1>6, <2>1 DEF ViewTimeline, TimelineTyped
  <1>7. ASSUME NEW o, Remove(o), UNCHANGED <<due, viewing>> PROVE TimelineTyped'
    BY <1>1, <1>7 DEF Remove, TimelineTyped
  <1>8. CASE /\ UNCHANGED <<events, booked>>
             /\ due' = {} \/ \E o \in Orders : due' = due \ {o}
             /\ viewing' = viewing \/ viewing' = NoView
    BY <1>1, <1>8 DEF TimelineTyped
  <1>9. CASE UNCHANGED timeline
    BY <1>1, <1>9 DEF timeline, TimelineTyped
  <1>10. CASE UNCHANGED <<events, booked, due, viewing>>
    BY <1>1, <1>10 DEF TimelineTyped
  <1>11. QED
    BY <1>3, <1>4, <1>5, <1>6, <1>7, <1>8, <1>9, <1>10
    DEF OrderSyncNext, vars, outside, BookingFails,
        ReadConnection, JoinRunning, StartSync,
        PlatformUpdate, TimePasses, FetchPage, ReadExisting, UpsertOrder,
        CountOrder, EndPage, SyncFails, Crash, DeleteOrder,
        ReceiveWebhook, RemoveGone, ReadStored, UpsertCurrentOrder, CountFromHook

(* What befalls an order, and what is owed for it.                         *)
LEMMA OwesTyped ==
    ASSUME SyncTypes, NEW o \in Orders, NEW n \in Int, Owes(o, n)
    PROVE  /\ owing' \in [Orders -> Int]
           /\ owing'[o] = IF mishaps'[o] \cap {"raced", "uncounted"} = {}
                          THEN owing[o] + n ELSE 0
           /\ \A k \in Orders \ {o} : owing'[k] = owing[k]
  <1>1. owing \in [Orders -> Int] /\ owing[o] + n \in Int
    BY DEF SyncTypes, HistoryTyped
  <1>2. QED
    BY <1>1 DEF Owes

LEMMA BefallsTyped ==
    ASSUME SyncTypes, NEW S, NEW what \in {"raced", "uncounted", "missed"}
    PROVE  Befalls(S, what) \in [Orders -> SUBSET {"raced", "uncounted", "missed"}]
  BY DEF SyncTypes, HistoryTyped, Befalls

LEMMA HistorySteps ==
    ASSUME SyncTypes, [OrderSyncNext]_vars
    PROVE  HistoryTyped'
  <1> DEFINE M == [Orders -> SUBSET {"raced", "uncounted", "missed"}]
  <1>1. owing \in [Orders -> Int] /\ mishaps \in M
    BY DEF SyncTypes, HistoryTyped
  <1>2. \A o \in Orders : \A n \in Int : Owes(o, n) => owing' \in [Orders -> Int]
    BY OwesTyped
  <1>3. /\ \A S : Befalls(S, "raced") \in M /\ Befalls(S, "uncounted") \in M
        /\ \A S : Befalls(S, "missed") \in M
    BY BefallsTyped
  <1> HIDE DEF M
  <1>4. ASSUME NEW o \in Orders, NEW seen, NEW version, WriteRow(o, seen, version)
        PROVE  HistoryTyped'
    <2>1. mishaps' \in M
      BY <1>1, <1>3, <1>4 DEF WriteRow
    <2>2. Owes(o, 1) \/ Owes(o, 0)
      BY <1>4 DEF WriteRow
    <2>3. QED
      BY <1>2, <2>1, <2>2 DEF HistoryTyped, M
  <1>5. CASE UpsertOrder
    BY <1>4, <1>5 DEF UpsertOrder, SyncTypes, RunTyped
  <1>6. ASSUME NEW h \in Hooks, UpsertCurrentOrder(h) PROVE HistoryTyped'
    <2>1. hooks[h].id.order \in Orders
      BY <1>6 DEF UpsertCurrentOrder, SyncTypes, HooksTyped
    <2>2. CASE UNCHANGED <<rows, owing, mishaps>>
      BY <1>1, <2>2 DEF HistoryTyped, M
    <2>3. QED
      BY <1>4, <1>6, <2>1, <2>2 DEF UpsertCurrentOrder
  <1>7. CASE DetectChanges
    <2>1. [mishaps EXCEPT ![run.order] = @ \ {"missed"}] \in M
      BY <1>1 DEF M
    <2>2. mishaps' \in M
      BY <1>1, <1>3, <1>7, <2>1 DEF DetectChanges
    <2>3. QED
      BY <1>1, <1>7, <2>2 DEF DetectChanges, HistoryTyped, M
  <1>8. ASSUME NEW o \in Orders, BookingFails(o) PROVE HistoryTyped'
    BY <1>1, <1>3, <1>8 DEF BookingFails, HistoryTyped, M
  <1>9. CASE CountOrder
    <2>1. mishaps' \in M
      BY <1>1, <1>3, <1>9 DEF CountOrder
    <2>2. run.order \in Orders
      BY <1>9 DEF CountOrder, SyncTypes, RunTyped
    <2>3. Owes(run.order, -1) \/ Owes(run.order, 0)
      BY <1>9 DEF CountOrder
    <2>4. QED
      BY <1>2, <2>1, <2>2, <2>3 DEF HistoryTyped, M
  <1>10. ASSUME NEW h \in Hooks, CountFromHook(h) PROVE HistoryTyped'
    <2>1. mishaps' \in M
      BY <1>1, <1>3, <1>10 DEF CountFromHook
    <2>2. hooks[h].id.order \in Orders
      BY <1>10 DEF CountFromHook, SyncTypes, HooksTyped
    <2>3. Owes(hooks[h].id.order, -1)
      BY <1>10 DEF CountFromHook
    <2>4. QED
      BY <1>2, <2>1, <2>2, <2>3 DEF HistoryTyped, M
  <1>11. Undone \in M
    BY <1>1 DEF Undone, M
  <1>12. CASE SyncFails
    <2>1. run.order \in Nat /\ (run.order # 0 => owing' = owing \/ owing' \in [Orders -> Int])
      BY <1>1, <1>12 DEF SyncFails, Owes, SyncTypes, RunTyped, RunStates
    <2>2. QED
      BY <1>1, <1>11, <1>12, <2>1 DEF SyncFails, HistoryTyped, M
  <1>13. CASE Crash
    <2>1. mishaps' \in M
      BY <1>11, <1>13 DEF Crash, M
    <2>2. owing' \in [Orders -> Int]
      BY <1>1, <1>13 DEF Crash
    <2>3. QED
      BY <2>1, <2>2 DEF HistoryTyped, M
  <1>14. CASE UNCHANGED <<owing, mishaps>>
    BY <1>1, <1>14 DEF HistoryTyped, M
  <1>15. QED
    BY <1>5, <1>6, <1>7, <1>8, <1>9, <1>10, <1>12, <1>13, <1>14
    DEF OrderSyncNext, vars, outside, BookOutcome, ViewTimeline,
        backfillSyntheticEvents, ReadConnection, JoinRunning, StartSync,
        PlatformUpdate, TimePasses, FetchPage, ReadExisting,
        EndPage, DeleteOrder, ReceiveWebhook, RemoveGone, ReadStored

LEMMA SyncTypesNext ==
    ASSUME SyncTypes, [OrderSyncNext]_vars PROVE SyncTypes'
  BY OutsideSteps, RunSteps, HooksSteps, RowsSteps, ConnSteps, TimelineSteps,
     HistorySteps DEF SyncTypes

-----------------------------------------------------------------------------
(* CountedOnce.  What an order owes is the counts that callers have still  *)
(* to make for it.                                                         *)
Lost == {"raced", "uncounted"}
Owed(o) == {h \in Hooks : hooks[h].stage = "count" /\ hooks[h].id.order = o}
SyncOwes(o) ==
    IF /\ run.order = o /\ run.stage \in {"changes", "count"}
       /\ Counts(run.seen, run.version)
    THEN 1 ELSE 0
CountInv ==
    \A o \in Orders : mishaps[o] \cap Lost = {}
        => owing[o] = Cardinality(Owed(o)) + SyncOwes(o)

LEMMA OwedFinite ==
    \A o : IsFiniteSet(Owed(o)) /\ Cardinality(Owed(o)) \in Nat
  BY OrderSyncAssumption, FS_Subset, FS_CardinalityType
  DEF OrderSyncAssumption, Owed

(* A write that nobody raced adds a count exactly when its caller will     *)
(* make one.                                                               *)
LEMMA WriteCounts ==
    ASSUME SyncTypes, NEW o \in Orders, NEW seen, NEW version,
           WriteRow(o, seen, version)
    PROVE  /\ mishaps'[o] \cap Lost = {} =>
                  /\ mishaps[o] \cap Lost = {}
                  /\ owing'[o] = owing[o] + IF Counts(seen, version) THEN 1 ELSE 0
           /\ \A k \in Orders \ {o} : owing'[k] = owing[k] /\ mishaps'[k] = mishaps[k]
  <1>1. owing \in [Orders -> Int] /\ DOMAIN mishaps = Orders
    BY DEF SyncTypes, HistoryTyped
  <1> DEFINE n == IF Turned(rows[o], version) THEN 1 ELSE 0
  <1>2. n \in Int /\ Owes(o, n)
    BY DEF WriteRow
  <1> HIDE DEF n
  <1>3. /\ owing'[o] = IF mishaps'[o] \cap Lost = {} THEN owing[o] + n ELSE 0
        /\ \A k \in Orders \ {o} : owing'[k] = owing[k]
    BY <1>2, OwesTyped DEF Lost
  <1>4. CASE rows[o] # seen
    <2>1. mishaps' = Befalls({o}, "raced")
      BY <1>4 DEF WriteRow
    <2>2. "raced" \in mishaps'[o] /\ \A k \in Orders \ {o} : mishaps'[k] = mishaps[k]
      BY <2>1 DEF Befalls
    <2>3. QED
      BY <1>3, <2>2 DEF Lost
  <1>5. CASE rows[o] = seen
    <2>1. mishaps' = mishaps
      BY <1>5 DEF WriteRow
    <2>2. n = IF Counts(seen, version) THEN 1 ELSE 0
      BY <1>5 DEF n, Turned, Counts
    <2>3. QED
      BY <1>3, <2>1, <2>2
  <1>6. QED
    BY <1>4, <1>5

(* What one webhook call's step does to the counts still to make.          *)
LEMMA HookMoves ==
    ASSUME SyncTypes, NEW h \in Hooks, NEW now,
           hooks' = [hooks EXCEPT ![h] = now]
    PROVE  /\ hooks[h].stage # "count" /\ now.stage # "count" =>
                  \A o : Owed(o)' = Owed(o)
           /\ hooks[h].stage # "count" /\ now.stage = "count" =>
                  \A o : Cardinality(Owed(o)') = Cardinality(Owed(o))
                         + IF o = now.id.order THEN 1 ELSE 0
           /\ hooks[h].stage = "count" /\ now.stage # "count" =>
                  \A o : Cardinality(Owed(o)') = Cardinality(Owed(o))
                         - IF o = hooks[h].id.order THEN 1 ELSE 0
  <1>1. \A g \in Hooks : hooks'[g] = IF g = h THEN now ELSE hooks[g]
    BY DEF SyncTypes, HooksTyped
  <1>2. CASE hooks[h].stage # "count" /\ now.stage # "count"
    BY <1>1, <1>2 DEF Owed
  <1>3. ASSUME hooks[h].stage # "count", now.stage = "count", NEW o
        PROVE  Cardinality(Owed(o)') = Cardinality(Owed(o))
                   + IF o = now.id.order THEN 1 ELSE 0
    <2>1. h \notin Owed(o) /\ Owed(o)' = IF o = now.id.order THEN Owed(o) \cup {h}
                                         ELSE Owed(o)
      BY <1>1, <1>3 DEF Owed
    <2>2. IsFiniteSet(Owed(o)) /\ Cardinality(Owed(o)) \in Nat
      BY OwedFinite
    <2>3. Cardinality(Owed(o) \cup {h}) = Cardinality(Owed(o)) + 1
      BY <2>1, <2>2, FS_AddElement
    <2>4. QED
      BY <2>1, <2>2, <2>3
  <1>4. ASSUME hooks[h].stage = "count", now.stage # "count", NEW o
        PROVE  Cardinality(Owed(o)') = Cardinality(Owed(o))
                   - IF o = hooks[h].id.order THEN 1 ELSE 0
    <2>1. /\ o = hooks[h].id.order => h \in Owed(o)
          /\ Owed(o)' = IF o = hooks[h].id.order THEN Owed(o) \ {h} ELSE Owed(o)
      BY <1>1, <1>4 DEF Owed
    <2>2. IsFiniteSet(Owed(o)) /\ Cardinality(Owed(o)) \in Nat
      BY OwedFinite
    <2>3. h \in Owed(o) => Cardinality(Owed(o) \ {h}) = Cardinality(Owed(o)) - 1
      BY <2>2, FS_RemoveElement
    <2>4. QED
      BY <2>1, <2>2, <2>3
  <1>5. QED
    BY <1>2, <1>3, <1>4

LEMMA CountInit == ASSUME OrderSyncInit PROVE CountInv
  <1>1. \A o : Owed(o) = {}
    BY NothingTyped DEF OrderSyncInit, Owed
  <1>2. \A o : Cardinality(Owed(o)) = 0 /\ SyncOwes(o) = 0
    BY <1>1, FS_EmptySet, NothingTyped DEF OrderSyncInit, SyncOwes
  <1>3. QED
    BY <1>2 DEF OrderSyncInit, CountInv

(* The steps of a sync.                                                    *)
LEMMA CountUpsert == ASSUME SyncTypes, CountInv, UpsertOrder PROVE CountInv'
  <1>1. /\ run.order \in Orders /\ hooks' = hooks
        /\ WriteRow(run.order, run.seen, run.version)
        /\ run.stage = "write" /\ run' = [run EXCEPT !.stage = "changes"]
        /\ run \in RunStates
    BY DEF UpsertOrder, SyncTypes, RunTyped
  <1>2. /\ run'.stage = "changes" /\ run'.order = run.order
        /\ run'.seen = run.seen /\ run'.version = run.version
    BY <1>1 DEF RunStates
  <1>3. /\ \A o : Owed(o)' = Owed(o) /\ SyncOwes(o) = 0
        /\ \A o : SyncOwes(o)' = IF o = run.order /\ Counts(run.seen, run.version)
                                 THEN 1 ELSE 0
    BY <1>1, <1>2 DEF Owed, SyncOwes
  <1>4. \A o \in Orders : mishaps[o] \cap Lost = {} => owing[o] = Cardinality(Owed(o))
    BY <1>3, OwedFinite DEF CountInv
  <1>5. QED
    <2>1. ASSUME NEW o \in Orders, mishaps'[o] \cap Lost = {}
          PROVE  owing'[o] = Cardinality(Owed(o)') + SyncOwes(o)'
      BY <1>1, <1>3, <1>4, <2>1, WriteCounts, OwedFinite
    <2>2. QED
      BY <2>1 DEF CountInv

LEMMA CountDetect == ASSUME SyncTypes, CountInv, DetectChanges PROVE CountInv'
  <1>1. /\ hooks' = hooks /\ owing' = owing /\ run \in RunStates
        /\ run.stage = "changes" /\ run' = [run EXCEPT !.stage = "count"]
        /\ mishaps \in [Orders -> SUBSET {"raced", "uncounted", "missed"}]
    BY DEF DetectChanges, SyncTypes, RunTyped, HistoryTyped
  <1>2. \A o : Owed(o)' = Owed(o) /\ SyncOwes(o)' = SyncOwes(o)
    BY <1>1 DEF Owed, SyncOwes, RunStates
  <1>3. \A o \in Orders : mishaps'[o] \cap Lost = mishaps[o] \cap Lost
    BY <1>1 DEF DetectChanges, Befalls, Lost
  <1>4. QED
    BY <1>1, <1>2, <1>3 DEF CountInv

LEMMA CountCount == ASSUME SyncTypes, CountInv, CountOrder PROVE CountInv'
  <1> DEFINE p == run.order
             counts == Counts(run.seen, run.version)
             n == IF counts THEN -1 ELSE 0
  <1>1. /\ p \in Orders /\ hooks' = hooks /\ Owes(p, n) /\ n \in Int
        /\ run.stage = "count" /\ run' = [run EXCEPT !.stage = "end"]
        /\ run \in RunStates
        /\ mishaps' \in {mishaps} \cup
               IF counts THEN {Befalls({p}, "uncounted")} ELSE {}
    BY DEF CountOrder, SyncTypes, RunTyped
  <1>2. run'.stage = "end"
    BY <1>1 DEF RunStates
  <1>3. /\ \A o : Owed(o)' = Owed(o) /\ SyncOwes(o)' = 0
        /\ \A o : SyncOwes(o) = IF o = p THEN 0 - n ELSE 0
    BY <1>1, <1>2 DEF Owed, SyncOwes
  <1>4. /\ owing'[p] = IF mishaps'[p] \cap Lost = {} THEN owing[p] + n ELSE 0
        /\ \A k \in Orders \ {p} : owing'[k] = owing[k]
    BY <1>1, OwesTyped DEF Lost
  <1>5. /\ mishaps'[p] \cap Lost = {} => mishaps' = mishaps
        /\ \A k \in Orders \ {p} : mishaps'[k] = mishaps[k]
    <2>1. "uncounted" \in Befalls({p}, "uncounted")[p]
      BY <1>1 DEF Befalls
    <2>2. \A k \in Orders \ {p} : Befalls({p}, "uncounted")[k] = mishaps[k]
      BY DEF Befalls
    <2>3. QED
      BY <1>1, <2>1, <2>2 DEF Lost
  <1>6. owing \in [Orders -> Int]
    BY DEF SyncTypes, HistoryTyped
  <1> HIDE DEF p, n, counts
  <1>7. ASSUME NEW o \in Orders, mishaps'[o] \cap Lost = {}
        PROVE  owing'[o] = Cardinality(Owed(o)') + SyncOwes(o)'
    <2>1. mishaps[o] = mishaps'[o]
      BY <1>5, <1>7
    <2>2. owing[o] = Cardinality(Owed(o)) + SyncOwes(o)
      BY <1>7, <2>1 DEF CountInv
    <2>3. QED
      BY <1>1, <1>3, <1>4, <1>6, <1>7, <2>2, OwedFinite
  <1>8. QED
    BY <1>7 DEF CountInv

LEMMA CountSyncFails == ASSUME SyncTypes, CountInv, SyncFails PROVE CountInv'
  <1>1. /\ hooks' = hooks /\ run' = NoRun /\ mishaps' = Undone
        /\ NoRun.stage = "idle" /\ run.order \in Nat
        /\ owing \in [Orders -> Int] /\ DOMAIN mishaps = Orders
    BY NothingTyped DEF SyncFails, SyncTypes, RunTyped, RunStates, HistoryTyped
  <1>2. \A o : Owed(o)' = Owed(o) /\ SyncOwes(o)' = 0
    BY <1>1 DEF Owed, SyncOwes
  <1>3. \A o \in Orders : mishaps'[o] \cap Lost = {} =>
            mishaps[o] \cap Lost = {} /\ SyncOwes(o) = 0
    BY <1>1 DEF Undone, SyncOwes, Lost
  <1>4. \A o \in Orders : mishaps'[o] \cap Lost = {} => owing'[o] = owing[o]
    BY <1>1 DEF SyncFails, Owes, Lost
  <1>5. QED
    BY <1>2, <1>3, <1>4, OwedFinite DEF CountInv

LEMMA CountCrash == ASSUME SyncTypes, CountInv, Crash PROVE CountInv'
  <1>1. /\ hooks' = [h \in Hooks |-> NoHook] /\ run' = NoRun
        /\ NoRun.stage = "idle" /\ NoHook.stage = "idle"
        /\ DOMAIN mishaps = Orders
    BY NothingTyped DEF Crash, SyncTypes, HistoryTyped
  <1>2. \A o : Owed(o)' = {} /\ SyncOwes(o)' = 0
    BY <1>1 DEF Owed, SyncOwes
  <1>3. ASSUME NEW o \in Orders, mishaps'[o] \cap Lost = {}
        PROVE  /\ mishaps[o] \cap Lost = {} /\ SyncOwes(o) = 0 /\ Owed(o) = {}
               /\ owing'[o] = owing[o]
    <2>1. /\ Undone[o] \subseteq mishaps'[o]
          /\ o \in {hooks[h].id.order : h \in {g \in Hooks : hooks[g].stage = "count"}}
                 => "uncounted" \in mishaps'[o]
      BY DEF Crash
    <2>2. "uncounted" \notin mishaps'[o] /\ Undone[o] \cap Lost = {}
      BY <1>3, <2>1 DEF Lost
    <2>3. mishaps[o] \cap Lost = {} /\ SyncOwes(o) = 0
      BY <1>1, <2>2 DEF Undone, SyncOwes, Lost
    <2>4. Owed(o) = {}
      BY <2>1, <2>2 DEF Owed
    <2>5. owing'[o] = owing[o]
      BY <2>2 DEF Crash
    <2>6. QED
      BY <2>3, <2>4, <2>5
  <1>4. QED
    BY <1>2, <1>3, FS_EmptySet DEF CountInv

(* The steps of a webhook call.                                            *)
LEMMA CountHookWrite ==
    ASSUME SyncTypes, CountInv, NEW h \in Hooks, UpsertCurrentOrder(h)
    PROVE  CountInv'
  <1> DEFINE w == hooks[h]
             p == w.id.order
             applies == NotOlder(w.seen, w.version) /\ w.id \notin receipts
             counts == applies /\ Counts(w.seen, w.version)
  <1>1. /\ w.stage = "write" /\ p \in Orders /\ run' = run
        /\ w \in HookStates /\ NoHook.stage = "idle"
        /\ \/ applies /\ WriteRow(p, w.seen, w.version)
           \/ ~applies /\ UNCHANGED <<rows, owing, mishaps>>
        /\ hooks' = [hooks EXCEPT ![h] =
               IF counts THEN [w EXCEPT !.stage = "count"] ELSE NoHook]
    BY NothingTyped DEF UpsertCurrentOrder, SyncTypes, HooksTyped
  <1>2. /\ [w EXCEPT !.stage = "count"].stage = "count"
        /\ [w EXCEPT !.stage = "count"].id.order = p
    BY <1>1 DEF HookStates
  <1>3. \A o : Cardinality(Owed(o)') = Cardinality(Owed(o))
                   + IF counts /\ o = p THEN 1 ELSE 0
    <2>1. CASE counts
      <3> DEFINE now == [w EXCEPT !.stage = "count"]
      <3>1. hooks' = [hooks EXCEPT ![h] = now] /\ now.stage = "count" /\ now.id.order = p
        BY <1>1, <1>2, <2>1
      <3> HIDE DEF now
      <3>2. hooks[h].stage # "count"
        BY <1>1
      <3>3. \A o : Cardinality(Owed(o)') = Cardinality(Owed(o))
                       + IF o = now.id.order THEN 1 ELSE 0
        BY <3>1, <3>2, HookMoves
      <3>4. QED
        BY <2>1, <3>1, <3>3
    <2>2. CASE ~counts
      <3>1. hooks' = [hooks EXCEPT ![h] = NoHook]
        BY <1>1, <2>2
      <3>2. \A o : Owed(o)' = Owed(o)
        BY <1>1, <3>1, HookMoves
      <3>3. QED
        BY <2>2, <3>2, OwedFinite
    <2>3. QED
      BY <2>1, <2>2
  <1>4. \A o : SyncOwes(o)' = SyncOwes(o) /\ SyncOwes(o) \in Nat
    BY <1>1 DEF SyncOwes
  <1>5. \A k \in Orders \ {p} : owing'[k] = owing[k] /\ mishaps'[k] = mishaps[k]
    BY <1>1, WriteCounts
  <1>6. mishaps'[p] \cap Lost = {} =>
            /\ mishaps[p] \cap Lost = {}
            /\ owing'[p] = owing[p] + IF counts THEN 1 ELSE 0
    <2>1. CASE applies
      BY <1>1, <2>1, WriteCounts
    <2>2. CASE ~applies
      BY <1>1, <2>2 DEF SyncTypes, HistoryTyped
    <2>3. QED
      BY <2>1, <2>2
  <1>7. p \in Orders
    BY <1>1
  <1> HIDE DEF p, w, counts, applies
  <1>8. ASSUME NEW o \in Orders, mishaps'[o] \cap Lost = {}
        PROVE  owing'[o] = Cardinality(Owed(o)') + SyncOwes(o)'
    <2>1. mishaps[o] \cap Lost = {}
      BY <1>5, <1>6, <1>8
    <2>2. owing[o] = Cardinality(Owed(o)) + SyncOwes(o)
      BY <2>1 DEF CountInv
    <2>3. QED
      BY <1>3, <1>4, <1>5, <1>6, <1>8, <2>2, OwedFinite
  <1>9. QED
    BY <1>8 DEF CountInv

LEMMA CountHookCount ==
    ASSUME SyncTypes, CountInv, NEW h \in Hooks, CountFromHook(h)
    PROVE  CountInv'
  <1> DEFINE p == hooks[h].id.order
  <1>1. /\ hooks[h].stage = "count" /\ p \in Orders /\ run' = run
        /\ hooks' = [hooks EXCEPT ![h] = NoHook] /\ NoHook.stage # "count"
        /\ mishaps' \in {mishaps, Befalls({p}, "uncounted")} /\ Owes(p, -1)
    BY NothingTyped DEF CountFromHook, SyncTypes, HooksTyped
  <1>2. \A o : Cardinality(Owed(o)') = Cardinality(Owed(o)) - IF o = p THEN 1 ELSE 0
    BY <1>1, HookMoves
  <1>3. /\ owing'[p] = IF mishaps'[p] \cap Lost = {} THEN owing[p] - 1 ELSE 0
        /\ \A k \in Orders \ {p} : owing'[k] = owing[k]
    <2>1. -1 \in Int /\ owing \in [Orders -> Int]
      BY DEF SyncTypes, HistoryTyped
    <2>2. owing'[p] = (IF mishaps'[p] \cap Lost = {} THEN owing[p] + (-1) ELSE 0)
          /\ \A k \in Orders \ {p} : owing'[k] = owing[k]
      BY <1>1, <2>1, OwesTyped DEF Lost
    <2>3. QED
      BY <1>1, <2>1, <2>2
  <1>4. \A o \in Orders : mishaps'[o] \cap Lost = {} => mishaps[o] \cap Lost = {}
    <2>1. mishaps' = mishaps \/ mishaps' = Befalls({p}, "uncounted")
      BY <1>1
    <2>2. \A o \in Orders : mishaps[o] \subseteq Befalls({p}, "uncounted")[o]
      BY DEF Befalls
    <2>3. QED
      BY <2>1, <2>2
  <1>5. \A o : SyncOwes(o)' = SyncOwes(o) /\ SyncOwes(o) \in Nat
    BY <1>1 DEF SyncOwes
  <1>6. p \in Orders
    BY <1>1
  <1> HIDE DEF p
  <1>7. ASSUME NEW o \in Orders, mishaps'[o] \cap Lost = {}
        PROVE  owing'[o] = Cardinality(Owed(o)') + SyncOwes(o)'
    <2>1. owing[o] = Cardinality(Owed(o)) + SyncOwes(o)
      BY <1>4, <1>7 DEF CountInv
    <2>2. QED
      BY <1>2, <1>3, <1>5, <1>6, <1>7, <2>1, OwedFinite
  <1>8. QED
    BY <1>7 DEF CountInv

LEMMA CountHookOther ==
    ASSUME SyncTypes, CountInv, NEW h \in Hooks,
           (\E d \in deliveries : ReceiveWebhook(h, d)) \/ RemoveGone(h) \/ ReadStored(h)
    PROVE  CountInv'
  <1>1. UNCHANGED <<run, owing, mishaps>>
    BY DEF ReceiveWebhook, RemoveGone, ReadStored
  <1>2. PICK now : /\ hooks' = [hooks EXCEPT ![h] = now]
                   /\ hooks[h].stage # "count" /\ now.stage # "count"
    <2>1. CASE \E d \in deliveries : ReceiveWebhook(h, d)
      BY <2>1 DEF ReceiveWebhook
    <2>2. CASE RemoveGone(h)
      BY <2>2, NothingTyped DEF RemoveGone
    <2>3. CASE ReadStored(h)
      <3> DEFINE now == [hooks[h] EXCEPT !.stage = "write",
                                         !.seen = rows[hooks[h].id.order]]
      <3>1. hooks \in [Hooks -> HookStates]
        BY DEF SyncTypes, HooksTyped
      <3>2. now.stage = "write" /\ hooks[h].stage = "fetched"
        BY <2>3, <3>1 DEF ReadStored, HookStates
      <3>3. hooks' = [hooks EXCEPT ![h] = now]
        BY <2>3, <3>1 DEF ReadStored
      <3>4. QED
        BY <3>2, <3>3
    <2>4. QED
      BY <2>1, <2>2, <2>3
  <1>3. \A o : Owed(o)' = Owed(o) /\ SyncOwes(o)' = SyncOwes(o)
    <2>1. \A o : Owed(o)' = Owed(o)
      BY <1>2, HookMoves
    <2>2. QED
      BY <1>1, <2>1 DEF SyncOwes
  <1>4. QED
    BY <1>1, <1>3 DEF CountInv

LEMMA CountNext ==
    ASSUME SyncTypes, CountInv, [OrderSyncNext]_vars PROVE CountInv'
  <1>1. CASE /\ UNCHANGED <<hooks, owing>>
             /\ \A o \in Orders : mishaps'[o] \cap Lost = mishaps[o] \cap Lost
             /\ run' = run \/ (/\ run.stage \notin {"changes", "count"}
                               /\ run'.stage \notin {"changes", "count"})
    <2>1. \A o : Owed(o)' = Owed(o) /\ SyncOwes(o)' = SyncOwes(o)
      BY <1>1 DEF Owed, SyncOwes
    <2>2. QED
      BY <1>1, <2>1 DEF CountInv
  <1>2. ASSUME NEW c \in Callers, StartSync(c) PROVE CountInv'
    <2>1. run.stage = "idle" /\ run'.stage = "fetch" /\ UNCHANGED <<hooks, owing, mishaps>>
      BY <1>2 DEF StartSync, NoRun
    <2>2. QED
      BY <1>1, <2>1
  <1>3. CASE FetchPage \/ ReadExisting \/ EndPage
    <2>1. run \in RunStates /\ NoRun.stage = "idle"
      BY NothingTyped DEF SyncTypes, RunTyped
    <2>2. UNCHANGED <<hooks, owing, mishaps>>
      BY <1>3 DEF FetchPage, ReadExisting, EndPage
    <2>3. /\ run.stage \notin {"changes", "count"}
          /\ run'.stage \notin {"changes", "count"}
      BY <1>3, <2>1 DEF FetchPage, ReadExisting, EndPage, RunStates
    <2>4. QED
      BY <1>1, <2>2, <2>3
  <1>4. ASSUME NEW o \in Orders, BookingFails(o) PROVE CountInv'
    <2>1. \A k \in Orders : mishaps'[k] \cap Lost = mishaps[k] \cap Lost
      BY <1>4 DEF BookingFails, Befalls, Lost
    <2>2. UNCHANGED <<hooks, owing, run>>
      BY <1>4 DEF BookingFails
    <2>3. QED
      BY <1>1, <2>1, <2>2
  <1>5. CASE UNCHANGED <<hooks, owing, mishaps, run>>
    BY <1>1, <1>5
  <1>6. QED
    BY <1>2, <1>3, <1>4, <1>5, CountUpsert, CountDetect, CountCount,
       CountSyncFails, CountCrash, CountHookWrite, CountHookCount, CountHookOther
    DEF OrderSyncNext, vars, outside, BookOutcome, ViewTimeline,
        backfillSyntheticEvents, ReadConnection, JoinRunning, PlatformUpdate,
        TimePasses, DeleteOrder

(* Every order that appears or turns cancelled is counted once, whatever   *)
(* syncs, webhooks and crashes come in between: what is owed is what some  *)
(* caller has still to count (recordNewOrder and recordCancellation).      *)
THEOREM SyncCountedOnce == OrderSyncSpec => []CountedOnce
  <1>1. OrderSyncInit => SyncTypes /\ CountInv
    BY SyncInitTypes, CountInit
  <1>2. SyncTypes /\ CountInv /\ [OrderSyncNext]_vars => (SyncTypes /\ CountInv)'
    BY SyncTypesNext, CountNext
  <1>3. SyncTypes /\ CountInv => CountedOnce
    <2> SUFFICES ASSUME SyncTypes, CountInv, NEW o \in Orders,
                        ~(run.order = o /\ run.stage \in {"changes", "count"}),
                        \A h \in Hooks : ~(hooks[h].id.order = o
                                           /\ hooks[h].stage = "count"),
                        mishaps[o] \cap {"raced", "uncounted"} = {}
                 PROVE  owing[o] = 0
      BY DEF CountedOnce
    <2>1. Owed(o) = {} /\ SyncOwes(o) = 0
      BY DEF Owed, SyncOwes
    <2>2. QED
      BY <2>1, FS_EmptySet DEF CountInv, Lost
  <1>4. QED
    BY <1>1, <1>2, <1>3, PTL DEF OrderSyncSpec

-----------------------------------------------------------------------------
(* OutcomeFollowsPlatform.  On YouCan only the sync writes orders, and the *)
(* versions it writes grow; the timeline tells of nothing later than the   *)
(* stored order; and unless a transition was missed, the event that tells  *)
(* of the stored state is the last one.                                    *)
YouCanHere == shop.platform = "YOUCAN"
Earlier(a, b) == a.at < b.at \/ a = b
Within(g, v) == g.at < v.at \/ (g.at = v.at /\ g.state = v.state)

Alone ==
    /\ shop \in Shops
    /\ YouCanHere => \A h \in Hooks : hooks[h].stage = "idle"
Chain ==
    /\ \A o \in Orders : Earlier(rows[o], remote[o])
    /\ run.stage \in {"read", "write"} =>
           /\ Earlier(run.version, remote[run.order])
           /\ Earlier(rows[run.order], run.version)
    /\ run.stage = "write" => run.seen = rows[run.order]
    /\ run.stage = "changes" => run.version = rows[run.order]
    /\ \A o \in Orders : viewing.order = o => Earlier(viewing.version, rows[o])
Told == \A o \in Orders : \A g \in Relevant(events[o]) : Within(g, rows[o])

(* The state of o that the timeline has been shown.                        *)
Shown(o) ==
    IF run.stage = "changes" /\ run.order = o THEN run.seen.state ELSE rows[o].state
Tops(o, e) ==
    /\ \A g \in Relevant(events[o]) : Within(g, e)
    /\ viewing.order = o => Within(viewing.version, e)
LastTold ==
    \A o \in Orders :
        "missed" \notin mishaps[o] /\ Shown(o) \in States \ {"OPEN"}
        => \E e \in events[o] : e.state = Shown(o) /\ Tops(o, e)
LastBooked ==
    \A o \in Orders :
        /\ "missed" \notin mishaps[o] /\ o \notin due
        /\ Relevant(events[o]) # {}
        => booked[o] \in deriveTerminalOutcome(events[o])

OutcomeInv ==
    /\ Alone
    /\ YouCanHere => Chain /\ Told /\ LastTold /\ LastBooked

LEMMA OutcomeInit == ASSUME OrderSyncInit PROVE OutcomeInv
  <1>1. Alone
    BY NothingTyped DEF OrderSyncInit, Alone
  <1>2. Chain
    BY NothingTyped, OrdersPositive DEF OrderSyncInit, Chain, Earlier
  <1>3. Told /\ LastTold /\ LastBooked
    <2>1. \A o \in Orders : Relevant(events[o]) = {} /\ Shown(o) = "NONE"
      BY NothingTyped DEF OrderSyncInit, Relevant, Shown, None
    <2>2. QED
      BY <2>1 DEF Told, LastTold, LastBooked, States
  <1>4. QED
    BY <1>1, <1>2, <1>3 DEF OutcomeInv

LEMMA AloneNext == ASSUME SyncTypes, Alone, [OrderSyncNext]_vars PROVE Alone'
  <1>1. shop' = shop
    BY DEF OrderSyncNext, vars, outside, BookOutcome, BookingFails, ViewTimeline,
        backfillSyntheticEvents, ReadConnection, JoinRunning, StartSync,
        PlatformUpdate, TimePasses, FetchPage, ReadExisting, UpsertOrder,
        DetectChanges, CountOrder, EndPage, SyncFails, Crash, DeleteOrder,
        ReceiveWebhook, RemoveGone, ReadStored, UpsertCurrentOrder, CountFromHook
  <1>2. ASSUME YouCanHere PROVE \A h \in Hooks : hooks'[h].stage = "idle"
    <2>1. ~shop.hooked
      BY <1>2, ShopsAssumption DEF ShopsAssumption, Alone, YouCanHere
    <2>2. /\ hooks' = hooks \/ hooks' = [h \in Hooks |-> NoHook]
          /\ NoHook.stage = "idle"
      BY <1>2, <2>1, NothingTyped
      DEF Alone, OrderSyncNext, vars, outside, BookOutcome, BookingFails, ViewTimeline,
        backfillSyntheticEvents, ReadConnection, JoinRunning, StartSync,
        PlatformUpdate, TimePasses, FetchPage, ReadExisting, UpsertOrder,
        DetectChanges, CountOrder, EndPage, SyncFails, Crash, DeleteOrder,
        ReceiveWebhook, RemoveGone, ReadStored, UpsertCurrentOrder, CountFromHook
    <2>3. QED
      BY <1>2, <2>2 DEF Alone
  <1>3. QED
    BY <1>1, <1>2 DEF Alone, YouCanHere

(* What a step may be while YouCan sends no webhooks.                      *)
LEMMA YouCanSteps ==
    ASSUME SyncTypes, Alone, YouCanHere, [OrderSyncNext]_vars
    PROVE  \/ \E o \in Orders, s \in States \cup {"DELETED"} : PlatformUpdate(o, s)
           \/ \E o \in Orders : BookOutcome(o) \/ BookingFails(o) \/ ViewTimeline(o)
           \/ backfillSyntheticEvents
           \/ \E c \in Callers : StartSync(c)
           \/ FetchPage \/ ReadExisting \/ UpsertOrder \/ DetectChanges
           \/ CountOrder \/ EndPage \/ SyncFails \/ Crash
           \/ UNCHANGED <<remote, rows, run, events, due, booked, viewing, mishaps>>
  <1>1. ~shop.hooked
    BY ShopsAssumption DEF ShopsAssumption, Alone, YouCanHere
  <1>2. QED
    BY <1>1 DEF Alone, OrderSyncNext, vars, outside, timeline, ReadConnection,
        JoinRunning, TimePasses, DeleteOrder, ReceiveWebhook, RemoveGone,
        ReadStored, UpsertCurrentOrder, CountFromHook

LEMMA ChainNext ==
    ASSUME SyncTypes, Alone, YouCanHere, Chain, [OrderSyncNext]_vars
    PROVE  Chain'
  <1>1. /\ rows \in [Orders -> Version] /\ remote \in [Orders -> Version]
        /\ run \in RunStates /\ viewing \in [order : Nat, version : Version]
        /\ run.stage \in {"read", "write", "changes", "count"} => run.order \in Orders
        /\ \A v \in Version : v.at \in Nat
        /\ NoRun.stage = "idle" /\ NoView.order = 0 /\ 0 \notin Orders
    BY NothingTyped, OrdersPositive
    DEF SyncTypes, OutsideTyped, RunTyped, RowsTyped, TimelineTyped, Version
  <1>2. ASSUME NEW o \in Orders, NEW s \in States \cup {"DELETED"}, PlatformUpdate(o, s)
        PROVE  Chain'
    <2>1. UNCHANGED <<rows, run, viewing>>
      BY <1>2 DEF PlatformUpdate, timeline
    <2>2. ASSUME NEW v \in Version, NEW p \in Orders, Earlier(v, remote[p])
          PROVE  Earlier(v, remote'[p])
      <3>1. PICK t \in {clock, clock + 1} :
                t > remote[o].at /\ remote' = [remote EXCEPT ![o] = [state |-> s, at |-> t]]
        BY <1>2 DEF PlatformUpdate
      <3>2. clock \in Nat /\ v.at \in Nat /\ remote[p].at \in Nat
        BY <1>1 DEF SyncTypes, OutsideTyped
      <3>3. remote'[p] = IF p = o THEN [state |-> s, at |-> t] ELSE remote[p]
        BY <1>1, <3>1
      <3>4. QED
        BY <2>2, <3>1, <3>2, <3>3 DEF Earlier
    <2>3. run.version \in Version
      BY <1>1 DEF RunStates
    <2>4. QED
      BY <1>1, <2>1, <2>2, <2>3 DEF Chain
  <1>3. CASE /\ UNCHANGED <<remote, rows>>
             /\ viewing' = viewing \/ viewing' = NoView
             /\ run' = run \/ run'.stage \notin {"read", "write", "changes"}
    BY <1>1, <1>3 DEF Chain
  <1>4. ASSUME NEW o \in Orders, ViewTimeline(o) PROVE Chain'
    <2>1. UNCHANGED <<remote, rows, run>> /\ viewing' = [order |-> o, version |-> rows[o]]
      BY <1>4 DEF ViewTimeline, outside
    <2>2. QED
      BY <2>1 DEF Chain, Earlier
  <1>5. CASE FetchPage
    <2>1. UNCHANGED <<remote, rows, viewing>>
      BY <1>5 DEF FetchPage, outside, timeline
    <2>2. CASE run' = [run EXCEPT !.stage = "end", !.order = 0, !.more = FALSE]
      <3>1. run'.stage = "end"
        BY <1>1, <2>2 DEF RunStates
      <3>2. QED
        BY <1>3, <2>1, <3>1
    <2>3. ASSUME NEW o \in Orders, NEW more,
                 run' = [run EXCEPT !.stage = "read", !.order = o,
                                    !.version = remote[o], !.more = more]
          PROVE  Chain'
      <3>1. run'.stage = "read" /\ run'.order = o /\ run'.version = remote[o]
        BY <1>1, <2>3 DEF RunStates
      <3>2. QED
        BY <2>1, <3>1 DEF Chain, Earlier
    <2>4. QED
      BY <1>5, <2>2, <2>3 DEF FetchPage
  <1>6. CASE ReadExisting
    <2>1. UNCHANGED <<remote, rows, viewing>>
      BY <1>6 DEF ReadExisting, outside, timeline
    <2>2. /\ run.stage = "read" /\ run'.stage = "write" /\ run'.order = run.order
          /\ run'.version = run.version /\ run'.seen = rows[run.order]
      BY <1>1, <1>6 DEF ReadExisting, RunStates
    <2>3. QED
      BY <2>1, <2>2 DEF Chain
  <1>7. CASE UpsertOrder
    <2>1. /\ UNCHANGED <<remote, viewing>> /\ run.stage = "write"
          /\ rows' = [rows EXCEPT ![run.order] = run.version]
      BY <1>7 DEF UpsertOrder, WriteRow, outside, timeline
    <2>2. /\ run'.stage = "changes" /\ run'.order = run.order
          /\ run'.version = run.version /\ run.version \in Version
      BY <1>1, <1>7 DEF UpsertOrder, RunStates
    <2>3. \A o \in Orders : rows'[o] = IF o = run.order THEN run.version ELSE rows[o]
      BY <1>1, <2>1
    <2>4. \A o \in Orders : Earlier(rows'[o], remote'[o]) /\ Earlier(rows[o], rows'[o])
      BY <2>1, <2>3 DEF Chain, Earlier
    <2>5. ASSUME NEW o \in Orders, viewing.order = o
          PROVE  Earlier(viewing.version, rows'[o])
      <3>1. /\ viewing.version.at \in Nat /\ rows[o].at \in Nat /\ rows'[o].at \in Nat
        BY <1>1, <2>2, <2>3
      <3>2. Earlier(viewing.version, rows[o]) /\ Earlier(rows[o], rows'[o])
        BY <2>4, <2>5 DEF Chain
      <3>3. QED
        BY <3>1, <3>2 DEF Earlier
    <2>6. rows'[run.order] = run.version
      BY <1>1, <2>1, <2>3
    <2>7. QED
      BY <2>1, <2>2, <2>4, <2>5, <2>6 DEF Chain
  <1>8. CASE \/ \E c \in Callers : StartSync(c)
             \/ DetectChanges \/ CountOrder \/ EndPage \/ SyncFails \/ Crash
    <2>1. run'.stage \notin {"read", "write", "changes"}
      BY ZenonT(30), <1>1, <1>8
      DEF StartSync, DetectChanges, CountOrder, EndPage, SyncFails,
         Crash, NoRun, RunStates
    <2>2. UNCHANGED <<remote, rows>> /\ (viewing' = viewing \/ viewing' = NoView)
      BY <1>8 DEF StartSync, DetectChanges, CountOrder, EndPage, SyncFails,
         Crash, outside, timeline
    <2>3. QED
      BY <1>3, <2>1, <2>2
  <1>9. CASE \/ \E o \in Orders : BookOutcome(o) \/ BookingFails(o)
             \/ backfillSyntheticEvents
             \/ UNCHANGED <<remote, rows, run, events, due, booked, viewing, mishaps>>
    BY <1>3, <1>9 DEF BookOutcome, BookingFails, backfillSyntheticEvents, outside
  <1>10. QED
    BY <1>2, <1>4, <1>5, <1>6, <1>7, <1>8, <1>9, YouCanSteps

LEMMA EarlierWithin ==
    ASSUME NEW g \in [key : Names \X Names, state : States, at : Nat],
           NEW v \in Version, NEW w \in Version, Within(g, v), Earlier(v, w)
    PROVE  Within(g, w)
  BY DEF Within, Earlier, Version

(* What upsertEvents leaves in the timeline of an order.                   *)
LEMMA UpsertLeaves ==
    ASSUME SyncTypes, NEW o \in Orders, NEW new, upsertEvents(o, new)
    PROVE  /\ \A k \in Orders \ {o} : events'[k] = events[k]
           /\ events[o] \subseteq events'[o]
           /\ \A e \in events'[o] : e \in events[o] \/ e \in new
           /\ \A e \in new : (\A old \in events[o] : old.key # e.key)
                             => e \in events'[o]
  BY DEF SyncTypes, TimelineTyped, upsertEvents

(* The events that a row tells of.                                         *)
LEMMA BackfillLeaves ==
    ASSUME SyncTypes, backfillSyntheticEvents
    PROVE  /\ viewing.order \in Orders
           /\ \A k \in Orders \ {viewing.order} : events'[k] = events[k]
           /\ events[viewing.order] \subseteq events'[viewing.order]
           /\ \A g \in Relevant(events'[viewing.order]) :
                  \/ g \in Relevant(events[viewing.order])
                  \/ g.state = viewing.version.state /\ g.at = viewing.version.at
           /\ due' = due \cup {viewing.order} /\ viewing' = NoView
           /\ UNCHANGED <<rows, run, booked, mishaps>>
  <1> DEFINE v == viewing.version
             o == viewing.order
             new == {[key |-> <<"SYSTEM", "OPEN">>, state |-> "OPEN", at |-> 1]}
                        \cup {[key |-> <<"SYSTEM", s>>, state |-> s, at |-> v.at] :
                                  s \in {v.state} \cap {"CANCELLED"}}
  <1>1. /\ o \in Orders /\ upsertEvents(o, new)
        /\ due' = due \cup {o} /\ viewing' = NoView
        /\ UNCHANGED <<rows, run, booked, mishaps>>
    BY DEF backfillSyntheticEvents, SyncTypes, TimelineTyped
  <1>2. \A e \in new : e.state = "OPEN" \/ (e.state = v.state /\ e.at = v.at)
    OBVIOUS
  <1> HIDE DEF new
  <1>3. QED
    BY <1>1, <1>2, UpsertLeaves DEF Relevant

(* The event of a transition that is new to the timeline.                  *)
LEMMA DetectLeaves ==
    ASSUME SyncTypes, YouCanHere, DetectChanges
    PROVE  /\ run.order \in Orders /\ run.stage = "changes"
           /\ run'.stage = "count" /\ run'.order = run.order
           /\ UNCHANGED <<rows, booked, viewing>>
           /\ \A k \in Orders \ {run.order} :
                  events'[k] = events[k] /\ mishaps'[k] = mishaps[k]
           /\ \/ /\ UNCHANGED <<events, due>>
                 /\ "missed" \notin mishaps'[run.order] =>
                        /\ "missed" \notin mishaps[run.order]
                        /\ run.seen.state = run.version.state
              \/ /\ due' = due \cup {run.order}
                 /\ \A g \in events'[run.order] :
                        \/ g \in events[run.order]
                        \/ g.state = run.version.state /\ g.at = run.version.at
                 /\ "missed" \notin mishaps'[run.order] =>
                        \E e \in events'[run.order] :
                            e.state = run.version.state /\ e.at = run.version.at
  <1> DEFINE o == run.order
             e == Transition(run.seen, run.version)
             fresh == \A old \in events[o] : old.key # e.key
  <1>1. /\ o \in Orders /\ run.stage = "changes" /\ run \in RunStates
        /\ UNCHANGED <<rows, booked, viewing>> /\ run' = [run EXCEPT !.stage = "count"]
        /\ mishaps \in [Orders -> SUBSET {"raced", "uncounted", "missed"}]
    BY DEF DetectChanges, SyncTypes, RunTyped, HistoryTyped
  <1>2. run'.stage = "count" /\ run'.order = o
    BY <1>1 DEF RunStates
  <1>3. /\ e.state = run.version.state /\ e.at = run.version.at
    BY DEF Transition
  <1>4. \/ /\ run.seen.state # "NONE" /\ run.seen.state # run.version.state
           /\ upsertEvents(o, {e}) /\ due' = due \cup {o}
           /\ mishaps' = IF fresh THEN [mishaps EXCEPT ![o] = @ \ {"missed"}]
                         ELSE Befalls({o}, "missed")
        \/ /\ run.seen.state # "NONE" /\ run.seen.state = run.version.state
           /\ UNCHANGED <<events, due, mishaps>>
        \/ UNCHANGED <<events, due>> /\ mishaps' = Befalls({o}, "missed")
    BY DEF DetectChanges, YouCanHere
  <1>5. /\ "missed" \in Befalls({o}, "missed")[o]
        /\ \A k \in Orders \ {o} : Befalls({o}, "missed")[k] = mishaps[k]
    BY <1>1 DEF Befalls
  <1>6. CASE /\ upsertEvents(o, {e}) /\ due' = due \cup {o}
             /\ mishaps' = IF fresh THEN [mishaps EXCEPT ![o] = @ \ {"missed"}]
                           ELSE Befalls({o}, "missed")
    <2>1. /\ \A k \in Orders \ {o} : events'[k] = events[k]
          /\ \A g \in events'[o] : g \in events[o] \/ g = e
          /\ fresh => e \in events'[o]
      BY <1>1, <1>6, UpsertLeaves
    <2>2. \A k \in Orders \ {o} : mishaps'[k] = mishaps[k]
      BY <1>1, <1>5, <1>6
    <2>3. "missed" \notin mishaps'[o] => fresh
      BY <1>5, <1>6
    <2> HIDE DEF e, fresh
    <2>4. QED
      BY <1>1, <1>2, <1>3, <1>6, <2>1, <2>2, <2>3
  <1>7. CASE /\ run.seen.state = run.version.state /\ UNCHANGED <<events, due, mishaps>>
    BY <1>1, <1>2, <1>7
  <1>8. CASE UNCHANGED <<events, due>> /\ mishaps' = Befalls({o}, "missed")
    BY <1>1, <1>2, <1>5, <1>8
  <1>9. QED
    BY <1>4, <1>6, <1>7, <1>8

LEMMA UpsertWrites ==
    ASSUME SyncTypes, UpsertOrder
    PROVE  /\ run.order \in Orders /\ run.stage = "write"
           /\ run'.stage = "changes" /\ run'.order = run.order /\ run'.seen = run.seen
           /\ \A k \in Orders : rows'[k] = IF k = run.order THEN run.version ELSE rows[k]
           /\ UNCHANGED <<events, due, booked, viewing>>
           /\ \A k \in Orders : "missed" \in mishaps'[k] <=> "missed" \in mishaps[k]
  BY DEF SyncTypes, RunTyped, RunStates, RowsTyped, UpsertOrder, WriteRow, Befalls,
         timeline

LEMMA ToldNext ==
    ASSUME SyncTypes, Alone, YouCanHere, Chain, Told, [OrderSyncNext]_vars
    PROVE  Told'
  <1>1. /\ rows \in [Orders -> Version] /\ run \in RunStates
        /\ events \in [Orders -> SUBSET OrderEvent]
        /\ viewing \in [order : Nat, version : Version]
    BY DEF SyncTypes, RunTyped, RowsTyped, TimelineTyped
  <1>2. CASE UpsertOrder
    <2>1. /\ \A k \in Orders : rows'[k] = IF k = run.order THEN run.version ELSE rows[k]
          /\ events' = events /\ run.version \in Version
          /\ Earlier(rows[run.order], run.version)
      BY <1>1, <1>2, UpsertWrites DEF Chain, RunStates
    <2>2. ASSUME NEW o \in Orders, NEW g \in Relevant(events[o])
          PROVE  Within(g, rows'[o])
      <3>1. g \in [key : Names \X Names, state : States, at : Nat] /\ Within(g, rows[o])
        BY <1>1 DEF Told, Relevant, OrderEvent
      <3>2. Earlier(rows[o], rows'[o]) /\ rows[o] \in Version /\ rows'[o] \in Version
        BY <1>1, <2>1 DEF Earlier
      <3>3. QED
        BY <3>1, <3>2, EarlierWithin
    <2>3. QED
      BY <2>1, <2>2 DEF Told
  <1>3. CASE DetectChanges
    <2>1. /\ rows' = rows /\ run.version = rows[run.order]
          /\ \A o \in Orders : \A g \in events'[o] :
                 g \in events[o] \/ (o = run.order /\ g.state = run.version.state
                                     /\ g.at = run.version.at)
      BY <1>3, DetectLeaves DEF Chain
    <2>2. QED
      BY <2>1 DEF Told, Relevant, Within
  <1>4. CASE backfillSyntheticEvents
    <2>1. /\ rows' = rows /\ Earlier(viewing.version, rows[viewing.order])
          /\ \A o \in Orders : \A g \in Relevant(events'[o]) :
                 g \in Relevant(events[o])
                     \/ (o = viewing.order /\ g.state = viewing.version.state
                         /\ g.at = viewing.version.at)
      BY <1>4, BackfillLeaves DEF Chain
    <2>2. QED
      BY <2>1 DEF Told, Within, Earlier
  <1>5. CASE UNCHANGED <<rows, events>>
    BY <1>5 DEF Told
  <1>6. QED
    BY <1>2, <1>3, <1>4, <1>5, YouCanSteps
    DEF PlatformUpdate, BookOutcome, BookingFails, ViewTimeline, StartSync, FetchPage,
        ReadExisting, CountOrder, EndPage, SyncFails, Crash, outside, timeline

(* A step that leaves the timeline alone.                                  *)
LEMMA UndoneMisses ==
    ASSUME SyncTypes, NEW o \in Orders, "missed" \notin Undone[o]
    PROVE  /\ "missed" \notin mishaps[o]
           /\ ~(run.stage = "changes" /\ run.order = o)
  BY DEF SyncTypes, HistoryTyped, Undone

LEMMA LastToldNext ==
    ASSUME SyncTypes, Alone, YouCanHere, Chain, Told, LastTold, [OrderSyncNext]_vars
    PROVE  LastTold'
  <1>1. /\ run \in RunStates /\ NoRun.stage = "idle"
        /\ NoView.order = 0 /\ 0 \notin Orders
        /\ DOMAIN mishaps = Orders
    BY NothingTyped, OrdersPositive DEF SyncTypes, RunTyped, HistoryTyped
  <1>2. CASE UpsertOrder
    <2>1. \A o \in Orders : Shown(o)' = Shown(o)
      BY <1>2, UpsertWrites DEF Shown, Chain
    <2>2. \A o \in Orders : \A e \in events[o] : Tops(o, e) => Tops(o, e)'
      BY <1>2, UpsertWrites DEF Tops
    <2>3. QED
      BY <1>2, <2>1, <2>2, UpsertWrites DEF LastTold
  <1>3. CASE DetectChanges
    <2> DEFINE p == run.order
    <2>1. /\ p \in Orders /\ run.version = rows[p] /\ Shown(p) = run.seen.state
          /\ Shown(p)' = rows[p].state /\ viewing' = viewing
      BY <1>3, DetectLeaves DEF Chain, Shown
    <2>2. ASSUME NEW o \in Orders \ {p},
                 "missed" \notin mishaps'[o], Shown(o)' \in States \ {"OPEN"}
          PROVE  \E e \in events'[o] : e.state = Shown(o)' /\ Tops(o, e)'
      <3>1. /\ events'[o] = events[o] /\ mishaps'[o] = mishaps[o]
            /\ Shown(o)' = Shown(o)
        BY <1>3, DetectLeaves DEF Shown
      <3>2. PICK e \in events[o] : e.state = Shown(o) /\ Tops(o, e)
        BY <2>2, <3>1 DEF LastTold
      <3>3. Tops(o, e)'
        BY <2>1, <3>1, <3>2 DEF Tops
      <3>4. QED
        BY <3>1, <3>2, <3>3
    <2>3. ASSUME "missed" \notin mishaps'[p], Shown(p)' \in States \ {"OPEN"}
          PROVE  \E e \in events'[p] : e.state = Shown(p)' /\ Tops(p, e)'
      <3>1. CASE /\ events' = events
                 /\ "missed" \notin mishaps[p] /\ run.seen.state = run.version.state
        <4>1. PICK e \in events[p] : e.state = Shown(p) /\ Tops(p, e)
          BY <2>1, <2>3, <3>1 DEF LastTold
        <4>2. Tops(p, e)'
          BY <2>1, <3>1, <4>1, <1>3, DetectLeaves DEF Tops
        <4>3. QED
          BY <2>1, <3>1, <4>1, <4>2
      <3>2. CASE /\ \A g \in events'[p] :
                       \/ g \in events[p]
                       \/ g.state = run.version.state /\ g.at = run.version.at
                 /\ \E e \in events'[p] :
                       e.state = run.version.state /\ e.at = run.version.at
        <4>1. PICK e \in events'[p] :
                  e.state = rows[p].state /\ e.at = rows[p].at
          BY <2>1, <3>2
        <4>2. \A g \in Relevant(events'[p]) : Within(g, e)
          BY <2>1, <3>2, <4>1 DEF Relevant, Told, Within
        <4>3. viewing.order = p => Within(viewing.version, e)
          BY <2>1, <4>1 DEF Chain, Within, Earlier
        <4>4. Tops(p, e)'
          <5>1. run'.order = p
            BY <1>3, DetectLeaves
          <5>2. QED
            BY <2>1, <4>2, <4>3, <5>1 DEF Tops
        <4>5. QED
          BY <2>1, <4>1, <4>4
      <3>3. QED
        BY <1>3, <2>3, <3>1, <3>2, DetectLeaves
    <2>4. QED
      BY <2>2, <2>3, <1>3, DetectLeaves DEF LastTold
  <1>4. CASE backfillSyntheticEvents
    <2>1. \A o \in Orders : Shown(o)' = Shown(o)
      BY <1>4, BackfillLeaves DEF Shown
    <2>2. \A o \in Orders : events[o] \subseteq events'[o]
      BY <1>4, BackfillLeaves
    <2>3. ASSUME NEW o \in Orders, NEW e \in events[o], Tops(o, e)
          PROVE  Tops(o, e)'
      <3>1. viewing'.order \notin Orders
        BY <1>1, <1>4, BackfillLeaves
      <3>2. \A g \in Relevant(events'[o]) : Within(g, e)
        BY <1>4, <2>3, BackfillLeaves DEF Tops, Within
      <3>3. QED
        BY <3>1, <3>2 DEF Tops
    <2>4. QED
      BY <1>4, <2>1, <2>2, <2>3, BackfillLeaves DEF LastTold
  <1>5. ASSUME NEW p \in Orders, ViewTimeline(p) PROVE LastTold'
    <2>1. /\ events[p] = {} /\ viewing' = [order |-> p, version |-> rows[p]]
          /\ UNCHANGED <<rows, run, events, mishaps>>
      BY <1>5 DEF ViewTimeline, outside
    <2>2. \A o \in Orders : Shown(o)' = Shown(o)
      BY <2>1 DEF Shown
    <2>3. \A o \in Orders \ {p} : \A e \in events[o] : Tops(o, e) => Tops(o, e)'
      BY <2>1 DEF Tops
    <2>4. QED
      BY <2>1, <2>2, <2>3 DEF LastTold
  <1>6. CASE /\ events' = events
             /\ viewing' = viewing \/ viewing' = NoView
             /\ \A o \in Orders : "missed" \notin mishaps'[o] =>
                    "missed" \notin mishaps[o] /\ Shown(o)' = Shown(o)
    <2>1. \A o \in Orders : \A e \in events[o] : Tops(o, e) => Tops(o, e)'
      BY <1>1, <1>6 DEF Tops
    <2>2. QED
      BY <1>6, <2>1 DEF LastTold
  <1>7. CASE SyncFails \/ Crash
    <2>1. /\ UNCHANGED <<rows, events>> /\ (viewing' = viewing \/ viewing' = NoView)
          /\ run'.stage = "idle"
      BY <1>1, <1>7 DEF SyncFails, Crash, outside, timeline
    <2>2. \A o \in Orders : Undone[o] \subseteq mishaps'[o]
      BY <1>7 DEF SyncFails, Crash
    <2>3. \A o \in Orders : "missed" \notin mishaps'[o] =>
              "missed" \notin mishaps[o] /\ Shown(o)' = Shown(o)
      BY <2>1, <2>2, UndoneMisses DEF Shown
    <2>4. QED
      BY <1>6, <2>1, <2>3
  <1>8. CASE \/ \E c \in Callers : StartSync(c)
             \/ FetchPage \/ ReadExisting \/ CountOrder \/ EndPage
    <2>1. run.stage # "changes" /\ run'.stage # "changes"
      <3>1. CASE \E c \in Callers : StartSync(c)
        BY <3>1 DEF StartSync, NoRun
      <3>2. CASE FetchPage \/ ReadExisting \/ CountOrder
        BY <1>1, <3>2 DEF FetchPage, ReadExisting, CountOrder, RunStates
      <3>3. CASE EndPage
        BY <1>1, <3>3 DEF EndPage, RunStates
      <3>4. QED
        BY <1>8, <3>1, <3>2, <3>3
    <2>2. UNCHANGED <<rows, events, viewing>>
      BY <1>8 DEF StartSync, FetchPage, ReadExisting, CountOrder, EndPage, timeline,
         outside
    <2>3. \A o \in Orders : mishaps[o] \subseteq mishaps'[o]
      BY <1>8 DEF StartSync, FetchPage, ReadExisting, CountOrder, EndPage, Befalls
    <2>4. \A o \in Orders : Shown(o)' = Shown(o)
      BY <2>1, <2>2 DEF Shown
    <2>5. QED
      BY <1>6, <2>2, <2>3, <2>4
  <1>9. CASE \/ \E o \in Orders, s \in States \cup {"DELETED"} : PlatformUpdate(o, s)
             \/ \E o \in Orders : BookOutcome(o) \/ BookingFails(o)
             \/ UNCHANGED <<remote, rows, run, events, due, booked, viewing, mishaps>>
    <2>1. UNCHANGED <<rows, run, events, viewing>>
      BY <1>9 DEF PlatformUpdate, BookOutcome, BookingFails, outside, timeline
    <2>2. \A o \in Orders : mishaps[o] \subseteq mishaps'[o] /\ Shown(o)' = Shown(o)
      BY <1>9, <2>1 DEF PlatformUpdate, BookOutcome, BookingFails, Befalls, Shown
    <2>3. QED
      BY <1>6, <2>1, <2>2
  <1>10. QED
    BY <1>2, <1>3, <1>4, <1>5, <1>7, <1>8, <1>9, YouCanSteps

LEMMA LastBookedNext ==
    ASSUME SyncTypes, Alone, YouCanHere, LastBooked, [OrderSyncNext]_vars
    PROVE  LastBooked'
  <1>1. /\ due \in SUBSET Orders /\ DOMAIN booked = Orders /\ DOMAIN mishaps = Orders
    BY DEF SyncTypes, TimelineTyped, HistoryTyped
  <1>2. CASE /\ UNCHANGED <<events, booked>>
             /\ \A o \in Orders : "missed" \notin mishaps'[o] /\ o \notin due' =>
                    "missed" \notin mishaps[o] /\ o \notin due
    BY <1>2 DEF LastBooked
  <1>3. CASE DetectChanges
    <2>1. /\ \A o \in Orders \ {run.order} :
                 events'[o] = events[o] /\ mishaps'[o] = mishaps[o]
          /\ due \subseteq due' /\ booked' = booked
          /\ run.order \notin due' => UNCHANGED <<events, due>>
          /\ run.order \notin due' /\ "missed" \notin mishaps'[run.order] =>
                 "missed" \notin mishaps[run.order]
      BY <1>3, DetectLeaves
    <2>2. QED
      BY <2>1 DEF LastBooked
  <1>4. CASE backfillSyntheticEvents
    BY <1>4, BackfillLeaves DEF LastBooked
  <1>5. ASSUME NEW p \in Orders, BookOutcome(p) PROVE LastBooked'
    <2>1. /\ due' = due \ {p} /\ UNCHANGED <<events, mishaps>>
          /\ \A o \in Orders \ {p} : booked'[o] = booked[o]
          /\ Relevant(events[p]) # {} =>
                 booked'[p] \in deriveTerminalOutcome(events[p])
      BY <1>1, <1>5 DEF BookOutcome
    <2>2. QED
      BY <2>1 DEF LastBooked
  <1>6. ASSUME NEW p \in Orders, BookingFails(p) PROVE LastBooked'
    <2>1. /\ due' = due \ {p} /\ UNCHANGED <<events, booked>>
          /\ \A o \in Orders : mishaps[o] \subseteq mishaps'[o]
          /\ "missed" \in mishaps'[p]
      BY <1>6 DEF BookingFails, Befalls
    <2>2. QED
      BY <1>2, <2>1
  <1>7. CASE Crash
    <2>1. /\ UNCHANGED <<events, booked>>
          /\ \A o \in Orders : Undone[o] \subseteq mishaps'[o]
          /\ \A o \in due : "missed" \in mishaps'[o]
      BY <1>1, <1>7 DEF Crash
    <2>2. QED
      BY <1>2, <2>1, UndoneMisses
  <1>8. CASE SyncFails
    <2>1. UNCHANGED <<events, booked, due>> /\ mishaps' = Undone
      BY <1>8 DEF SyncFails, timeline
    <2>2. QED
      BY <1>2, <2>1, UndoneMisses
  <1>9. CASE UpsertOrder
    BY <1>2, <1>9, UpsertWrites
  <1>10. CASE CountOrder
    <2>1. /\ UNCHANGED <<events, booked, due>>
          /\ \A o \in Orders : mishaps[o] \subseteq mishaps'[o]
      BY <1>10 DEF CountOrder, Befalls, timeline
    <2>2. QED
      BY <1>2, <2>1
  <1>11. CASE UNCHANGED <<events, booked, due, mishaps>>
    BY <1>2, <1>11
  <1>12. QED
    BY ZenonT(30), <1>3, <1>4, <1>5, <1>6, <1>7, <1>8, <1>9, <1>10, <1>11, YouCanSteps
    DEF PlatformUpdate, ViewTimeline, StartSync, FetchPage, ReadExisting, EndPage,
        timeline

LEMMA OutcomeNext ==
    ASSUME SyncTypes, OutcomeInv, [OrderSyncNext]_vars PROVE OutcomeInv'
  <1>1. Alone' /\ (YouCanHere' => YouCanHere)
    <2>1. shop' = shop
      BY DEF OrderSyncNext, vars, outside, BookOutcome, BookingFails, ViewTimeline,
        backfillSyntheticEvents, ReadConnection, JoinRunning, StartSync,
        PlatformUpdate, TimePasses, FetchPage, ReadExisting, UpsertOrder,
        DetectChanges, CountOrder, EndPage, SyncFails, Crash, DeleteOrder,
        ReceiveWebhook, RemoveGone, ReadStored, UpsertCurrentOrder, CountFromHook
    <2>2. QED
      BY <2>1, AloneNext DEF OutcomeInv, YouCanHere
  <1>2. QED
    BY <1>1, ChainNext, ToldNext, LastToldNext, LastBookedNext DEF OutcomeInv

(* What is booked with an order nobody dispatched here is the outcome of   *)
(* the state its row shows, once its transitions have been told and booked *)
(* (detectAndStoreChanges, backfillSyntheticEvents, deriveTerminalOutcome).*)
THEOREM SyncOutcomeFollowsPlatform == OrderSyncSpec => []OutcomeFollowsPlatform
  <1>1. OrderSyncInit => SyncTypes /\ OutcomeInv
    BY SyncInitTypes, OutcomeInit
  <1>2. SyncTypes /\ OutcomeInv /\ [OrderSyncNext]_vars => (SyncTypes /\ OutcomeInv)'
    BY SyncTypesNext, OutcomeNext
  <1>3. SyncTypes /\ OutcomeInv => OutcomeFollowsPlatform
    <2> SUFFICES ASSUME SyncTypes, OutcomeInv, NEW o \in Orders, YouCanHere,
                        rows[o].state \in States \ {"OPEN"}, o \notin due,
                        ~(run.order = o /\ run.stage = "changes"),
                        "missed" \notin mishaps[o]
                 PROVE  booked[o] = Outcome(rows[o].state)
      BY DEF OutcomeFollowsPlatform, YouCanHere
    <2>1. PICK e \in events[o] : e.state = rows[o].state /\ Tops(o, e)
      BY DEF OutcomeInv, LastTold, Shown
    <2>2. e \in Relevant(events[o])
      BY <2>1 DEF Relevant
    <2>3. booked[o] \in deriveTerminalOutcome(events[o])
      BY <2>2 DEF OutcomeInv, LastBooked
    <2>4. PICK f \in Relevant(events[o]) :
              /\ booked[o] = Outcome(f.state)
              /\ \A g \in Relevant(events[o]) : g.at <= f.at
      BY <2>3 DEF deriveTerminalOutcome
    <2>5. e.at <= f.at /\ Within(f, e) /\ e.at \in Nat /\ f.at \in Nat
      BY <2>1, <2>2, <2>4 DEF Tops, Relevant, SyncTypes, TimelineTyped, OrderEvent
    <2>6. f.state = e.state
      BY <2>5 DEF Within
    <2>7. QED
      BY <2>1, <2>4, <2>6
  <1>4. QED
    BY <1>1, <1>2, <1>3, PTL DEF OrderSyncSpec

-----------------------------------------------------------------------------
(* NoUpdateSkipped, for one request at a time.  An order is kept up to a   *)
(* time when the platform's last change of it, if earlier, is stored.      *)
Kept(there, here, bad, t) ==
    there.state \in States /\ there.at < t /\ "raced" \notin bad => here = there
Fresh(o, t) == Kept(remote[o], rows[o], mishaps[o], t)

(* What a webhook fetched is no newer than the order; a deleted order stays *)
(* deleted.                                                                *)
Sources ==
    /\ \A h \in Hooks : hooks[h].stage \in {"fetched", "write"} =>
           /\ Earlier(hooks[h].version, remote[hooks[h].id.order])
           /\ hooks[h].version.state = "DELETED" =>
                  remote[hooks[h].id.order].state = "DELETED"
    /\ \A d \in deliveries :
           d.state = "DELETED" => remote[d.order].state = "DELETED"
(* The window in the connection: what the cursor has passed is kept.       *)
ConnKept ==
    /\ 1 <= clock /\ conn.last <= clock /\ conn.from <= conn.last
    /\ \A o \in Orders : Fresh(o, conn.last)
    /\ conn.started = 0 => conn.cursor = 0 /\ run.stage = "idle"
    /\ conn.started # 0 =>
           /\ conn.last <= conn.started /\ conn.started <= clock
           /\ \A o \in Orders : o <= conn.cursor => Fresh(o, conn.started)
(* The sync that runs: what lies before its order, and after its last one. *)
RunKept ==
    /\ run.stage # "idle" => run.started = conn.started /\ run.from = conn.from
    /\ run.stage = "fetch" =>
           \A o \in Orders : o <= run.cursor => Fresh(o, run.started)
    /\ run.stage \in {"read", "write"} =>
           /\ run.version = remote[run.order] \/ run.started <= remote[run.order].at
           /\ \A o \in Orders : o < run.order => Fresh(o, run.started)
    /\ run.stage \in {"changes", "count", "end"} =>
           \A o \in Orders : o <= run.order => Fresh(o, run.started)
    /\ run.stage \in {"read", "write", "changes", "count", "end"} /\ ~run.more =>
           \A o \in Orders : run.order < o => Fresh(o, run.started)
(* A connection that was read: it is as it was, or its window is still the *)
(* last one.                                                               *)
SnapKept(k) ==
    /\ k.started = 0 => k = conn
    /\ k.started # 0 =>
           /\ k.started <= clock /\ k.from <= conn.last /\ conn.last <= k.started
           /\ conn.started \in {0, k.started}
           /\ \A o \in Orders : o <= k.cursor => Fresh(o, k.started)
SnapsKept == \A c \in Callers : snaps[c].taken => SnapKept(snaps[c].conn)

WindowInv == Sources /\ ConnKept /\ RunKept /\ SnapsKept

LEMMA WindowInit == ASSUME OrderSyncInit PROVE WindowInv
  <1>1. /\ deliveries = {} /\ run = NoRun /\ clock = 1
        /\ \A h \in Hooks : hooks[h].stage = "idle"
        /\ \A o \in Orders : remote[o] = None
        /\ conn = [cursor |-> 0, from |-> 0, started |-> 0, last |-> 0]
        /\ \A c \in Callers : ~snaps[c].taken
    BY NothingTyped DEF OrderSyncInit, NoSnap
  <1>2. \A o \in Orders, t \in Nat : Fresh(o, t)
    BY <1>1 DEF Fresh, Kept, None, States
  <1>3. Sources
    BY <1>1 DEF Sources
  <1>4. ConnKept /\ RunKept /\ SnapsKept
    BY <1>1, <1>2, NothingTyped DEF ConnKept, RunKept, SnapsKept
  <1>5. QED
    BY <1>3, <1>4 DEF WindowInv

(* An update is later than everything before it, and none follows a        *)
(* deletion.                                                               *)
LEMMA UpdateIsLater ==
    ASSUME SyncTypes, NEW o \in Orders, NEW s \in States \cup {"DELETED"},
           PlatformUpdate(o, s)
    PROVE  /\ \A p \in Orders \ {o} : remote'[p] = remote[p]
           /\ remote[o].at < remote'[o].at /\ clock <= remote'[o].at
           /\ remote'[o].state = s /\ remote[o].state # "DELETED"
           /\ clock <= clock'
           /\ deliveries' = deliveries \cup {[order |-> o, state |-> s,
                                              at |-> remote'[o].at]}
  <1>1. PICK t \in {clock, clock + 1} :
            /\ t > remote[o].at /\ remote[o].state # "DELETED" /\ clock' = t
            /\ remote' = [remote EXCEPT ![o] = [state |-> s, at |-> t]]
            /\ deliveries' = deliveries \cup {[order |-> o, state |-> s, at |-> t]}
    BY DEF PlatformUpdate
  <1>2. clock \in Nat /\ remote \in [Orders -> Version]
    BY DEF SyncTypes, OutsideTyped
  <1>3. remote'[o] = [state |-> s, at |-> t]
    BY <1>1, <1>2
  <1>4. QED
    BY <1>1, <1>2, <1>3

LEMMA OutsideGrows ==
    ASSUME SyncTypes, [OrderSyncNext]_vars
    PROVE  /\ clock \in Nat /\ clock' \in Nat /\ clock <= clock'
           /\ \/ \E o \in Orders, s \in States \cup {"DELETED"} : PlatformUpdate(o, s)
              \/ UNCHANGED <<remote, deliveries>>
  <1>1. clock \in Nat
    BY DEF SyncTypes, OutsideTyped
  <1>2. CASE \E o \in Orders, s \in States \cup {"DELETED"} : PlatformUpdate(o, s)
    BY <1>1, <1>2, UpdateIsLater, OutsideSteps DEF OutsideTyped
  <1>3. CASE TimePasses
    BY <1>1, <1>3 DEF TimePasses
  <1>4. CASE UNCHANGED outside
    BY <1>1, <1>4 DEF outside
  <1>5. QED
    BY <1>2, <1>3, <1>4
    DEF OrderSyncNext, vars, outside, BookOutcome, BookingFails, ViewTimeline,
        backfillSyntheticEvents, ReadConnection, JoinRunning, StartSync,
        FetchPage, ReadExisting, UpsertOrder, DetectChanges, CountOrder, EndPage,
        SyncFails, Crash, DeleteOrder, ReceiveWebhook, RemoveGone, ReadStored,
        UpsertCurrentOrder, CountFromHook

LEMMA RacedStays ==
    ASSUME SyncTypes, [OrderSyncNext]_vars, NEW o \in Orders, "raced" \in mishaps[o]
    PROVE  "raced" \in mishaps'[o]
  <1>1. DOMAIN mishaps = Orders
    BY DEF SyncTypes, HistoryTyped
  <1>2. \A S, what : "raced" \in Befalls(S, what)[o]
    BY DEF Befalls
  <1>3. "raced" \in Undone[o]
    BY <1>1 DEF Undone
  <1>4. CASE Crash
    BY <1>3, <1>4 DEF Crash
  <1>5. CASE DetectChanges
    BY <1>1, <1>2, <1>5 DEF DetectChanges
  <1>6. CASE mishaps' = mishaps \/ mishaps' = Undone
             \/ \E S, what : mishaps' = Befalls(S, what)
    BY <1>2, <1>3, <1>6
  <1>7. QED
    BY ZenonT(30), <1>4, <1>5, <1>6
    DEF OrderSyncNext, vars, outside, BookOutcome, BookingFails, ViewTimeline,
        backfillSyntheticEvents, ReadConnection, JoinRunning, StartSync,
        PlatformUpdate, TimePasses, FetchPage, ReadExisting, UpsertOrder,
        WriteRow, CountOrder, EndPage, SyncFails, DeleteOrder,
        ReceiveWebhook, RemoveGone, ReadStored, UpsertCurrentOrder, CountFromHook

(* A write by somebody who read the row as it is leaves it, or puts the    *)
(* version that was given.                                                 *)
LEMMA WriteUnraced ==
    ASSUME SyncTypes, NEW o \in Orders, NEW seen, NEW version,
           WriteRow(o, seen, version)
    PROVE  /\ rows'[o] = version /\ \A p \in Orders \ {o} : rows'[p] = rows[p]
           /\ "raced" \notin mishaps'[o] => rows[o] = seen
  <1>1. DOMAIN rows = Orders
    BY DEF SyncTypes, RowsTyped
  <1>2. "raced" \in Befalls({o}, "raced")[o]
    BY DEF Befalls
  <1>3. QED
    BY <1>1, <1>2 DEF WriteRow

(* What is kept stays kept, up to the start of the sync that writes.       *)
LEMMA FreshStays ==
    ASSUME SyncTypes, Sources, RunKept, [OrderSyncNext]_vars,
           NEW o \in Orders, NEW t \in Nat, t <= clock,
           run.stage = "write" => t <= run.started,
           Kept(remote[o], rows[o], mishaps[o], t)
    PROVE  Kept(remote'[o], rows'[o], mishaps'[o], t)
  <1>1. /\ rows \in [Orders -> Version] /\ remote \in [Orders -> Version]
        /\ run \in RunStates /\ hooks \in [Hooks -> HookStates] /\ clock \in Nat
        /\ run.stage \in {"read", "write", "changes", "count"} => run.order \in Orders
        /\ \A h \in Hooks : hooks[h].stage # "idle" => hooks[h].id.order \in Orders
        /\ \A v \in Version : v.at \in Nat
    BY DEF SyncTypes, OutsideTyped, RunTyped, RowsTyped, HooksTyped, Version
  <1>2. "raced" \notin mishaps'[o] => "raced" \notin mishaps[o]
    BY RacedStays
  <1>3. ASSUME NEW p \in Orders, NEW s \in States \cup {"DELETED"}, PlatformUpdate(p, s)
        PROVE  Kept(remote'[o], rows'[o], mishaps'[o], t)
    <2>1. rows' = rows
      BY <1>3 DEF PlatformUpdate
    <2>2. CASE o = p
      <3>1. ~(remote'[o].at < t)
        <4>1. clock <= remote'[o].at
          BY <1>3, <2>2, UpdateIsLater
        <4>2. remote'[o].at \in Nat
          BY <1>1, OutsideSteps DEF OutsideTyped
        <4>3. QED
          BY <1>1, <4>1, <4>2
      <3>2. QED
        BY <3>1 DEF Kept
    <2>3. CASE o # p
      BY <1>2, <1>3, <2>1, <2>3, UpdateIsLater DEF Kept
    <2>4. QED
      BY <2>2, <2>3
  <1>4. CASE UpsertOrder
    <2>1. /\ run.order \in Orders /\ run.stage = "write" /\ remote' = remote
          /\ WriteRow(run.order, run.seen, run.version)
      BY <1>1, <1>4 DEF UpsertOrder, outside
    <2>2. CASE o = run.order
      <3>1. rows'[o] = run.version
        BY <2>1, <2>2, WriteUnraced
      <3>2. run.version = remote[o] \/ run.started <= remote[o].at
        BY <2>1, <2>2 DEF RunKept
      <3>3. t <= run.started /\ run.started \in Nat /\ remote[o].at \in Nat
        BY <1>1, <2>1 DEF RunStates
      <3>4. QED
        BY <2>1, <3>1, <3>2, <3>3 DEF Kept
    <2>3. CASE o # run.order
      BY <1>2, <2>1, <2>3, WriteUnraced DEF Kept
    <2>4. QED
      BY <2>2, <2>3
  <1>5. ASSUME NEW h \in Hooks, UpsertCurrentOrder(h)
        PROVE  Kept(remote'[o], rows'[o], mishaps'[o], t)
    <2> DEFINE w == hooks[h]
               p == w.id.order
    <2>1. /\ w.stage = "write" /\ p \in Orders /\ remote' = remote
          /\ w.version \in Version /\ w.seen \in Version
      BY <1>1, <1>5 DEF UpsertCurrentOrder, outside, HookStates
    <2>2. CASE UNCHANGED <<rows, owing, mishaps>>
      BY <2>1, <2>2
    <2>3. CASE NotOlder(w.seen, w.version) /\ WriteRow(p, w.seen, w.version)
      <3>1. CASE o # p
        BY <1>2, <2>1, <2>3, <3>1, WriteUnraced DEF Kept
      <3>2. CASE o = p
        <4>1. /\ rows'[o] = w.version
              /\ "raced" \notin mishaps'[o] => rows[o] = w.seen
          BY <2>1, <2>3, <3>2, WriteUnraced
        <4>2. Earlier(w.version, remote[o])
          BY <2>1, <3>2 DEF Sources
        <4>3. ASSUME remote[o].state \in States, rows[o] = remote[o], rows[o] = w.seen
              PROVE  w.version = remote[o]
          <5>1. w.seen.state # "NONE"
            BY <4>3 DEF States
          <5>2. w.seen.at <= w.version.at
            BY <2>3, <5>1 DEF NotOlder
          <5>3. QED
            BY <1>1, <2>1, <4>2, <4>3, <5>2 DEF Earlier
        <4> HIDE DEF w, p
        <4>4. QED
          BY <1>2, <2>1, <4>1, <4>3 DEF Kept
      <3>3. QED
        BY <3>1, <3>2
    <2>4. QED
      BY <1>5, <2>2, <2>3 DEF UpsertCurrentOrder
  <1>6. ASSUME NEW p \in Orders, Remove(p), remote' = remote,
               remote[p].state = "DELETED"
        PROVE  Kept(remote'[o], rows'[o], mishaps'[o], t)
    <2>1. "DELETED" \notin States
      BY DEF States
    <2>2. CASE o = p
      BY <1>6, <2>1, <2>2 DEF Kept
    <2>3. CASE o # p
      BY <1>1, <1>2, <1>6, <2>3 DEF Kept, Remove
    <2>4. QED
      BY <2>2, <2>3
  <1>7. ASSUME NEW h \in Hooks, RemoveGone(h)
        PROVE  Kept(remote'[o], rows'[o], mishaps'[o], t)
    <2>1. CASE rows' = rows
      BY <1>2, <1>7, <2>1 DEF RemoveGone, outside, Kept
    <2>2. CASE Remove(hooks[h].id.order)
      BY <1>1, <1>6, <1>7, <2>2 DEF RemoveGone, outside, Sources
    <2>3. QED
      BY <1>7, <2>1, <2>2 DEF RemoveGone
  <1>8. ASSUME NEW d \in deliveries, DeleteOrder(d)
        PROVE  Kept(remote'[o], rows'[o], mishaps'[o], t)
    <2>1. d.order \in Orders
      BY DEF SyncTypes, OutsideTyped, Delivery
    <2>2. QED
      BY <1>6, <1>8, <2>1 DEF DeleteOrder, outside, Sources
  <1>9. CASE UNCHANGED <<remote, rows>>
    BY <1>2, <1>9 DEF Kept
  <1>10. QED
    BY <1>3, <1>4, <1>5, <1>7, <1>8, <1>9
    DEF OrderSyncNext, vars, outside, BookOutcome, BookingFails, ViewTimeline,
        backfillSyntheticEvents, ReadConnection, JoinRunning, StartSync,
        TimePasses, FetchPage, ReadExisting, DetectChanges, CountOrder, EndPage,
        SyncFails, Crash, ReceiveWebhook, ReadStored, CountFromHook

LEMMA SourcesNext ==
    ASSUME SyncTypes, Sources, [OrderSyncNext]_vars PROVE Sources'
  <1>1. /\ remote \in [Orders -> Version] /\ hooks \in [Hooks -> HookStates]
        /\ \A h \in Hooks : hooks[h].stage # "idle" => hooks[h].id.order \in Orders
        /\ \A v \in Version : v.at \in Nat /\ Earlier(v, v)
        /\ NoHook.stage = "idle" /\ deliveries \in SUBSET Delivery
    BY NothingTyped DEF SyncTypes, OutsideTyped, HooksTyped, Version, Earlier
  <1>2. ASSUME NEW p \in Orders, NEW v \in Version
        PROVE  /\ Earlier(v, remote[p]) => Earlier(v, remote'[p])
               /\ remote[p].state = "DELETED" => remote'[p].state = "DELETED"
    <2>1. CASE remote' = remote
      BY <2>1
    <2>2. ASSUME NEW o \in Orders, NEW s \in States \cup {"DELETED"}, PlatformUpdate(o, s)
          PROVE  /\ Earlier(v, remote[p]) => Earlier(v, remote'[p])
                 /\ remote[p].state = "DELETED" => remote'[p].state = "DELETED"
      <3>1. CASE p # o
        BY <2>2, <3>1, UpdateIsLater
      <3>2. CASE p = o
        <4>1. /\ remote[o].at < remote'[o].at /\ remote[o].state # "DELETED"
          BY <2>2, UpdateIsLater
        <4>2. remote'[o].at \in Nat /\ remote[o].at \in Nat /\ v.at \in Nat
          BY <1>1, OutsideSteps DEF OutsideTyped
        <4>3. QED
          BY <3>2, <4>1, <4>2 DEF Earlier
      <3>3. QED
        BY <3>1, <3>2
    <2>3. QED
      BY <2>1, <2>2, OutsideGrows
  <1>3. \A d \in deliveries' : d.state = "DELETED" => remote'[d.order].state = "DELETED"
    <2>1. ASSUME NEW d \in deliveries, d.state = "DELETED"
          PROVE  remote'[d.order].state = "DELETED"
      <3>1. d.order \in Orders /\ remote[d.order].state = "DELETED"
        BY <1>1, <2>1 DEF Sources, Delivery
      <3>2. remote[d.order] \in Version
        BY <1>1, <3>1
      <3>3. QED
        BY <1>2, <3>1, <3>2
    <2>2. ASSUME NEW o \in Orders, NEW s \in States \cup {"DELETED"},
                 PlatformUpdate(o, s), NEW d \in deliveries', d \notin deliveries
          PROVE  d.state = remote'[d.order].state
      BY <2>2, UpdateIsLater
    <2>3. QED
      BY <2>1, <2>2, OutsideGrows
  <1>4. ASSUME NEW h \in Hooks, hooks'[h].stage \in {"fetched", "write"},
               hooks'[h].stage = hooks[h].stage \/ hooks[h].stage = "fetched",
               hooks'[h].version = hooks[h].version, hooks'[h].id = hooks[h].id
        PROVE  /\ Earlier(hooks'[h].version, remote'[hooks'[h].id.order])
               /\ hooks'[h].version.state = "DELETED" =>
                      remote'[hooks'[h].id.order].state = "DELETED"
    <2>1. /\ hooks[h].id.order \in Orders /\ hooks[h].version \in Version
          /\ hooks[h].stage \in {"fetched", "write"}
      BY <1>1, <1>4 DEF HookStates
    <2>2. QED
      BY <1>2, <1>4, <2>1 DEF Sources
  <1>5. ASSUME NEW h \in Hooks, NEW d \in deliveries, ReceiveWebhook(h, d)
        PROVE  Sources'
    <2>1. /\ remote' = remote /\ d.order \in Orders
          /\ \A g \in Hooks \ {h} : hooks'[g] = hooks[g]
          /\ hooks'[h].version = remote[d.order] /\ hooks'[h].id = d
      BY <1>1, <1>5 DEF ReceiveWebhook, outside, Delivery
    <2>2. Earlier(remote[d.order], remote[d.order])
      BY DEF Earlier
    <2>3. QED
      BY <1>3, <1>4, <2>1, <2>2 DEF Sources
  <1>6. ASSUME NEW h \in Hooks, ReadStored(h) PROVE Sources'
    <2>1. /\ \A g \in Hooks \ {h} : hooks'[g] = hooks[g]
          /\ hooks[h].stage = "fetched"
          /\ hooks'[h].version = hooks[h].version /\ hooks'[h].id = hooks[h].id
      BY <1>1, <1>6 DEF ReadStored, HookStates
    <2>2. QED
      BY <1>3, <1>4, <2>1 DEF Sources
  <1>7. CASE \A h \in Hooks : hooks'[h] = hooks[h]
                              \/ hooks'[h].stage \notin {"fetched", "write"}
    BY <1>3, <1>4, <1>7 DEF Sources
  <1>8. ASSUME NEW h \in Hooks, UpsertCurrentOrder(h) PROVE Sources'
    <2>1. /\ \A g \in Hooks \ {h} : hooks'[g] = hooks[g]
          /\ \/ hooks'[h] = NoHook
             \/ hooks'[h] = [hooks[h] EXCEPT !.stage = "count"]
      BY <1>1, <1>8 DEF UpsertCurrentOrder
    <2>2. hooks'[h].stage \notin {"fetched", "write"}
      BY <1>1, <2>1 DEF HookStates
    <2>3. QED
      BY <1>7, <2>1, <2>2
  <1>9. ASSUME NEW h \in Hooks, RemoveGone(h) \/ CountFromHook(h) PROVE Sources'
    <2>1. hooks' = [hooks EXCEPT ![h] = NoHook]
      BY <1>9 DEF RemoveGone, CountFromHook
    <2>2. QED
      BY <1>1, <1>7, <2>1
  <1>10. CASE Crash
    <2>1. hooks' = [h \in Hooks |-> NoHook]
      BY <1>10 DEF Crash
    <2>2. QED
      BY <1>1, <1>7, <2>1
  <1>11. CASE hooks' = hooks
    BY <1>7, <1>11
  <1>12. QED
    BY <1>5, <1>6, <1>8, <1>9, <1>10, <1>11
    DEF OrderSyncNext, vars, outside, BookOutcome, BookingFails, ViewTimeline,
        backfillSyntheticEvents, ReadConnection, JoinRunning, StartSync,
        PlatformUpdate, TimePasses, FetchPage, ReadExisting, UpsertOrder,
        DetectChanges, CountOrder, EndPage, SyncFails, DeleteOrder

(* What is kept up to a time that the open window, if any, reaches.        *)
LEMMA KeptOn ==
    ASSUME SyncTypes, WindowInv, [OrderSyncNext]_vars,
           NEW o \in Orders, NEW t \in Nat, t <= clock,
           conn.started # 0 => t <= conn.started, Fresh(o, t)
    PROVE  Kept(remote'[o], rows'[o], mishaps'[o], t)
  <1>1. run.stage = "write" => t <= run.started
    BY DEF WindowInv, ConnKept, RunKept
  <1>2. QED
    BY <1>1, FreshStays DEF WindowInv, Fresh

LEMMA TimesTyped ==
    ASSUME SyncTypes
    PROVE  /\ conn \in Window /\ run \in RunStates /\ clock \in Nat
           /\ conn.last \in Nat /\ conn.started \in Nat /\ conn.from \in Nat
           /\ conn.cursor \in Nat /\ run.started \in Nat /\ run.from \in Nat
           /\ run.order \in Nat /\ run.cursor \in Nat
           /\ \A o \in Orders : o \in Nat /\ o # 0
           /\ \A o \in Orders : remote[o].at \in Nat
           /\ snaps \in [Callers -> [taken : BOOLEAN, conn : Window]]
  BY OrdersPositive
  DEF SyncTypes, OutsideTyped, ConnTyped, RunTyped, RunStates, Window, Version

LEMMA ConnStill ==
    ASSUME SyncTypes, WindowInv, [OrderSyncNext]_vars, conn' = conn,
           run.stage = "idle" => run'.stage = "idle"
    PROVE  ConnKept'
  <1>1. /\ 1 <= clock /\ conn.last <= clock /\ conn.from <= conn.last
        /\ conn.started # 0 => conn.last <= conn.started /\ conn.started <= clock
        /\ conn.started = 0 => conn.cursor = 0 /\ run.stage = "idle"
    BY DEF WindowInv, ConnKept
  <1>2. clock <= clock' /\ clock' \in Nat
    BY OutsideGrows
  <1>3. \A o \in Orders : Fresh(o, conn.last)'
    <2>1. ASSUME NEW o \in Orders
          PROVE  Kept(remote'[o], rows'[o], mishaps'[o], conn.last)
      BY <1>1, KeptOn, TimesTyped DEF WindowInv, ConnKept
    <2>2. QED
      BY <2>1 DEF Fresh
  <1>4. ASSUME conn.started # 0, NEW o \in Orders, o <= conn.cursor
        PROVE  Fresh(o, conn.started)'
    <2>1. Kept(remote'[o], rows'[o], mishaps'[o], conn.started)
      BY <1>1, <1>4, KeptOn, TimesTyped DEF WindowInv, ConnKept
    <2>2. QED
      BY <2>1 DEF Fresh
  <1>5. QED
    BY <1>1, <1>2, <1>3, <1>4, TimesTyped DEF ConnKept

LEMMA SnapStill ==
    ASSUME SyncTypes, WindowInv, [OrderSyncNext]_vars, conn' = conn,
           NEW k \in Window, SnapKept(k)
    PROVE  SnapKept(k)'
  <1>1. clock <= clock' /\ clock' \in Nat
    BY OutsideGrows
  <1>2. k.started \in Nat
    BY DEF Window
  <1>3. ASSUME k.started # 0, NEW o \in Orders, o <= k.cursor
        PROVE  Fresh(o, k.started)'
    <2>1. Kept(remote'[o], rows'[o], mishaps'[o], k.started)
      BY <1>2, <1>3, KeptOn DEF SnapKept
    <2>2. QED
      BY <2>1 DEF Fresh
  <1>4. QED
    BY <1>1, <1>2, <1>3, TimesTyped DEF SnapKept

(* Callers who keep what they read, or give it up.                         *)
LEMMA SnapsStill ==
    ASSUME SyncTypes, WindowInv, [OrderSyncNext]_vars, conn' = conn,
           \A c \in Callers : snaps'[c].taken => snaps'[c] = snaps[c]
    PROVE  SnapsKept'
  <1>1. ASSUME NEW c \in Callers, snaps'[c].taken
        PROVE  SnapKept(snaps[c].conn)'
    <2>1. PICK k \in Window : k = snaps[c].conn
      BY TimesTyped
    <2>2. snaps'[c] = snaps[c]
      BY <1>1
    <2>3. SnapKept(k)
      BY <1>1, <2>1, <2>2 DEF WindowInv, SnapsKept
    <2>4. SnapKept(k)'
      BY <2>3, SnapStill
    <2>5. QED
      BY <2>1, <2>2, <2>4 DEF SnapKept
  <1>2. QED
    BY <1>1 DEF SnapsKept

(* What the running sync relies on, while it makes no step.                *)
LEMMA RunStill ==
    ASSUME SyncTypes, WindowInv, [OrderSyncNext]_vars, UNCHANGED <<run, conn>>
    PROVE  RunKept'
  <1>1. CASE run.stage = "idle"
    BY <1>1 DEF RunKept
  <1>2. CASE run.stage # "idle"
    <2>1. /\ run.started = conn.started /\ run.from = conn.from
          /\ conn.started # 0 /\ conn.started <= clock
      BY <1>2 DEF WindowInv, RunKept, ConnKept
    <2>2. ASSUME NEW o \in Orders, Fresh(o, run.started)
          PROVE  Kept(remote'[o], rows'[o], mishaps'[o], run.started)
      BY <2>1, <2>2, KeptOn, TimesTyped
    <2>3. run.stage \in {"read", "write"} => run.order \in Orders
      BY DEF SyncTypes, RunTyped
    <2>4. ASSUME run.stage \in {"read", "write"}
          PROVE  \/ run.version = remote'[run.order]
                 \/ run.started <= remote'[run.order].at
      <3> DEFINE o == run.order
      <3>1. o \in Orders /\ (run.version = remote[o] \/ run.started <= remote[o].at)
        BY <2>3, <2>4 DEF WindowInv, RunKept
      <3>2. CASE remote'[o] = remote[o]
        BY <3>1, <3>2
      <3>3. CASE \E s \in States \cup {"DELETED"} : PlatformUpdate(o, s)
        <4>1. clock <= remote'[o].at /\ remote'[o].at \in Nat
          BY <3>1, <3>3, UpdateIsLater, OutsideSteps DEF OutsideTyped, Version
        <4>2. QED
          BY <2>1, <4>1, TimesTyped
      <3>4. QED
        BY <3>1, <3>2, <3>3, OutsideGrows, UpdateIsLater
    <2>5. QED
      BY <2>1, <2>2, <2>4 DEF WindowInv, RunKept, Fresh
  <1>3. QED
    BY <1>1, <1>2

(* The steps of the only request.                                          *)
OneCaller == \A c, d \in Callers : c = d

LEMMA WindowStart ==
    ASSUME SyncTypes, WindowInv, OneCaller, NEW c \in Callers, StartSync(c)
    PROVE  ConnKept' /\ RunKept' /\ SnapsKept'
  <1> DEFINE k == snaps[c].conn
             w == WindowOf(k)
  <1>1. /\ k \in Window /\ SnapKept(k) /\ run.stage = "idle"
        /\ k.started \in Nat /\ k.cursor \in Nat /\ k.from \in Nat
        /\ UNCHANGED <<remote, clock, rows, mishaps>>
    BY TimesTyped DEF StartSync, WindowInv, SnapsKept, Window, outside
  <1>2. ConnKept
    BY DEF WindowInv
  <1>3. /\ conn' = [conn EXCEPT !.from = w.from, !.started = w.started]
        /\ run' = [NoRun EXCEPT !.stage = "fetch", !.cursor = k.cursor,
                                !.from = w.from, !.started = w.started]
        /\ snaps' = [snaps EXCEPT ![c] = NoSnap]
    BY DEF StartSync
  <1>4. /\ w.from = IF k.started # 0 THEN k.from ELSE k.last
        /\ w.started = IF k.started # 0 THEN k.started ELSE clock
    BY DEF WindowOf
  <1>5. /\ conn'.from = w.from /\ conn'.started = w.started
        /\ conn'.last = conn.last /\ conn'.cursor = conn.cursor
    BY <1>3, TimesTyped DEF Window
  <1>6. /\ run'.stage = "fetch" /\ run'.started = w.started
        /\ run'.from = w.from /\ run'.cursor = k.cursor
    BY <1>3 DEF NoRun
  <1>7. SnapsKept'
    BY <1>3, TimesTyped DEF OneCaller, SnapsKept, NoSnap
  <1>8. /\ w.started # 0 /\ conn.last <= w.started /\ w.started <= clock
        /\ w.from <= conn.last
        /\ \A o \in Orders : o <= conn.cursor => Fresh(o, w.started)
        /\ \A o \in Orders : o <= k.cursor => Fresh(o, w.started)
    <2>1. CASE k.started = 0
      <3>1. k = conn /\ conn.started = 0 /\ conn.cursor = 0
        BY <1>1, <1>2, <2>1 DEF SnapKept, ConnKept
      <3>2. w.from = conn.last /\ w.started = clock
        BY <1>4, <3>1
      <3>3. \A o \in Orders : ~(o <= 0)
        BY TimesTyped
      <3>4. 1 <= clock /\ conn.last <= clock
        BY <1>2 DEF ConnKept
      <3> HIDE DEF k, w
      <3>5. QED
        BY <3>1, <3>2, <3>3, <3>4, TimesTyped
    <2>2. CASE k.started # 0
      <3>1. w.from = k.from /\ w.started = k.started
        BY <1>4, <2>2
      <3>2. /\ k.started <= clock /\ k.from <= conn.last /\ conn.last <= k.started
            /\ conn.started \in {0, k.started}
            /\ \A o \in Orders : o <= k.cursor => Fresh(o, k.started)
        BY <1>1, <2>2 DEF SnapKept
      <3>3. \A o \in Orders : o <= conn.cursor => Fresh(o, k.started)
        BY <1>2, <3>2, TimesTyped DEF ConnKept
      <3> HIDE DEF k, w
      <3>4. QED
        BY <2>2, <3>1, <3>2, <3>3
    <2>3. QED
      BY <2>1, <2>2
  <1> HIDE DEF k, w
  <1>9. ConnKept'
    BY <1>1, <1>2, <1>5, <1>8 DEF ConnKept, Fresh
  <1>10. RunKept'
    BY <1>1, <1>5, <1>6, <1>8 DEF RunKept, Fresh
  <1>11. QED
    BY <1>7, <1>9, <1>10

(* What the window passes over was kept before it.                         *)
LEMMA OutOfWindow ==
    ASSUME SyncTypes, WindowInv, run.stage = "fetch", NEW o \in Orders,
           o <= run.cursor \/ ~InWindow(o)
    PROVE  Fresh(o, run.started)
  <1>1. /\ run.started = conn.started /\ run.from = conn.from
        /\ conn.from <= conn.last /\ Fresh(o, conn.last)
    BY DEF WindowInv, RunKept, ConnKept
  <1>2. CASE o <= run.cursor
    BY <1>2 DEF WindowInv, RunKept
  <1>3. CASE ~InWindow(o)
    <2>1. ASSUME Exists(o), remote[o].at < run.started
          PROVE  remote[o].at < conn.last
      <3>1. ~(run.from <= remote[o].at)
        BY <1>3, <2>1, TimesTyped DEF InWindow
      <3>2. QED
        BY <1>1, <3>1, TimesTyped
    <2>2. QED
      BY <1>1, <2>1 DEF Fresh, Kept, Exists
  <1>4. QED
    BY <1>2, <1>3

LEMMA WindowFetch ==
    ASSUME SyncTypes, WindowInv, FetchPage PROVE RunKept'
  <1> DEFINE ahead == {o \in Orders : o > run.cursor /\ InWindow(o)}
  <1>1. /\ run.stage = "fetch" /\ UNCHANGED <<remote, rows, mishaps, conn>>
        /\ run \in RunStates /\ run.started = conn.started /\ run.from = conn.from
    BY TimesTyped DEF FetchPage, outside, WindowInv, RunKept
  <1>2. \A o \in Orders : o \notin ahead => Fresh(o, run.started)
    BY <1>1, OutOfWindow, TimesTyped
  <1>3. CASE /\ ahead = {}
             /\ run' = [run EXCEPT !.stage = "end", !.order = 0, !.more = FALSE]
    <2>1. /\ run'.stage = "end" /\ run'.started = run.started /\ run'.from = run.from
      BY <1>1, <1>3 DEF RunStates
    <2>2. \A o \in Orders : Fresh(o, run.started)
      BY <1>2, <1>3
    <2>3. QED
      BY <1>1, <2>1, <2>2 DEF RunKept, Fresh
  <1>4. ASSUME NEW o \in ahead, \A p \in ahead : o <= p,
               run' = [run EXCEPT !.stage = "read", !.order = o,
                                  !.version = remote[o], !.more = (ahead # {o})]
        PROVE  RunKept'
    <2>1. /\ run'.stage = "read" /\ run'.order = o /\ run'.version = remote[o]
          /\ run'.started = run.started /\ run'.from = run.from
          /\ run'.more = (ahead # {o})
      BY <1>1, <1>4 DEF RunStates
    <2>2. \A p \in Orders : p < o => Fresh(p, run.started)
      <3>1. \A p \in Orders : p < o => p \notin ahead
        BY <1>4, TimesTyped
      <3>2. QED
        BY <1>2, <3>1
    <2>3. ~run'.more => \A p \in Orders : o < p => Fresh(p, run.started)
      <3>1. ~run'.more => ahead = {o}
        BY <2>1
      <3>2. \A p \in Orders : o < p => p # o
        BY TimesTyped
      <3> HIDE DEF ahead
      <3>3. QED
        BY <1>2, <3>1, <3>2
    <2> HIDE DEF ahead
    <2>4. QED
      BY <1>1, <2>1, <2>2, <2>3 DEF RunKept, Fresh
  <1>5. QED
    BY <1>3, <1>4 DEF FetchPage

LEMMA WindowRead ==
    ASSUME SyncTypes, WindowInv, ReadExisting PROVE RunKept'
  <1>1. /\ run.stage = "read" /\ UNCHANGED <<remote, rows, mishaps, conn>>
        /\ RunKept /\ run \in RunStates
    BY TimesTyped DEF ReadExisting, outside, WindowInv
  <1>2. /\ run'.stage = "write" /\ run'.order = run.order /\ run'.more = run.more
        /\ run'.version = run.version
        /\ run'.started = run.started /\ run'.from = run.from
    BY <1>1 DEF ReadExisting, RunStates
  <1>3. QED
    BY <1>1, <1>2 DEF RunKept, Fresh

LEMMA WindowUpsert ==
    ASSUME SyncTypes, WindowInv, UpsertOrder PROVE RunKept'
  <1>1. /\ run.stage = "write" /\ UNCHANGED <<remote, conn>> /\ RunKept
        /\ run \in RunStates /\ run.order \in Orders /\ UpsertOrder
        /\ WriteRow(run.order, run.seen, run.version)
    BY TimesTyped DEF UpsertOrder, outside, WindowInv, SyncTypes, RunTyped
  <1>2. /\ run'.stage = "changes" /\ run'.order = run.order /\ run'.more = run.more
        /\ run'.started = run.started /\ run'.from = run.from
    BY <1>1 DEF UpsertOrder, RunStates
  <1>3. [OrderSyncNext]_vars
    BY DEF OrderSyncNext
  <1>4. /\ run.started = conn.started /\ run.started <= clock
    BY <1>1 DEF WindowInv, RunKept, ConnKept
  <1>5. ASSUME NEW o \in Orders, Fresh(o, run.started)
        PROVE  Kept(remote'[o], rows'[o], mishaps'[o], run.started)
    BY <1>3, <1>4, <1>5, KeptOn, TimesTyped
  <1>6. Kept(remote'[run.order], rows'[run.order], mishaps'[run.order], run.started)
    <2>1. rows'[run.order] = run.version
      BY <1>1, WriteUnraced
    <2>2. run.version = remote[run.order] \/ run.started <= remote[run.order].at
      BY <1>1 DEF RunKept
    <2>3. QED
      BY <1>1, <2>1, <2>2, TimesTyped DEF Kept
  <1>7. ASSUME NEW o \in Orders, o <= run.order
        PROVE  Kept(remote'[o], rows'[o], mishaps'[o], run.started)
    <2>1. CASE o < run.order
      BY <1>1, <1>5, <2>1 DEF RunKept
    <2>2. CASE o = run.order
      BY <1>6, <2>2
    <2>3. QED
      BY <1>7, <2>1, <2>2, TimesTyped
  <1>8. ASSUME ~run.more, NEW o \in Orders, run.order < o
        PROVE  Kept(remote'[o], rows'[o], mishaps'[o], run.started)
    BY <1>1, <1>5, <1>8 DEF RunKept
  <1>9. QED
    BY <1>1, <1>2, <1>7, <1>8 DEF RunKept, Fresh

LEMMA WindowDetect ==
    ASSUME SyncTypes, WindowInv, DetectChanges \/ CountOrder PROVE RunKept'
  <1>1. /\ UNCHANGED <<remote, rows, conn>> /\ RunKept /\ run \in RunStates
        /\ run.stage \in {"changes", "count"}
    BY TimesTyped DEF DetectChanges, CountOrder, outside, WindowInv
  <1>2. /\ run'.stage \in {"count", "end"} /\ run'.order = run.order
        /\ run'.more = run.more
        /\ run'.started = run.started /\ run'.from = run.from
    BY <1>1 DEF DetectChanges, CountOrder, RunStates
  <1>3. [OrderSyncNext]_vars
    BY DEF OrderSyncNext
  <1>4. ASSUME NEW o \in Orders, Fresh(o, run.started)
        PROVE  Kept(remote'[o], rows'[o], mishaps'[o], run.started)
    <2>1. "raced" \notin mishaps'[o] => "raced" \notin mishaps[o]
      BY <1>3, RacedStays
    <2>2. QED
      BY <1>1, <1>4, <2>1 DEF Fresh, Kept
  <1>5. QED
    BY <1>1, <1>2, <1>4 DEF RunKept, Fresh

LEMMA WindowEnd ==
    ASSUME SyncTypes, WindowInv, EndPage
    PROVE  /\ ConnKept' /\ RunKept' /\ SnapsKept'
           /\ conn'.last = conn.last \/ (/\ conn'.last = run.started
                                         /\ \A o \in Orders : Fresh(o, run.started))
  <1>1. /\ run.stage = "end" /\ UNCHANGED <<remote, clock, rows, mishaps, snaps>>
        /\ RunKept /\ ConnKept /\ run \in RunStates /\ conn \in Window
        /\ NoRun.stage = "idle"
    BY TimesTyped, NothingTyped DEF EndPage, outside, WindowInv
  <1>2. /\ run.started = conn.started /\ run.from = conn.from /\ conn.started # 0
        /\ conn.last <= conn.started /\ conn.started <= clock
    BY <1>1 DEF RunKept, ConnKept
  <1>3. ASSUME NEW c \in Callers, snaps[c].taken
        PROVE  /\ snaps[c].conn.started = conn.started
               /\ snaps[c].conn.from <= conn.last
               /\ \A o \in Orders : o <= snaps[c].conn.cursor => Fresh(o, conn.started)
    BY <1>2, <1>3 DEF WindowInv, SnapsKept, SnapKept
  <1>4. \A c \in Callers : snaps[c].conn \in Window
    BY TimesTyped
  <1>5. CASE ~run.more
    <2>1. /\ run' = NoRun
          /\ conn' = [cursor |-> 0, from |-> 0, started |-> 0, last |-> run.started]
      BY <1>5 DEF EndPage
    <2>2. \A o \in Orders : Fresh(o, run.started)
      BY <1>1, <1>5, TimesTyped DEF RunKept
    <2>3. ConnKept'
      BY <1>1, <1>2, <2>1, <2>2, TimesTyped DEF ConnKept, Fresh
    <2>4. RunKept'
      BY <1>1, <2>1 DEF RunKept
    <2>5. SnapsKept'
      <3>1. ASSUME NEW c \in Callers, snaps[c].taken
            PROVE  /\ snaps[c].conn.started # 0 /\ snaps[c].conn.started <= clock
                   /\ snaps[c].conn.from <= run.started
                   /\ run.started <= snaps[c].conn.started
        BY <1>2, <1>3, <1>4, <3>1, TimesTyped DEF Window
      <3>2. QED
        BY <1>1, <1>2, <1>3, <2>1, <3>1 DEF SnapsKept, SnapKept, Fresh
    <2>6. QED
      BY <2>1, <2>2, <2>3, <2>4, <2>5
  <1>6. CASE run.more
    <2>1. conn' = [conn EXCEPT !.cursor = run.order]
      BY <1>6 DEF EndPage
    <2>2. /\ conn'.cursor = run.order /\ conn'.from = conn.from
          /\ conn'.started = conn.started /\ conn'.last = conn.last
      BY <1>1, <2>1 DEF Window
    <2>3. \A o \in Orders : o <= run.order => Fresh(o, run.started)
      BY <1>1 DEF RunKept
    <2>4. ConnKept'
      BY <1>1, <1>2, <2>2, <2>3 DEF ConnKept, Fresh
    <2>5. RunKept'
      <3>1. CASE run' = NoRun
        BY <1>1, <3>1 DEF RunKept
      <3>2. CASE run' = [run EXCEPT !.stage = "fetch", !.pages = run.pages + 1,
                                    !.cursor = run.order, !.order = 0,
                                    !.version = None, !.seen = None]
        <4>1. /\ run'.stage = "fetch" /\ run'.cursor = run.order
              /\ run'.started = run.started /\ run'.from = run.from
          BY <1>1, <3>2 DEF RunStates
        <4>2. QED
          BY <1>1, <1>2, <2>2, <2>3, <4>1 DEF RunKept, Fresh
      <3>3. QED
        BY <1>6, <3>1, <3>2 DEF EndPage
    <2>6. SnapsKept'
      <3>1. ASSUME NEW c \in Callers, snaps[c].taken
            PROVE  /\ snaps[c].conn.started # 0 /\ snaps[c].conn.started <= clock
                   /\ conn.last <= snaps[c].conn.started
        BY <1>2, <1>3, <3>1
      <3>2. QED
        BY <1>1, <1>2, <1>3, <2>2, <3>1 DEF SnapsKept, SnapKept, Fresh
    <2>7. QED
      BY <2>2, <2>4, <2>5, <2>6
  <1>7. QED
    BY <1>1, <1>5, <1>6 DEF RunStates

(* A caller reads the connection.                                          *)
LEMMA WindowCallers ==
    ASSUME SyncTypes, WindowInv, NEW c \in Callers, ReadConnection(c)
    PROVE  SnapsKept'
  <1>1. /\ UNCHANGED <<remote, clock, rows, mishaps, conn>>
        /\ snaps' = [snaps EXCEPT ![c] = [taken |-> TRUE, conn |-> conn]]
    BY DEF ReadConnection, outside
  <1>2. SnapKept(conn)
    BY DEF WindowInv, ConnKept, SnapKept
  <1>3. \A d \in Callers : snaps'[d].taken =>
            snaps'[d].conn = conn \/ (snaps'[d] = snaps[d] /\ snaps[d].taken)
    BY <1>1, TimesTyped
  <1>4. ASSUME NEW d \in Callers, snaps'[d].taken
        PROVE  SnapKept(snaps[d].conn)'
    <2>1. PICK k : k = snaps'[d].conn /\ SnapKept(k)
      BY <1>2, <1>3, <1>4 DEF WindowInv, SnapsKept
    <2>2. QED
      BY <1>1, <2>1 DEF SnapKept, Fresh
  <1>5. QED
    BY <1>4 DEF SnapsKept

LEMMA WindowNext ==
    ASSUME SyncTypes, WindowInv, OneCaller, [OrderSyncNext]_vars
    PROVE  WindowInv'
  <1> SUFFICES ConnKept' /\ RunKept' /\ SnapsKept'
    BY SourcesNext DEF WindowInv
  <1>1. /\ NoRun.stage = "idle" /\ NoSnap.taken = FALSE
        /\ snaps \in [Callers -> [taken : BOOLEAN, conn : Window]]
        /\ run \in RunStates
    BY NothingTyped, TimesTyped DEF NoSnap
  <1>2. CASE EndPage
    BY <1>2, WindowEnd
  <1>3. CASE \E c \in Callers : StartSync(c)
    BY <1>3, WindowStart
  <1>4. ASSUME NEW c \in Callers, ReadConnection(c)
        PROVE  ConnKept' /\ RunKept' /\ SnapsKept'
    <2>1. UNCHANGED <<run, conn>>
      BY <1>4 DEF ReadConnection
    <2>2. QED
      BY <1>4, <2>1, ConnStill, RunStill, WindowCallers
  <1>5. CASE FetchPage \/ ReadExisting \/ UpsertOrder \/ DetectChanges \/ CountOrder
    <2>1. run.stage # "idle" /\ UNCHANGED <<conn, snaps>>
      BY <1>5 DEF FetchPage, ReadExisting, UpsertOrder, DetectChanges, CountOrder
    <2>2. ConnKept' /\ SnapsKept'
      BY <2>1, ConnStill, SnapsStill
    <2>3. RunKept'
      BY <1>5, WindowFetch, WindowRead, WindowUpsert, WindowDetect
    <2>4. QED
      BY <2>2, <2>3
  <1>6. CASE /\ conn' = conn
             /\ run' = run \/ run' = NoRun
             /\ \A c \in Callers : snaps'[c].taken => snaps'[c] = snaps[c]
    <2>1. run.stage = "idle" => run'.stage = "idle"
      BY <1>1, <1>6
    <2>2. RunKept'
      <3>1. CASE run' = run
        BY <1>6, <3>1, RunStill
      <3>2. CASE run' = NoRun
        BY <1>1, <3>2 DEF RunKept
      <3>3. QED
        BY <1>6, <3>1, <3>2
    <2>3. QED
      BY <1>6, <2>1, <2>2, ConnStill, SnapsStill
  <1>7. CASE SyncFails \/ Crash \/ \E c \in Callers : JoinRunning(c)
    <2>1. /\ conn' = conn
          /\ run' = run \/ run' = NoRun
      BY <1>7 DEF SyncFails, Crash, JoinRunning
    <2>2. \A c \in Callers : snaps'[c].taken => snaps'[c] = snaps[c]
      BY <1>1, <1>7 DEF SyncFails, Crash, JoinRunning
    <2>3. QED
      BY <1>6, <2>1, <2>2
  <1>8. CASE UNCHANGED <<conn, run, snaps>>
    BY <1>6, <1>8
  <1>9. QED
    BY <1>2, <1>3, <1>4, <1>5, <1>7, <1>8
    DEF OrderSyncNext, vars, outside, BookOutcome, BookingFails, ViewTimeline,
        backfillSyntheticEvents, PlatformUpdate, TimePasses, DeleteOrder,
        ReceiveWebhook, RemoveGone, ReadStored, UpsertCurrentOrder, CountFromHook

(* No order update falls between two windows of a sync, if requests for a  *)
(* sync do not overlap (runSync, and the cursor and the window it leaves   *)
(* in the connection).                                                     *)
THEOREM SyncNoUpdateSkipped ==
    ASSUME \A c, d \in Callers : c = d
    PROVE  OrderSyncSpec => NoUpdateSkipped
  <1> OneCaller
    BY DEF OneCaller
  <1>1. OrderSyncInit => SyncTypes /\ WindowInv
    BY SyncInitTypes, WindowInit
  <1>2. SyncTypes /\ WindowInv /\ [OrderSyncNext]_vars => (SyncTypes /\ WindowInv)'
    BY SyncTypesNext, WindowNext
  <1>3. SyncTypes /\ WindowInv /\ [OrderSyncNext]_vars =>
            [conn'.last # conn.last =>
                 \A o \in Orders :
                     Exists(o) /\ remote[o].at < conn'.last /\ "raced" \notin mishaps[o]
                     => rows[o] = remote[o]]_vars
    <2> SUFFICES ASSUME SyncTypes, WindowInv, OrderSyncNext, conn'.last # conn.last,
                        NEW o \in Orders, Exists(o), remote[o].at < conn'.last,
                        "raced" \notin mishaps[o]
                 PROVE  rows[o] = remote[o]
      OBVIOUS
    <2>1. CASE EndPage
      <3>1. conn'.last = run.started /\ Fresh(o, run.started)
        BY <2>1, WindowEnd
      <3>2. QED
        BY <3>1 DEF Fresh, Kept, Exists
    <2>2. ASSUME NEW c \in Callers, StartSync(c) PROVE FALSE
      BY <2>2, TimesTyped DEF StartSync, Window
    <2>3. QED
      BY <2>1, <2>2
      DEF OrderSyncNext, outside, BookOutcome, BookingFails, ViewTimeline,
        backfillSyntheticEvents, ReadConnection, JoinRunning,
        PlatformUpdate, TimePasses, FetchPage, ReadExisting, UpsertOrder,
        DetectChanges, CountOrder, SyncFails, Crash, DeleteOrder,
        ReceiveWebhook, RemoveGone, ReadStored, UpsertCurrentOrder, CountFromHook
  <1>4. QED
    BY <1>1, <1>2, <1>3, PTL DEF OrderSyncSpec, NoUpdateSkipped

(***************************************************************************)
(* ShopOrders.                                                             *)
(***************************************************************************)
Lines == [Keys -> Nat]
DiscountsGiven == {0} \cup {Discounted(lines, value) : lines \in Lines, value \in Discounts}
PlacedOrder ==
    [store : Stores, lines : Lines, promo : BOOLEAN, discount : DiscountsGiven,
     status : {"PENDING", "CONFIRMED", "SHIPPED", "DELIVERED", "CANCELLED"},
     shipped : BOOLEAN, by : {"none", "MERCHANT", "ADMIN"}]
TapStates ==
    [stage : {"idle", "locked", "ready"}, store : Stores \cup {"none"},
     lines : Lines, promo : BOOLEAN, discount : DiscountsGiven]

ShopTypes ==
    /\ cart \in [Stores -> Lines]
    /\ tap \in [Taps -> TapStates]
    /\ orders \in Seq(PlacedOrder)
    /\ promo \in [active : BOOLEAN, value : Discounts, used : Nat]

(* A confirmation that goes on holds the lock of its store alone, and once *)
(* it has computed, the cart is what it computed from.                     *)
StoresLocked ==
    /\ \A t \in Taps : tap[t].stage # "idle" => tap[t].store \in Stores
    /\ \A t, u \in Taps :
           tap[t].stage # "idle" /\ tap[u].stage # "idle" /\ t # u
               => tap[t].store # tap[u].store
    /\ \A t \in Taps : tap[t].stage = "ready" => tap[t].lines = cart[tap[t].store]

ShopInv == ShopTypes /\ StoresLocked /\ PromoUsesExact

-----------------------------------------------------------------------------
(* The orders that stand with the promo.                                   *)
LEMMA PromoOrdersFinite ==
    ASSUME ShopTypes, NEW S
    PROVE  /\ IsFiniteSet(PromoOrders(S)) /\ Cardinality(PromoOrders(S)) \in Nat
           /\ DOMAIN orders = 1 .. Len(orders) /\ Len(orders) \in Nat
  <1>1. DOMAIN orders = 1 .. Len(orders) /\ Len(orders) \in Nat
    BY LenProperties DEF ShopTypes
  <1>2. PromoOrders(S) \in SUBSET (1 .. Len(orders))
    BY <1>1 DEF PromoOrders, Standing
  <1>3. IsFiniteSet(1 .. Len(orders))
    BY <1>1, FS_Interval
  <1>4. QED
    BY <1>1, <1>2, <1>3, FS_Subset, FS_CardinalityType

LEMMA NoTapState == NoTap \in TapStates /\ NoTap.stage = "idle"
  BY DEF NoTap, NoLines, TapStates, Lines, DiscountsGiven

LEMMA ShopInitInv == ASSUME ShopAssumption, ShopInit PROVE ShopInv
  <1>1. NoLines \in Lines
    BY DEF NoLines, Lines
  <1>2. ShopTypes
    <2>1. NoTap \in TapStates
      BY NoTapState
    <2>2. /\ cart = [s \in Stores |-> NoLines] /\ tap = [t \in Taps |-> NoTap]
          /\ orders = <<>> /\ FirstDiscount \in Discounts
          /\ promo = [active |-> TRUE, value |-> FirstDiscount, used |-> 0]
      BY DEF ShopInit, ShopAssumption
    <2>3. orders \in Seq(PlacedOrder)
      BY <2>2
    <2>4. QED
      BY <1>1, <2>1, <2>2, <2>3 DEF ShopTypes
  <1>3. StoresLocked
    BY DEF ShopInit, StoresLocked, NoTap
  <1>4. \A S : PromoOrders(S) = {}
    <2>1. DOMAIN orders = {}
      BY DEF ShopInit
    <2>2. QED
      BY <2>1 DEF PromoOrders, Standing
  <1>5. PromoUsesExact
    <2>1. \A S : Cardinality(PromoOrders(S)) = 0
      BY <1>4, FS_EmptySet
    <2>2. promo.used = 0 /\ UsageLimit \in Nat /\ PerStoreLimit \in Nat
      BY DEF ShopInit, ShopAssumption
    <2>3. QED
      BY <2>1, <2>2 DEF PromoUsesExact
  <1>6. QED
    BY <1>2, <1>3, <1>5 DEF ShopInv

(* What leaves the orders and the promo's counter alone.                   *)
LEMMA PromoKept ==
    ASSUME PromoUsesExact, orders' = orders, promo'.used = promo.used
    PROVE  PromoUsesExact'
  <1>1. \A S : PromoOrders(S)' = PromoOrders(S)
    BY DEF PromoOrders, Standing
  <1>2. QED
    BY <1>1 DEF PromoUsesExact

LEMMA ShopCartSteps ==
    ASSUME ShopInv, ShopAssumption, NEW s \in Stores, NEW k \in Keys, CartStep(s, k)
    PROVE  ShopInv'
  <1>1. PICK quantity \in Nat :
            /\ StoreFree(s) /\ SetRow(s, k, quantity)
            /\ UNCHANGED <<promo, tap, orders>>
    BY DEF CartStep, AddItem, UpdateItem, RemoveItem, ShopInv, ShopTypes, Lines,
           Quantities, ShopAssumption
  <1>2. /\ cart \in [Stores -> Lines]
        /\ cart' = [cart EXCEPT ![s] = [cart[s] EXCEPT ![k] = quantity]]
    BY <1>1 DEF SetRow, ShopInv, ShopTypes
  <1>3. [cart[s] EXCEPT ![k] = quantity] \in Lines
    BY <1>1, <1>2 DEF Lines
  <1>4. cart' \in [Stores -> Lines] /\ \A q \in Stores \ {s} : cart'[q] = cart[q]
    BY <1>2, <1>3
  <1>5. ShopTypes'
    BY <1>1, <1>4 DEF ShopInv, ShopTypes
  <1>6. StoresLocked'
    BY <1>1, <1>4 DEF ShopInv, StoresLocked, StoreFree
  <1>7. QED
    BY <1>1, <1>5, <1>6, PromoKept DEF ShopInv

-----------------------------------------------------------------------------
(* The confirmation.                                                       *)
LEMMA ShopConfirm ==
    ASSUME ShopInv, NEW t \in Taps, NEW s \in Stores, NEW code \in BOOLEAN,
           Confirm(t, s, code)
    PROVE  ShopInv'
  <1> DEFINE now == [NoTap EXCEPT !.stage = "locked", !.store = s, !.promo = code]
  <1>1. /\ now \in TapStates /\ now.stage = "locked" /\ now.store = s
    <2>1. NoTap \in TapStates
      BY NoTapState
    <2>2. QED
      BY <2>1 DEF TapStates
  <1>2. /\ tap' = [tap EXCEPT ![t] = now] /\ tap \in [Taps -> TapStates]
        /\ StoreFree(s) /\ UNCHANGED <<cart, orders, promo>>
    BY DEF Confirm, Becomes, ShopInv, ShopTypes
  <1> HIDE DEF now
  <1>3. ShopTypes'
    BY <1>1, <1>2 DEF ShopInv, ShopTypes
  <1>4. tap'[t] = now /\ \A u \in Taps \ {t} : tap'[u] = tap[u]
    BY <1>2
  <1>5. StoresLocked'
    BY <1>1, <1>2, <1>4 DEF ShopInv, StoresLocked, StoreFree
  <1>6. QED
    BY <1>2, <1>3, <1>5, PromoKept DEF ShopInv

LEMMA ShopCompute ==
    ASSUME ShopInv, NEW t \in Taps, Compute(t)
    PROVE  ShopInv'
  <1> DEFINE s == tap[t].store
             given == IF tap[t].promo THEN Discounted(cart[s], promo.value) ELSE 0
             now == [tap[t] EXCEPT !.stage = "ready", !.lines = cart[s],
                                   !.discount = given]
  <1>1. /\ tap \in [Taps -> TapStates] /\ tap[t] \in TapStates
        /\ tap[t].stage = "locked" /\ s \in Stores /\ cart[s] \in Lines
        /\ promo.value \in Discounts
    BY DEF Compute, ShopInv, ShopTypes, StoresLocked
  <1>2. given \in DiscountsGiven
    BY <1>1 DEF DiscountsGiven
  <1>3. tap' = [tap EXCEPT ![t] = now] /\ UNCHANGED <<cart, orders, promo>>
    BY DEF Compute, Becomes
  <1> HIDE DEF given
  <1>4. /\ now \in TapStates /\ now.stage = "ready" /\ now.store = s
        /\ now.lines = cart[s]
    BY <1>1, <1>2 DEF TapStates
  <1> HIDE DEF now
  <1>5. tap'[t] = now /\ \A u \in Taps \ {t} : tap'[u] = tap[u]
    BY <1>1, <1>3
  <1>6. ShopTypes'
    BY <1>1, <1>3, <1>4 DEF ShopInv, ShopTypes
  <1>7. StoresLocked'
    BY <1>1, <1>3, <1>4, <1>5 DEF ShopInv, StoresLocked
  <1>8. QED
    BY <1>3, <1>6, <1>7, PromoKept DEF ShopInv

(* A confirmation that ends frees its store.                               *)
LEMMA TapEnds ==
    ASSUME ShopInv, NEW t \in Taps, Becomes(t, NoTap),
           tap[t].stage # "idle",
           \A s \in Stores : s # tap[t].store => cart'[s] = cart[s]
    PROVE  tap' \in [Taps -> TapStates] /\ StoresLocked'
  <1>1. NoTap \in TapStates /\ NoTap.stage = "idle"
    BY NoTapState
  <1>2. tap \in [Taps -> TapStates] /\ tap' = [tap EXCEPT ![t] = NoTap]
    BY DEF Becomes, ShopInv, ShopTypes
  <1>3. tap'[t] = NoTap /\ \A u \in Taps \ {t} : tap'[u] = tap[u]
    BY <1>2
  <1>4. StoresLocked'
    <2>1. ASSUME NEW u \in Taps, tap'[u].stage = "ready"
          PROVE  tap'[u].lines = cart'[tap'[u].store]
      BY <1>1, <1>3, <2>1 DEF ShopInv, StoresLocked
    <2>2. QED
      BY <1>1, <1>3, <2>1 DEF ShopInv, StoresLocked
  <1>5. QED
    BY <1>1, <1>2, <1>4

LEMMA ShopRollBack ==
    ASSUME ShopInv, NEW t \in Taps, RollBack(t)
    PROVE  ShopInv'
  <1>1. /\ Becomes(t, NoTap) /\ UNCHANGED <<cart, orders, promo>>
    BY DEF RollBack
  <1>2. CASE tap[t].stage # "idle"
    <2>1. tap' \in [Taps -> TapStates] /\ StoresLocked'
      BY <1>1, <1>2, TapEnds
    <2>2. QED
      BY <1>1, <2>1, PromoKept DEF ShopInv, ShopTypes
  <1>3. CASE tap[t].stage = "idle"
    <2>1. /\ NoTap \in TapStates /\ NoTap.stage = "idle"
          /\ tap' = [tap EXCEPT ![t] = NoTap] /\ tap \in [Taps -> TapStates]
      BY <1>1, NoTapState DEF Becomes, ShopInv, ShopTypes
    <2>2. /\ tap' \in [Taps -> TapStates] /\ tap'[t].stage = "idle"
          /\ \A u \in Taps \ {t} : tap'[u] = tap[u]
      BY <2>1
    <2>3. StoresLocked'
      BY <1>1, <2>2 DEF ShopInv, StoresLocked
    <2>4. QED
      BY <1>1, <2>2, <2>3, PromoKept DEF ShopInv, ShopTypes
  <1>4. QED
    BY <1>2, <1>3

(* The new order is the cart, and the cart is empty.                       *)
LEMMA PlacedIsTheCart ==
    ASSUME ShopInv, NEW t \in Taps, PlaceOrder(t)
    PROVE  LET s == tap[t].store IN
           /\ s \in Stores /\ tap[t].lines = cart[s]
           /\ cart' \in [Stores -> Lines] /\ cart'[s] = NoLines
           /\ \A q \in Stores \ {s} : cart'[q] = cart[q]
  <1> DEFINE s == tap[t].store
             left == [k \in Keys |-> IF cart[s][k] > 0 THEN 0 ELSE cart[s][k]]
  <1>1. s \in Stores /\ tap[t].lines = cart[s]
    BY DEF PlaceOrder, ShopInv, StoresLocked
  <1>2. cart \in [Stores -> Lines] /\ cart[s] \in Lines
    BY <1>1 DEF ShopInv, ShopTypes
  <1>3. left = NoLines /\ left \in Lines
    BY <1>2 DEF Lines, NoLines
  <1>4. cart' = [cart EXCEPT ![s] = left]
    BY <1>1 DEF PlaceOrder
  <1> HIDE DEF left
  <1>5. QED
    BY <1>1, <1>2, <1>3, <1>4

LEMMA ShopPlaceOrder ==
    ASSUME ShopInv, NEW t \in Taps, PlaceOrder(t)
    PROVE  ShopInv'
  <1> DEFINE s == tap[t].store
             order == [store |-> s, lines |-> tap[t].lines, status |-> "PENDING",
                       promo |-> tap[t].promo, discount |-> tap[t].discount,
                       shipped |-> FALSE, by |-> "none"]
             next == Len(orders) + 1
  <1>1. /\ tap[t] \in TapStates /\ tap[t].stage = "ready" /\ s \in Stores
        /\ orders \in Seq(PlacedOrder) /\ promo.used \in Nat
        /\ promo \in [active : BOOLEAN, value : Discounts, used : Nat]
    BY DEF PlaceOrder, ShopInv, ShopTypes, StoresLocked
  <1>2. order \in PlacedOrder
    BY <1>1 DEF TapStates, PlacedOrder
  <1>3. /\ orders' = Append(orders, order) /\ Becomes(t, NoTap)
        /\ promo' = IF tap[t].promo THEN [promo EXCEPT !.used = promo.used + 1]
                    ELSE promo
        /\ tap[t].promo => PromoApplies(s)
    BY DEF PlaceOrder, ClaimPromo
  <1>4. /\ order.store = s /\ order.status = "PENDING"
        /\ order.promo = tap[t].promo
    OBVIOUS
  <1> HIDE DEF order
  <1>5. /\ orders' \in Seq(PlacedOrder) /\ Len(orders') = next /\ Len(orders) \in Nat
        /\ \A i \in 1 .. Len(orders) : orders'[i] = orders[i]
        /\ orders'[next] = order
        /\ DOMAIN orders = 1 .. Len(orders) /\ DOMAIN orders' = 1 .. next
    <2>1. /\ orders' \in Seq(PlacedOrder) /\ Len(orders') = next
          /\ \A i \in 1 .. Len(orders) : orders'[i] = orders[i]
          /\ orders'[next] = order
      BY <1>1, <1>2, <1>3, AppendProperties
    <2>2. QED
      BY <1>1, <2>1, LenProperties
  <1>6. ASSUME NEW S \in SUBSET Stores
        PROVE  PromoOrders(S)' = IF tap[t].promo /\ s \in S
                                 THEN PromoOrders(S) \cup {next} ELSE PromoOrders(S)
    BY <1>1, <1>4, <1>5 DEF PromoOrders, Standing
  <1>7. ASSUME NEW S \in SUBSET Stores
        PROVE  Cardinality(PromoOrders(S)') = IF tap[t].promo /\ s \in S
                   THEN Cardinality(PromoOrders(S)) + 1 ELSE Cardinality(PromoOrders(S))
    <2>1. next \notin PromoOrders(S)
      BY <1>5 DEF PromoOrders, Standing
    <2>2. IsFiniteSet(PromoOrders(S))
      BY PromoOrdersFinite DEF ShopInv
    <2>3. QED
      BY <1>6, <2>1, <2>2, FS_AddElement
  <1>8. PromoUsesExact'
    <2>1. promo'.used = IF tap[t].promo THEN promo.used + 1 ELSE promo.used
      BY <1>1, <1>3
    <2>2. promo'.used = Cardinality(PromoOrders(Stores)')
      BY <1>1, <1>7, <2>1 DEF ShopInv, PromoUsesExact
    <2>3. promo'.used <= UsageLimit
      BY <1>1, <1>3, <2>1, ShopAssumption
      DEF ShopInv, PromoUsesExact, PromoApplies, ShopAssumption
    <2>4. ASSUME NEW q \in Stores
          PROVE  Cardinality(PromoOrders({q})') <= PerStoreLimit
      <3>1. Cardinality(PromoOrders({q})') = IF tap[t].promo /\ s \in {q}
                THEN Cardinality(PromoOrders({q})) + 1 ELSE Cardinality(PromoOrders({q}))
        BY <1>7
      <3>2. Cardinality(PromoOrders({q})) \in Nat /\ PerStoreLimit \in Nat
        BY PromoOrdersFinite, ShopAssumption DEF ShopInv, ShopAssumption
      <3>3. tap[t].promo => Cardinality(PromoOrders({s})) < PerStoreLimit
        BY <1>3 DEF PromoApplies
      <3>4. Cardinality(PromoOrders({q})) <= PerStoreLimit
        BY DEF ShopInv, PromoUsesExact
      <3>5. QED
        BY <3>1, <3>2, <3>3, <3>4
    <2>5. QED
      BY <2>2, <2>3, <2>4 DEF PromoUsesExact
  <1>9. tap' \in [Taps -> TapStates] /\ StoresLocked'
    BY <1>1, <1>3, PlacedIsTheCart, TapEnds
  <1>10. promo' \in [active : BOOLEAN, value : Discounts, used : Nat]
    BY <1>1, <1>3
  <1>11. ShopTypes'
    BY <1>5, <1>9, <1>10, PlacedIsTheCart DEF ShopTypes
  <1>12. QED
    BY <1>8, <1>9, <1>11 DEF ShopInv

-----------------------------------------------------------------------------
(* The life of an order.                                                   *)
LEMMA ShopCancel ==
    ASSUME ShopInv, NEW o \in DOMAIN orders, NEW by \in {"MERCHANT", "ADMIN"},
           Cancel(o, by)
    PROVE  ShopInv'
  <1> DEFINE order == [orders[o] EXCEPT !.status = "CANCELLED", !.by = by]
  <1>1. /\ orders \in Seq(PlacedOrder) /\ o \in 1 .. Len(orders)
        /\ DOMAIN orders = 1 .. Len(orders) /\ Len(orders) \in Nat
        /\ orders[o] \in PlacedOrder /\ promo.used \in Nat
        /\ promo \in [active : BOOLEAN, value : Discounts, used : Nat]
    BY LenProperties DEF ShopInv, ShopTypes
  <1>2. /\ order \in PlacedOrder /\ order.status = "CANCELLED"
        /\ orders' = [orders EXCEPT ![o] = order]
        /\ orders[o].status # "CANCELLED"
        /\ promo' = IF orders[o].promo /\ promo.used > 0
                    THEN [promo EXCEPT !.used = promo.used - 1] ELSE promo
        /\ UNCHANGED <<cart, tap>>
    BY <1>1 DEF Cancel, PlacedOrder, Cancellable
  <1> HIDE DEF order
  <1>3. /\ orders' \in Seq(PlacedOrder) /\ DOMAIN orders' = DOMAIN orders
        /\ \A i \in DOMAIN orders : orders'[i] = IF i = o THEN order ELSE orders[i]
    BY <1>1, <1>2, ExceptSeq
  <1>4. ASSUME NEW S PROVE PromoOrders(S)' = PromoOrders(S) \ {o}
    BY <1>1, <1>2, <1>3 DEF PromoOrders, Standing
  <1>5. ASSUME NEW S
        PROVE  /\ Cardinality(PromoOrders(S)) \in Nat
               /\ Cardinality(PromoOrders(S)') = IF o \in PromoOrders(S)
                      THEN Cardinality(PromoOrders(S)) - 1
                      ELSE Cardinality(PromoOrders(S))
               /\ Cardinality(PromoOrders(S)') \in Nat
    <2>1. IsFiniteSet(PromoOrders(S)) /\ Cardinality(PromoOrders(S)) \in Nat
      BY PromoOrdersFinite DEF ShopInv
    <2>2. /\ IsFiniteSet(PromoOrders(S) \ {o})
          /\ Cardinality(PromoOrders(S) \ {o}) = IF o \in PromoOrders(S)
                 THEN Cardinality(PromoOrders(S)) - 1 ELSE Cardinality(PromoOrders(S))
      BY <2>1, FS_RemoveElement
    <2>3. Cardinality(PromoOrders(S) \ {o}) \in Nat
      BY <2>2, FS_CardinalityType
    <2>4. QED
      BY <1>4, <2>1, <2>2, <2>3
  <1>6. o \in PromoOrders(Stores) <=> orders[o].promo
    BY <1>1, <1>2 DEF PromoOrders, Standing, PlacedOrder
  <1>7. /\ promo'.used = IF orders[o].promo THEN promo.used - 1 ELSE promo.used
        /\ promo'.used \in Nat /\ promo'.used <= promo.used
        /\ promo' \in [active : BOOLEAN, value : Discounts, used : Nat]
    <2>1. orders[o].promo => promo.used > 0
      BY <1>1, <1>5, <1>6 DEF ShopInv, PromoUsesExact
    <2>2. CASE orders[o].promo
      <3>1. promo.used - 1 \in Nat
        BY <1>1, <2>1, <2>2
      <3>2. QED
        BY <1>1, <1>2, <2>1, <2>2, <3>1
    <2>3. CASE ~ orders[o].promo
      BY <1>1, <1>2, <2>3
    <2>4. QED
      BY <2>2, <2>3
  <1>8. PromoUsesExact'
    <2>1. promo'.used = Cardinality(PromoOrders(Stores)')
      BY <1>5, <1>6, <1>7 DEF ShopInv, PromoUsesExact
    <2>2. promo'.used <= UsageLimit
      BY <1>1, <1>7, ShopAssumption DEF ShopInv, PromoUsesExact, ShopAssumption
    <2>3. ASSUME NEW s \in Stores
          PROVE  Cardinality(PromoOrders({s})') <= PerStoreLimit
      <3>1. PerStoreLimit \in Nat /\ Cardinality(PromoOrders({s})) <= PerStoreLimit
        BY ShopAssumption DEF ShopInv, PromoUsesExact, ShopAssumption
      <3>2. QED
        BY <1>5, <3>1
    <2>4. QED
      BY <2>1, <2>2, <2>3 DEF PromoUsesExact
  <1>9. QED
    BY <1>2, <1>3, <1>7, <1>8 DEF ShopInv, ShopTypes, StoresLocked

(* Only an order that is not delivered yet goes on.                        *)
LEMMA BeforeDelivery ==
    ASSUME NEW to \in {"CONFIRMED", "SHIPPED", "DELIVERED"}
    PROVE  Before(to) \subseteq {"PENDING", "CONFIRMED", "SHIPPED"}
  <1>1. \E j \in 1 .. 4 : Forward[j] = to
    BY DEF Forward
  <1>2. (CHOOSE j \in 1 .. 4 : Forward[j] = to) \in 1 .. 4
    BY <1>1
  <1>3. ASSUME NEW i \in 1 .. 3
        PROVE  Forward[i] \in {"PENDING", "CONFIRMED", "SHIPPED"}
    BY <1>3 DEF Forward
  <1>4. QED
    BY <1>2, <1>3 DEF Before

LEMMA ShopAdvance ==
    ASSUME ShopInv, NEW o \in DOMAIN orders,
           NEW to \in {"CONFIRMED", "SHIPPED", "DELIVERED"}, Advance(o, to)
    PROVE  ShopInv'
  <1> DEFINE shipped == orders[o].shipped \/ to \in {"SHIPPED", "DELIVERED"}
             order == [orders[o] EXCEPT !.status = to, !.shipped = shipped]
  <1>1. /\ orders \in Seq(PlacedOrder) /\ o \in 1 .. Len(orders)
        /\ DOMAIN orders = 1 .. Len(orders) /\ orders[o] \in PlacedOrder
    BY LenProperties DEF ShopInv, ShopTypes
  <1>2. orders[o].status # "CANCELLED"
    BY BeforeDelivery DEF Advance
  <1>3. shipped \in BOOLEAN
    OBVIOUS
  <1>4. orders' = [orders EXCEPT ![o] = order] /\ UNCHANGED <<cart, tap, promo>>
    BY <1>1 DEF Advance
  <1> HIDE DEF shipped
  <1>5. /\ order \in PlacedOrder /\ order.status = to
        /\ order.promo = orders[o].promo /\ order.store = orders[o].store
    BY <1>1, <1>3 DEF PlacedOrder
  <1> HIDE DEF order
  <1>6. /\ orders' \in Seq(PlacedOrder) /\ DOMAIN orders' = DOMAIN orders
        /\ \A i \in DOMAIN orders : orders'[i] = IF i = o THEN order ELSE orders[i]
    BY <1>1, <1>4, <1>5, ExceptSeq
  <1>7. \A S : PromoOrders(S)' = PromoOrders(S)
    BY <1>1, <1>2, <1>5, <1>6 DEF PromoOrders, Standing
  <1>8. PromoUsesExact'
    BY <1>4, <1>7 DEF ShopInv, PromoUsesExact
  <1>9. QED
    BY <1>4, <1>6, <1>8 DEF ShopInv, ShopTypes, StoresLocked

-----------------------------------------------------------------------------
(* Edits.  The rows of a deleted option leave the carts; a confirmation    *)
(* that has computed with one holds its product's lock.                    *)
LEMMA ShopReplaceOptions ==
    ASSUME ShopInv, NEW p \in Products, NEW listed, ReplaceOptions(p, listed)
    PROVE  ShopInv'
  <1> DEFINE dropped == LiveOf(p) \ DOMAIN listed
  <1>1. /\ cart' = [s \in Stores |->
                       [k \in Keys |-> IF k \in dropped THEN 0 ELSE cart[s][k]]]
        /\ ProductsFree({p}) /\ UNCHANGED <<promo, tap, orders>>
    BY DEF ReplaceOptions
  <1>2. \A k \in dropped : k \in Options /\ Product(k) = p
    BY DEF LiveOf, OptionsOf, Live, Product
  <1> HIDE DEF dropped
  <1>3. cart \in [Stores -> Lines] /\ cart' \in [Stores -> Lines]
    BY <1>1 DEF Lines, ShopInv, ShopTypes
  <1>4. ASSUME NEW t \in Taps, tap[t].stage = "ready"
        PROVE  cart'[tap[t].store] = cart[tap[t].store]
    <2> DEFINE s == tap[t].store
    <2>1. s \in Stores /\ cart[s] = tap[t].lines /\ cart[s] \in Lines
      BY <1>3, <1>4 DEF ShopInv, StoresLocked
    <2>2. ASSUME NEW k \in Keys, k \in dropped PROVE cart[s][k] = 0
      <3>1. k \notin Rows(tap[t].lines)
        BY <1>1, <1>2, <1>4, <2>2 DEF ProductsFree
      <3>2. QED
        BY <2>1, <3>1 DEF Rows, Lines
    <2>3. cart'[s] = [k \in Keys |-> IF k \in dropped THEN 0 ELSE cart[s][k]]
      BY <1>1, <2>1
    <2>4. QED
      BY <2>1, <2>2, <2>3 DEF Lines
  <1>5. ShopTypes'
    BY <1>1, <1>3 DEF ShopInv, ShopTypes
  <1>6. StoresLocked'
    BY <1>1, <1>4 DEF ShopInv, StoresLocked
  <1>7. QED
    BY <1>1, <1>5, <1>6, PromoKept DEF ShopInv

LEMMA ShopEditPromo ==
    ASSUME ShopInv, NEW isActive \in BOOLEAN, NEW value \in Discounts,
           EditPromo(isActive, value)
    PROVE  ShopInv'
  <1>1. promo' = [promo EXCEPT !.active = isActive, !.value = value]
        /\ UNCHANGED <<cart, tap, orders>>
    BY DEF EditPromo
  <1>2. /\ promo' \in [active : BOOLEAN, value : Discounts, used : Nat]
        /\ promo'.used = promo.used
    BY <1>1 DEF ShopInv, ShopTypes
  <1>3. QED
    BY <1>1, <1>2, PromoKept DEF ShopInv, ShopTypes, StoresLocked

LEMMA ShopUntouched ==
    ASSUME ShopInv, UNCHANGED <<cart, tap, orders, promo>>
    PROVE  ShopInv'
  BY PromoKept DEF ShopInv, ShopTypes, StoresLocked

LEMMA ShopInvNext ==
    ASSUME ShopInv, ShopAssumption, [ShopNext]_shopVars
    PROVE  ShopInv'
  <1>1. CASE UNCHANGED shopVars
    BY <1>1, ShopUntouched DEF shopVars
  <1>2. CASE \E s \in Stores, k \in Keys : CartStep(s, k)
    BY <1>2, ShopCartSteps
  <1>3. CASE \E t \in Taps : TapStep(t)
    BY <1>3, ShopConfirm, ShopCompute, ShopPlaceOrder, ShopRollBack DEF TapStep
  <1>4. CASE \E o \in DOMAIN orders, by \in {"MERCHANT", "ADMIN"} : Cancel(o, by)
    BY <1>4, ShopCancel
  <1>5. CASE \/ \E o \in DOMAIN orders, to \in {"CONFIRMED", "SHIPPED"} : Advance(o, to)
             \/ \E o \in DOMAIN orders : Deliver(o)
    BY <1>5, ShopAdvance DEF Deliver
  <1>6. CASE \E p \in Products : ProductStep(p)
    <2>1. PICK p \in Products : ProductStep(p)
      BY <1>6
    <2>2. CASE \E listed \in Listings(p) : ReplaceOptions(p, listed)
      BY <2>2, ShopReplaceOptions
    <2>3. CASE \/ \E quantity \in 0 .. MaxStock : SetStock(p, quantity)
               \/ SetStatus(p)
      BY <2>3, ShopUntouched DEF SetStock, SetStatus
    <2>4. QED
      BY <2>1, <2>2, <2>3 DEF ProductStep
  <1>7. CASE \E isActive \in BOOLEAN, value \in Discounts : EditPromo(isActive, value)
    BY <1>7, ShopEditPromo
  <1>8. QED
    BY <1>1, <1>2, <1>3, <1>4, <1>5, <1>6, <1>7 DEF ShopNext, ShopStep

LEMMA ShopInvariant == ShopSpec => []ShopInv
  <1>1. ShopInit => ShopInv
    BY ShopInitInv, ShopAssumption
  <1>2. ShopInv /\ [ShopNext]_shopVars => ShopInv'
    BY ShopInvNext, ShopAssumption
  <1>3. QED
    BY <1>1, <1>2, PTL DEF ShopSpec

(* The promo's counter is the number of orders that stand with it, and no  *)
(* limit is exceeded, for any number of merchants who confirm their carts  *)
(* at once: claimPromo counts and checks in the transaction that creates   *)
(* the order, and a cancellation gives the use back once.                  *)
THEOREM ShopPromoUsesExact == ShopSpec => []PromoUsesExact
  <1>1. ShopInv => PromoUsesExact
    BY DEF ShopInv
  <1>2. QED
    BY <1>1, ShopInvariant, PTL

(* An order takes exactly what its store's cart holds when it is placed,   *)
(* and empties it: the store's lock keeps the merchant, and the locks of   *)
(* the products keep the administrator, from the rows it was computed from.*)
THEOREM ShopOrderIsTheCart == ShopSpec => OrderIsTheCart
  <1> DEFINE NewIsCart == \A o \in DOMAIN orders' \ DOMAIN orders :
                 LET s == orders'[o].store IN
                 orders'[o].lines = cart[s] /\ cart'[s] = NoLines
  <1>1. ASSUME ShopInv, [ShopNext]_shopVars PROVE [NewIsCart]_shopVars
    <2>1. CASE DOMAIN orders' = DOMAIN orders
      BY <2>1
    <2>2. ASSUME NEW t \in Taps, PlaceOrder(t) PROVE NewIsCart
      <3> DEFINE s == tap[t].store
                 order == [store |-> s, lines |-> tap[t].lines, status |-> "PENDING",
                           promo |-> tap[t].promo, discount |-> tap[t].discount,
                           shipped |-> FALSE, by |-> "none"]
      <3>1. /\ s \in Stores /\ tap[t].lines = cart[s] /\ cart'[s] = NoLines
        BY <1>1, <2>2, PlacedIsTheCart
      <3>2. orders \in Seq(PlacedOrder) /\ tap[t] \in TapStates
        BY <1>1 DEF ShopInv, ShopTypes
      <3>3. order \in PlacedOrder
        BY <3>1, <3>2 DEF TapStates, PlacedOrder
      <3>4. orders' = Append(orders, order)
        BY <2>2 DEF PlaceOrder
      <3>5. order.store = s /\ order.lines = tap[t].lines
        OBVIOUS
      <3> HIDE DEF order
      <3>6. DOMAIN orders' = 1 .. Len(orders) + 1 /\ DOMAIN orders = 1 .. Len(orders)
            /\ orders'[Len(orders) + 1] = order /\ Len(orders) \in Nat
        <4>1. /\ orders' \in Seq(PlacedOrder) /\ Len(orders') = Len(orders) + 1
              /\ orders'[Len(orders) + 1] = order
          BY <3>2, <3>3, <3>4, AppendProperties
        <4>2. QED
          BY <3>2, <4>1, LenProperties
      <3>7. \A o \in DOMAIN orders' \ DOMAIN orders : o = Len(orders) + 1
        BY <3>6
      <3>8. QED
        BY <3>1, <3>5, <3>6, <3>7
    <2>3. CASE ~ (\E t \in Taps : PlaceOrder(t))
      <3>1. DOMAIN orders' = DOMAIN orders
        BY <1>1, <2>3
        DEF ShopNext, ShopStep, CartStep, TapStep, ProductStep, Deliver, Cancel,
            Advance, EditPromo, SetStock, SetStatus, ReplaceOptions, Confirm,
            Compute, RollBack, AddItem, UpdateItem, RemoveItem, shopVars
      <3>2. QED
        BY <2>1, <3>1
    <2>4. QED
      BY <2>2, <2>3
  <1>2. ShopInv /\ [ShopNext]_shopVars => [NewIsCart]_shopVars
    BY <1>1
  <1>3. QED
    BY <1>2, ShopInvariant, PTL DEF ShopSpec, OrderIsTheCart

(***************************************************************************)
(* The allocation of an order's cost to its items: the largest remainders  *)
(* take the cents that rounding down leaves, and none is left.             *)
(***************************************************************************)

(* Division with remainder.                                                *)
LEMMA Divides ==
    ASSUME NEW a \in Int, NEW b \in Int, b > 0
    PROVE  /\ a \div b \in Int /\ a % b \in Int
           /\ 0 <= a % b /\ a % b <= b - 1 /\ a = b * (a \div b) + (a % b)
  OBVIOUS

(* Nobody gains a unit more than there are to give.                        *)
LEMMA LeftoverBounds ==
    ASSUME NEW w \in Nat, w > 0, NEW x \in Int, NEW n \in Nat, NEW y \in Int,
           y = w * x, 0 <= y, y <= (w - 1) * n
    PROVE  0 <= x /\ x <= n
  <1>1. x < 0 => w * x < 0
    OBVIOUS
  <1>2. x > n => w * x > (w - 1) * n
    <2> SUFFICES ASSUME x > n PROVE w * x > (w - 1) * n
      OBVIOUS
    <2>1. (w - 1) * n = w * n - n
      OBVIOUS
    <2>2. w * x >= w * n + w
      <3>1. w * (x - n - 1) >= 0
        OBVIOUS
      <3>2. w * (x - n - 1) = w * x - w * n - w
        OBVIOUS
      <3>3. w * x \in Int /\ w * n \in Int
        OBVIOUS
      <3>4. QED
        BY <3>1, <3>2, <3>3
    <2>3. w * n \in Int /\ w * x \in Int
      OBVIOUS
    <2>4. QED
      BY <2>1, <2>2, <2>3
  <1>3. QED
    BY <1>1, <1>2
(* T is split over S in proportion to the weights w, which add up to W:    *)
(* each share is rounded down, and what is left goes, a unit each, to the  *)
(* first in the order of the remainders.  f is what each gets.             *)
Apportioned(S, T, w, W, rank, share, rest, left, ahead, f) ==
    /\ IsFiniteSet(S) /\ T \in Nat
    /\ \A k \in S : w[k] \in Nat
    /\ W \in Nat /\ W > 0 /\ W = SumFunctionOnSet(w, S)
    /\ \A k \in S : rank[k] \in Nat
    /\ \A j \in S : \A k \in S : rank[j] = rank[k] => j = k
    /\ \A k \in S : share[k] = (T * w[k]) \div W /\ rest[k] = (T * w[k]) % W
    /\ left = T - SumFunctionOnSet(share, S)
    /\ \A k \in S : ahead[k] =
           {j \in S \ {k} : \/ rest[j] > rest[k]
                            \/ rest[j] = rest[k] /\ rank[j] < rank[k]}
    /\ \A k \in S : f[k] = share[k] + IF Cardinality(ahead[k]) < left THEN 1 ELSE 0

(* It adds up to T.                                                        *)
LEMMA LargestRemainder ==
    ASSUME NEW S, NEW T, NEW w, NEW W, NEW rank, NEW share, NEW rest, NEW left,
           NEW ahead, NEW f,
           Apportioned(S, T, w, W, rank, share, rest, left, ahead, f)
    PROVE  SumFunctionOnSet(f, S) = T
  <1> USE DEF Apportioned
  <1> DEFINE scaled == [k \in S |-> T * w[k]]
             none == [k \in S |-> 0]
             n == Cardinality(S)
  <1>1. \A k \in S : /\ scaled[k] = T * w[k] /\ scaled[k] \in Nat /\ none[k] = 0
    OBVIOUS
  <1>2. \A k \in S : /\ share[k] \in Int /\ rest[k] \in Nat /\ rest[k] <= W - 1
                     /\ scaled[k] = W * share[k] + rest[k]
    <2> SUFFICES ASSUME NEW k \in S
                 PROVE  /\ share[k] \in Int /\ rest[k] \in Nat /\ rest[k] <= W - 1
                        /\ scaled[k] = W * share[k] + rest[k]
      OBVIOUS
    <2>1. scaled[k] \in Int /\ share[k] = scaled[k] \div W /\ rest[k] = scaled[k] % W
      BY <1>1
    <2>2. scaled[k] = T * w[k] /\ W \in Int
      BY <1>1
    <2> HIDE DEF scaled
    <2>3. /\ scaled[k] \div W \in Int /\ scaled[k] % W \in Int
          /\ 0 <= scaled[k] % W /\ scaled[k] % W <= W - 1
          /\ scaled[k] = W * (scaled[k] \div W) + (scaled[k] % W)
      BY ONLY <2>1, <2>2, W > 0, Divides
    <2>4. QED
      BY ONLY <2>1, <2>3
  <1> HIDE DEF scaled, none
  <1>3. SumFunctionOnSet(scaled, S) = T * W
    <2>1. \A k \in S : w[k] \in Int /\ none[k] \in Int /\ scaled[k] = T * w[k] + none[k]
      BY <1>1
    <2>2. SumFunctionOnSet(scaled, S)
              = T * SumFunctionOnSet(w, S) + SumFunctionOnSet(none, S)
      BY <2>1, SumLinear
    <2>3. SumFunctionOnSet(none, S) = 0
      BY <1>1, SumOfZeros
    <2>4. QED
      BY <2>2, <2>3
  <1>4. SumFunctionOnSet(scaled, S)
            = W * SumFunctionOnSet(share, S) + SumFunctionOnSet(rest, S)
    BY <1>2, SumLinear
  <1>5. SumFunctionOnSet(share, S) \in Int
    BY <1>2, SumType
  <1>6. SumFunctionOnSet(rest, S) \in Nat
    BY <1>2, SumNotNegative
  <1>7. n \in Nat /\ SumFunctionOnSet(rest, S) <= (W - 1) * n
    <2>1. \A k \in S : rest[k] \in Int /\ rest[k] <= W - 1
      BY <1>2
    <2>2. W - 1 \in Int
      OBVIOUS
    <2>3. SumFunctionOnSet(rest, S) <= (W - 1) * Cardinality(S)
      BY ONLY <2>1, <2>2, IsFiniteSet(S), SumAtMost
    <2>4. QED
      BY <2>3, FS_CardinalityType
  <1> HIDE DEF n
  <1>8. left \in Nat /\ left <= n
    <2>1. SumFunctionOnSet(rest, S) = W * left /\ left \in Int
      <3>1. W * left = W * T - W * SumFunctionOnSet(share, S)
        BY <1>5
      <3>2. W * T = T * W /\ W * T \in Int /\ W * SumFunctionOnSet(share, S) \in Int
        BY <1>5
      <3>3. QED
        BY <1>3, <1>4, <1>5, <1>6, <3>1, <3>2
    <2>2. 0 <= left /\ left <= n
      BY <1>6, <1>7, <2>1, LeftoverBounds
    <2>3. QED
      BY <2>1, <2>2
  <1> DEFINE R == {p \in S \X S : \/ rest[p[1]] > rest[p[2]]
                                  \/ rest[p[1]] = rest[p[2]] /\ rank[p[1]] < rank[p[2]]}
             chosen == {k \in S : Cardinality(Preceding(R, S, k)) < left}
             extra == [k \in S |-> IF k \in chosen THEN 1 ELSE 0]
  <1>9. \A j \in S : \A k \in S :
            <<j, k>> \in R <=> \/ rest[j] > rest[k]
                               \/ rest[j] = rest[k] /\ rank[j] < rank[k]
    OBVIOUS
  <1> HIDE DEF R
  <1>10. TotalOrder(R, S)
    <2>1. \A x \in S : <<x, x>> \notin R
      BY <1>2, <1>9
    <2>2. ASSUME NEW x \in S, NEW y \in S, x # y
          PROVE  <<x, y>> \in R \/ <<y, x>> \in R
      <3>1. /\ rank[x] \in Nat /\ rank[y] \in Nat /\ rank[x] # rank[y]
            /\ rest[x] \in Nat /\ rest[y] \in Nat
        BY <1>2, <2>2
      <3>2. QED
        BY ONLY <1>9, <2>2, <3>1
    <2>3. \A x \in S : \A y \in S : \A z \in S :
              <<x, y>> \in R /\ <<y, z>> \in R => <<x, z>> \in R
      BY <1>2, <1>9
    <2>4. QED
      BY <2>1, <2>2, <2>3 DEF TotalOrder
  <1>11. \A k \in S : Preceding(R, S, k) = ahead[k]
    BY <1>9, <1>10 DEF Preceding, TotalOrder
  <1>12. Cardinality(chosen) = left
    BY <1>8, <1>10, FirstOnes DEF n
  <1>13. \A k \in S : extra[k] \in Int /\ f[k] = 1 * share[k] + extra[k]
    BY <1>2, <1>11
  <1>14. SumFunctionOnSet(extra, S) = left
    <2>1. /\ chosen \subseteq S
          /\ \A k \in S : extra[k] \in Int
          /\ \A k \in S \ chosen : extra[k] = 0
          /\ \A k \in chosen : extra[k] = 1
      OBVIOUS
    <2>2. IsFiniteSet(chosen)
      BY <2>1, FS_Subset
    <2> HIDE DEF chosen, extra
    <2>3. SumFunctionOnSet(extra, S) = SumFunctionOnSet(extra, chosen)
      BY <2>1, SumRestricted
    <2>4. SumFunctionOnSet(extra, chosen) = Cardinality(chosen)
      BY <2>1, <2>2, SumOfOnes
    <2>5. QED
      BY <1>12, <2>3, <2>4
  <1> HIDE DEF extra
  <1>15. SumFunctionOnSet(f, S)
             = 1 * SumFunctionOnSet(share, S) + SumFunctionOnSet(extra, S)
    BY <1>2, <1>13, SumLinear
  <1>16. QED
    BY <1>5, <1>8, <1>14, <1>15

LEMMA KeysFinite == ASSUME ShopAssumption PROVE IsFiniteSet(Keys)
  BY FS_Union DEF ShopAssumption, Keys

LEMMA SubtotalNat ==
    ASSUME ShopAssumption, NEW lines \in Lines
    PROVE  Subtotal(lines) \in Nat
  <1> DEFINE worth == [k \in Keys |-> Price[k] * lines[k]]
  <1>1. \A k \in Keys : worth[k] \in Nat
    BY DEF ShopAssumption, Lines
  <1>2. Subtotal(lines) = SumFunctionOnSet(worth, Keys)
    BY DEF Subtotal, SumOf
  <1> HIDE DEF worth
  <1>3. QED
    BY <1>1, <1>2, KeysFinite, SumNotNegative

(* What an order, or a confirmation that has computed, asks to pay.        *)
Payable(o) ==
    /\ o.lines \in Lines
    /\ Rows(o.lines) # {}
    /\ o.discount \in Nat
    /\ o.discount <= Subtotal(o.lines)

LEMMA TotalNat ==
    ASSUME ShopAssumption, NEW o, Payable(o)
    PROVE  Total(o) \in Nat
  BY SubtotalNat DEF Payable, Total, ShopAssumption

LEMMA WeightsPositive ==
    ASSUME ShopAssumption, NEW lines \in Lines, Rows(lines) # {}
    PROVE  /\ IsFiniteSet(Rows(lines)) /\ Rows(lines) \subseteq Keys
           /\ \A k \in Rows(lines) : Weight(lines, k) \in Nat
           /\ Weights(lines) \in Nat /\ Weights(lines) > 0
  <1> DEFINE S == Rows(lines)
             weight == [k \in Keys |-> Weight(lines, k)]
             worth == [k \in Keys |-> Price[k] * lines[k]]
  <1>1. S \subseteq Keys /\ IsFiniteSet(S) /\ S # {}
    BY KeysFinite, FS_Subset DEF Rows
  <1>2. \A k \in S : lines[k] \in Nat /\ lines[k] > 0 /\ Price[k] \in Nat
    BY <1>1 DEF Rows, Lines, ShopAssumption
  <1>3. \A k \in S : Weight(lines, k) \in Nat
    BY <1>2 DEF Weight
  <1>4. \A k \in S : weight[k] = Weight(lines, k) /\ weight[k] \in Nat
    BY <1>1, <1>3
  <1>5. Weights(lines) = SumFunctionOnSet(weight, S)
    BY DEF Weights, SumOf
  <1>6. CASE Subtotal(lines) = 0
    <2>1. PICK x \in S : TRUE
      BY <1>1
    <2>2. weight[x] > 0
      BY <1>2, <1>4, <1>6 DEF Weight
    <2>3. \A k \in S : weight[k] \in Int
      BY <1>4
    <2> HIDE DEF weight, S
    <2>4. SumFunctionOnSet(weight, S) = weight[x] + SumFunctionOnSet(weight, S \ {x})
      BY <1>1, <2>1, <2>3, SumRemove
    <2>5. IsFiniteSet(S \ {x})
      BY <1>1, FS_RemoveElement
    <2>6. SumFunctionOnSet(weight, S \ {x}) \in Nat
      BY <1>4, <2>5, SumNotNegative
    <2>7. SumFunctionOnSet(weight, S) \in Nat /\ SumFunctionOnSet(weight, S) > 0
      BY <1>4, <2>1, <2>2, <2>4, <2>6
    <2>8. QED
      BY <1>1, <1>3, <1>5, <2>7 DEF S
  <1>7. CASE Subtotal(lines) # 0
    <2>1. \A k \in Keys : worth[k] \in Int /\ worth[k] = Price[k] * lines[k]
      BY DEF ShopAssumption, Lines
    <2>2. \A k \in Keys \ S : worth[k] = 0
      BY DEF Rows, Lines, ShopAssumption
    <2>3. \A k \in S : weight[k] = worth[k]
      BY <1>1, <1>4, <1>7, <2>1 DEF Weight
    <2>4. Subtotal(lines) = SumFunctionOnSet(worth, Keys)
      BY DEF Subtotal, SumOf
    <2> HIDE DEF weight, S, worth
    <2>5. SumFunctionOnSet(worth, Keys) = SumFunctionOnSet(worth, S)
      BY <1>1, <2>1, <2>2, KeysFinite, SumRestricted
    <2>6. SumFunctionOnSet(weight, S) = SumFunctionOnSet(worth, S)
      BY <1>1, <2>1, <2>3, SumSame
    <2>7. QED
      BY <1>1, <1>3, <1>5, <1>7, <2>4, <2>5, <2>6, SubtotalNat DEF S
  <1>8. QED
    BY <1>6, <1>7

(* The purchases of a payable order cost what is paid for it.              *)
Bill(o) == [k \in Keys |-> IF o.lines[k] > 0 THEN AllocatedCost(o, k) ELSE 0]

LEMMA BillAddsUp ==
    ASSUME ShopAssumption, NEW o, Payable(o)
    PROVE  Bill(o) \in [Keys -> Int] /\ SumOf(Bill(o), Keys) = Total(o)
  <1> DEFINE S == Rows(o.lines)
             W == Weights(o.lines)
             T == Total(o)
             weight == [k \in Keys |-> Weight(o.lines, k)]
             share == [k \in S |-> Share(o, k)]
             rest == [k \in S |-> Remainder(o, k)]
             ahead == [k \in S |-> Ahead(o, k)]
             left == Leftover(o)
             bill == Bill(o)
  <1>1. /\ IsFiniteSet(S) /\ S \subseteq Keys
        /\ W \in Nat /\ W > 0 /\ T \in Nat
        /\ \A k \in S : Weight(o.lines, k) \in Nat
    BY WeightsPositive, TotalNat DEF Payable
  <1>2. \A k \in S : weight[k] \in Nat /\ weight[k] = Weight(o.lines, k)
    BY <1>1
  <1>3. W = SumFunctionOnSet(weight, S)
    BY DEF Weights, SumOf
  <1>4. /\ \A k \in S : Rank[k] \in Nat
        /\ \A j \in S : \A k \in S : Rank[j] = Rank[k] => j = k
    BY <1>1 DEF ShopAssumption
  <1>5. \A k \in S : /\ share[k] = (T * weight[k]) \div W
                     /\ rest[k] = (T * weight[k]) % W
    BY <1>2 DEF Share, Remainder
  <1>6. left = T - SumFunctionOnSet(share, S)
    BY DEF Leftover, SumOf
  <1>7. \A k \in S : ahead[k] =
            {j \in S \ {k} : \/ rest[j] > rest[k]
                             \/ rest[j] = rest[k] /\ Rank[j] < Rank[k]}
    BY DEF Ahead
  <1>8. /\ \A k \in S : bill[k] = share[k]
                            + IF Cardinality(ahead[k]) < left THEN 1 ELSE 0
        /\ \A k \in Keys \ S : bill[k] = 0
        /\ DOMAIN bill = Keys
    BY <1>1 DEF Bill, AllocatedCost, Rows
  <1>9. bill = [k \in Keys |-> bill[k]]
    BY DEF Bill
  <1> HIDE DEF S, W, T, weight, share, rest, ahead, left, bill
  <1>10. \A k \in S : share[k] \in Int
    <2> SUFFICES ASSUME NEW k \in S PROVE share[k] \in Int
      OBVIOUS
    <2>1. T * weight[k] \in Int /\ W \in Int
      BY <1>1, <1>2
    <2>2. QED
      BY <1>1, <1>5, <2>1, Divides
  <1>11. SumFunctionOnSet(bill, S) = T
    <2>1. Apportioned(S, T, weight, W, Rank, share, rest, left, ahead, bill)
      BY ONLY <1>1, <1>2, <1>3, <1>4, <1>5, <1>6, <1>7, <1>8 DEF Apportioned
    <2>2. QED
      BY ONLY <2>1, LargestRemainder
  <1>12. \A k \in Keys : bill[k] \in Int
    BY <1>8, <1>10
  <1>13. SumFunctionOnSet(bill, Keys) = SumFunctionOnSet(bill, S)
    BY <1>1, <1>8, <1>12, KeysFinite, SumRestricted
  <1>14. bill \in [Keys -> Int]
    BY <1>9, <1>12
  <1>15. QED
    BY <1>11, <1>13, <1>14 DEF bill, T, SumOf

(* Nothing is spent on an order before it is delivered, and what is spent  *)
(* then is what was paid.                                                  *)
CostInv ==
    /\ purchases \in Seq([Keys -> Int]) /\ Len(purchases) = Len(orders)
    /\ \A t \in Taps : tap[t].stage = "ready" => Payable(tap[t])
    /\ \A o \in DOMAIN orders :
           /\ Payable(orders[o])
           /\ purchases[o] = IF orders[o].status = "DELIVERED"
                             THEN Bill(orders[o]) ELSE NoLines

LEMMA CostInit == ASSUME ShopInit PROVE CostInv
  <1>1. /\ orders = <<>> /\ purchases = <<>> /\ tap = [t \in Taps |-> NoTap]
    BY DEF ShopInit
  <1>2. NoTap.stage = "idle"
    BY NoTapState
  <1>3. QED
    BY <1>1, <1>2 DEF CostInv

LEMMA DiscountedFits ==
    ASSUME ShopAssumption, NEW lines \in Lines, NEW value \in Discounts
    PROVE  /\ Discounted(lines, value) \in Nat
           /\ Discounted(lines, value) <= Subtotal(lines)
  <1>1. value \in Nat /\ Subtotal(lines) \in Nat
    BY SubtotalNat DEF ShopAssumption
  <1>2. ASSUME NEW a \in Nat, NEW b \in Nat PROVE Min({a, b}) \in Nat /\ Min({a, b}) <= b
    <2>1. \E x \in {a, b} : \A y \in {a, b} : x =< y
      BY <1>2
    <2>2. Min({a, b}) \in {a, b} /\ \A y \in {a, b} : Min({a, b}) =< y
      BY <2>1 DEF Min
    <2>3. QED
      BY <1>2, <2>2
  <1>3. QED
    BY <1>1, <1>2 DEF Discounted

(* What leaves the orders and their purchases alone.                       *)
LEMMA CostKept ==
    ASSUME CostInv, UNCHANGED <<orders, purchases>>,
           \A t \in Taps : tap'[t] # tap[t] =>
               (tap'[t].stage = "ready" => Payable(tap'[t]))
    PROVE  CostInv'
  BY DEF CostInv

LEMMA CostCompute ==
    ASSUME ShopAssumption, ShopInv, CostInv, NEW t \in Taps, Compute(t)
    PROVE  CostInv'
  <1> DEFINE s == tap[t].store
             given == IF tap[t].promo THEN Discounted(cart[s], promo.value) ELSE 0
             now == [tap[t] EXCEPT !.stage = "ready", !.lines = cart[s],
                                   !.discount = given]
  <1>1. /\ tap \in [Taps -> TapStates] /\ tap[t] \in TapStates
        /\ cart[s] \in Lines /\ promo.value \in Discounts
        /\ Rows(cart[s]) # {}
    BY DEF Compute, ShopInv, ShopTypes, StoresLocked
  <1>2. given \in Nat /\ given <= Subtotal(cart[s])
    <2>1. /\ Discounted(cart[s], promo.value) \in Nat
          /\ Discounted(cart[s], promo.value) <= Subtotal(cart[s])
      BY <1>1, DiscountedFits
    <2>2. Subtotal(cart[s]) \in Nat
      BY <1>1, SubtotalNat
    <2>3. QED
      BY <2>1, <2>2
  <1>3. tap' = [tap EXCEPT ![t] = now] /\ UNCHANGED <<orders, purchases>>
    BY DEF Compute, Becomes
  <1> HIDE DEF given
  <1>4. now.lines = cart[s] /\ now.discount = given
    BY <1>1 DEF TapStates
  <1> HIDE DEF now
  <1>5. Payable(now)
    BY <1>1, <1>2, <1>4 DEF Payable
  <1>6. \A u \in Taps : tap'[u] = IF u = t THEN now ELSE tap[u]
    BY <1>1, <1>3
  <1>7. QED
    BY <1>3, <1>5, <1>6, CostKept

LEMMA CostPlaceOrder ==
    ASSUME ShopInv, CostInv, NEW t \in Taps, PlaceOrder(t)
    PROVE  CostInv'
  <1> DEFINE order == [store |-> tap[t].store, lines |-> tap[t].lines,
                       status |-> "PENDING", promo |-> tap[t].promo,
                       discount |-> tap[t].discount, shipped |-> FALSE, by |-> "none"]
             n == Len(orders)
  <1>1. /\ tap \in [Taps -> TapStates] /\ tap[t] \in TapStates
        /\ tap[t].stage = "ready" /\ tap[t].store \in Stores
        /\ orders \in Seq(PlacedOrder) /\ purchases \in Seq([Keys -> Int])
        /\ Len(purchases) = n /\ Payable(tap[t])
    BY DEF PlaceOrder, ShopInv, ShopTypes, StoresLocked, CostInv
  <1>2. order \in PlacedOrder /\ NoLines \in [Keys -> Int]
    BY <1>1 DEF TapStates, PlacedOrder, NoLines
  <1>3. /\ orders' = Append(orders, order) /\ purchases' = Append(purchases, NoLines)
        /\ Becomes(t, NoTap)
    BY DEF PlaceOrder
  <1>4. Payable(order) /\ order.status # "DELIVERED"
    BY <1>1 DEF Payable
  <1> HIDE DEF order
  <1>5. /\ purchases' \in Seq([Keys -> Int]) /\ Len(purchases') = n + 1
        /\ \A i \in 1 .. n : purchases'[i] = purchases[i]
        /\ purchases'[n + 1] = NoLines
    BY <1>1, <1>2, <1>3, AppendProperties
  <1>6. /\ orders' \in Seq(PlacedOrder) /\ Len(orders') = n + 1
        /\ \A i \in 1 .. n : orders'[i] = orders[i]
        /\ orders'[n + 1] = order
    BY <1>1, <1>2, <1>3, AppendProperties
  <1>7. /\ DOMAIN orders = 1 .. n /\ DOMAIN orders' = 1 .. n + 1 /\ n \in Nat
    BY <1>1, <1>6, LenProperties
  <1>8. NoTap.stage = "idle" /\ \A u \in Taps : tap'[u] = IF u = t THEN NoTap ELSE tap[u]
    BY <1>1, <1>3, NoTapState DEF Becomes
  <1>9. \A o \in DOMAIN orders' : o \in DOMAIN orders \/ o = n + 1
    BY <1>7
  <1>10. ASSUME NEW o \in DOMAIN orders'
         PROVE  /\ Payable(orders'[o])
                /\ purchases'[o] = IF orders'[o].status = "DELIVERED"
                                   THEN Bill(orders'[o]) ELSE NoLines
    <2>1. CASE o \in DOMAIN orders
      BY <1>5, <1>6, <1>7, <2>1 DEF CostInv
    <2>2. CASE o = n + 1
      BY <1>4, <1>5, <1>6, <2>2
    <2>3. QED
      BY <1>9, <1>10, <2>1, <2>2
  <1>11. \A u \in Taps : tap'[u].stage = "ready" => Payable(tap'[u])
    BY <1>8 DEF CostInv
  <1>12. QED
    BY <1>5, <1>6, <1>10, <1>11 DEF CostInv

LEMMA CostCancel ==
    ASSUME ShopInv, CostInv, NEW o \in DOMAIN orders,
           NEW by \in {"MERCHANT", "ADMIN"}, Cancel(o, by)
    PROVE  CostInv'
  <1> DEFINE order == [orders[o] EXCEPT !.status = "CANCELLED", !.by = by]
  <1>1. /\ orders \in Seq(PlacedOrder) /\ o \in 1 .. Len(orders)
        /\ DOMAIN orders = 1 .. Len(orders) /\ orders[o] \in PlacedOrder
        /\ Payable(orders[o])
    BY LenProperties DEF ShopInv, ShopTypes, CostInv
  <1>2. /\ orders' = [orders EXCEPT ![o] = order] /\ UNCHANGED <<tap, purchases>>
        /\ orders[o].status # "DELIVERED"
    BY <1>1 DEF Cancel, PlacedOrder, Cancellable
  <1>3. /\ order \in PlacedOrder /\ order.status = "CANCELLED"
        /\ order.lines = orders[o].lines /\ order.discount = orders[o].discount
    BY <1>1 DEF PlacedOrder
  <1> HIDE DEF order
  <1>4. Payable(order)
    BY <1>1, <1>3 DEF Payable
  <1>5. /\ Len(orders') = Len(orders) /\ DOMAIN orders' = DOMAIN orders
        /\ \A i \in DOMAIN orders : orders'[i] = IF i = o THEN order ELSE orders[i]
    BY <1>1, <1>2, <1>3, ExceptSeq
  <1>6. QED
    BY <1>1, <1>2, <1>3, <1>4, <1>5 DEF CostInv

LEMMA CostAdvance ==
    ASSUME ShopAssumption, ShopInv, CostInv, NEW o \in DOMAIN orders,
           NEW to \in {"CONFIRMED", "SHIPPED", "DELIVERED"}, Advance(o, to)
    PROVE  CostInv'
  <1> DEFINE shipped == orders[o].shipped \/ to \in {"SHIPPED", "DELIVERED"}
             order == [orders[o] EXCEPT !.status = to, !.shipped = shipped]
             bill == Bill(orders[o])
  <1>1. /\ orders \in Seq(PlacedOrder) /\ o \in 1 .. Len(orders)
        /\ DOMAIN orders = 1 .. Len(orders) /\ orders[o] \in PlacedOrder
        /\ purchases \in Seq([Keys -> Int]) /\ Len(purchases) = Len(orders)
        /\ Payable(orders[o])
    BY LenProperties DEF ShopInv, ShopTypes, CostInv
  <1>2. orders[o].status # "DELIVERED"
    BY BeforeDelivery DEF Advance
  <1>3. shipped \in BOOLEAN
    OBVIOUS
  <1>4. /\ orders' = [orders EXCEPT ![o] = order] /\ UNCHANGED tap
        /\ purchases' = IF to # "DELIVERED" THEN purchases
                        ELSE [purchases EXCEPT ![o] = bill]
    BY <1>1 DEF Advance, Bill
  <1> HIDE DEF shipped
  <1>5. /\ order \in PlacedOrder /\ order.status = to
        /\ order.lines = orders[o].lines /\ order.discount = orders[o].discount
    BY <1>1, <1>3 DEF PlacedOrder
  <1> HIDE DEF order
  <1>6. Payable(order)
    BY <1>1, <1>5 DEF Payable
  <1>7. Bill(order) = bill
    BY <1>5 DEF Bill, AllocatedCost, Ahead, Leftover, Remainder, Share, Total
  <1>8. bill \in [Keys -> Int]
    BY <1>1, BillAddsUp
  <1> HIDE DEF bill
  <1>9. /\ Len(orders') = Len(orders) /\ DOMAIN orders' = DOMAIN orders
        /\ \A i \in DOMAIN orders : orders'[i] = IF i = o THEN order ELSE orders[i]
    BY <1>1, <1>4, <1>5, ExceptSeq
  <1>10. CASE to # "DELIVERED"
    BY <1>1, <1>2, <1>4, <1>5, <1>6, <1>9, <1>10 DEF CostInv
  <1>11. CASE to = "DELIVERED"
    <2>1. /\ purchases' \in Seq([Keys -> Int]) /\ Len(purchases') = Len(purchases)
          /\ \A i \in DOMAIN orders :
                 purchases'[i] = IF i = o THEN bill ELSE purchases[i]
      BY <1>1, <1>4, <1>8, <1>11, ExceptSeq
    <2>2. QED
      BY <1>1, <1>4, <1>5, <1>6, <1>7, <1>9, <1>11, <2>1 DEF CostInv
  <1>12. QED
    BY <1>10, <1>11

LEMMA CostNext ==
    ASSUME ShopAssumption, ShopInv, CostInv, [ShopNext]_shopVars
    PROVE  CostInv'
  <1>1. CASE UNCHANGED <<orders, purchases, tap>>
    BY <1>1, CostKept
  <1>2. ASSUME NEW t \in Taps, TapStep(t) PROVE CostInv'
    <2>1. CASE Compute(t)
      BY <2>1, CostCompute
    <2>2. CASE PlaceOrder(t)
      BY <2>2, CostPlaceOrder
    <2>3. ASSUME NEW s \in Stores, NEW code \in BOOLEAN, Confirm(t, s, code)
          PROVE  CostInv'
      <3> DEFINE now == [NoTap EXCEPT !.stage = "locked", !.store = s, !.promo = code]
      <3>1. /\ tap' = [tap EXCEPT ![t] = now] /\ UNCHANGED <<orders, purchases>>
        BY <2>3 DEF Confirm, Becomes
      <3>2. now.stage = "locked"
        BY DEF NoTap
      <3> HIDE DEF now
      <3>3. \A u \in Taps : tap'[u] = IF u = t THEN now ELSE tap[u]
        BY <3>1 DEF ShopInv, ShopTypes
      <3>4. QED
        BY <3>1, <3>2, <3>3, CostKept
    <2>4. CASE RollBack(t)
      <3>1. \A u \in Taps : tap'[u] = IF u = t THEN NoTap ELSE tap[u]
        BY <2>4 DEF RollBack, Becomes, ShopInv, ShopTypes
      <3>2. QED
        BY <2>4, <3>1, NoTapState, CostKept DEF RollBack
    <2>5. QED
      BY <1>2, <2>1, <2>2, <2>3, <2>4 DEF TapStep
  <1>3. CASE \E o \in DOMAIN orders, by \in {"MERCHANT", "ADMIN"} : Cancel(o, by)
    BY <1>3, CostCancel
  <1>4. CASE \/ \E o \in DOMAIN orders, to \in {"CONFIRMED", "SHIPPED"} : Advance(o, to)
             \/ \E o \in DOMAIN orders : Deliver(o)
    BY <1>4, CostAdvance DEF Deliver
  <1>5. QED
    BY <1>1, <1>2, <1>3, <1>4
    DEF ShopNext, ShopStep, CartStep, ProductStep, EditPromo, SetStock, SetStatus,
        ReplaceOptions, AddItem, UpdateItem, RemoveItem, shopVars

(* The purchases a delivered order records cost exactly what the merchant  *)
(* paid for it, discount and delivery included, for every price, number of *)
(* rows, discount and fee: allocateShopCosts rounds every share down and   *)
(* what that leaves is never more than a cent an item.                     *)
THEOREM ShopCostsAddUp == ShopSpec => []CostsAddUp
  <1>1. ShopInit => CostInv
    BY CostInit
  <1>2. ShopInv /\ CostInv /\ [ShopNext]_shopVars => CostInv'
    BY CostNext, ShopAssumption
  <1>3. CostInv => CostsAddUp
    <2> SUFFICES ASSUME CostInv, NEW o \in DOMAIN orders
                 PROVE  SumOf(purchases[o], Keys) =
                            IF orders[o].status = "DELIVERED" THEN Total(orders[o]) ELSE 0
      BY DEF CostsAddUp
    <2>1. CASE orders[o].status = "DELIVERED"
      BY <2>1, BillAddsUp, ShopAssumption DEF CostInv
    <2>2. CASE orders[o].status # "DELIVERED"
      <3>1. purchases[o] = NoLines /\ \A k \in Keys : NoLines[k] = 0
        BY <2>2 DEF CostInv, NoLines
      <3>2. IsFiniteSet(Keys)
        BY KeysFinite, ShopAssumption
      <3>3. SumFunctionOnSet(NoLines, Keys) = 0
        BY ONLY <3>1, <3>2, SumOfZeros
      <3>4. QED
        BY <2>2, <3>1, <3>3 DEF SumOf
    <2>3. QED
      BY <2>1, <2>2
  <1>4. QED
    BY <1>1, <1>2, <1>3, ShopInvariant, PTL DEF ShopSpec

(***************************************************************************)
(* The units in stock and in the orders that stand.                        *)
(***************************************************************************)
Counted(os) == {o \in DOMAIN os : os[o].status # "CANCELLED"}
Units(os, k) == SumFunctionOnSet([o \in DOMAIN os |-> os[o].lines[k]], Counted(os))
UnitsFrom(os, k) ==
    IF k \in Options THEN Units(os, k)
    ELSE SumFunctionOnSet([j \in Keys |-> Units(os, j)], {k} \cup OptionsOf(k))
LinesFrom(lines, k) ==
    IF k \in Options THEN lines[k]
    ELSE SumFunctionOnSet(lines, {k} \cup OptionsOf(k))

LEMMA SoldIsUnits ==
    /\ \A k : SoldFrom(k) = UnitsFrom(orders, k)
    /\ \A k : SoldFrom(k)' = UnitsFrom(orders', k)
  BY DEF SoldFrom, UnitsFrom, Sold, Units, Counted, Standing, SumOf

LEMMA CountedFinite ==
    ASSUME NEW os \in Seq(PlacedOrder)
    PROVE  /\ DOMAIN os = 1 .. Len(os) /\ Len(os) \in Nat
           /\ IsFiniteSet(Counted(os)) /\ Counted(os) \subseteq DOMAIN os
           /\ \A o \in DOMAIN os : os[o] \in PlacedOrder /\ os[o].lines \in Lines
  <1>1. DOMAIN os = 1 .. Len(os) /\ Len(os) \in Nat
    BY LenProperties
  <1>2. IsFiniteSet(1 .. Len(os))
    BY <1>1, FS_Interval
  <1>3. Counted(os) \subseteq 1 .. Len(os)
    BY <1>1 DEF Counted
  <1>4. \A o \in DOMAIN os : os[o] \in PlacedOrder
    BY <1>1
  <1>5. QED
    BY <1>1, <1>2, <1>3, <1>4, FS_Subset DEF PlacedOrder

LEMMA UnitsType ==
    ASSUME NEW os \in Seq(PlacedOrder), NEW k \in Keys
    PROVE  Units(os, k) \in Int
  <1> DEFINE f == [o \in DOMAIN os |-> os[o].lines[k]]
  <1>1. \A o \in Counted(os) : f[o] \in Int
    BY CountedFinite DEF Lines
  <1>2. Units(os, k) = SumFunctionOnSet(f, Counted(os))
    BY DEF Units
  <1> HIDE DEF f
  <1>3. QED
    BY <1>1, <1>2, CountedFinite, SumType

(* An order that is placed counts.                                         *)
LEMMA UnitsPlaced ==
    ASSUME NEW os \in Seq(PlacedOrder), NEW order \in PlacedOrder,
           order.status # "CANCELLED", NEW k \in Keys
    PROVE  Units(Append(os, order), k) = 1 * order.lines[k] + Units(os, k)
  <1> DEFINE qs == Append(os, order)
             n == Len(os) + 1
             f == [o \in DOMAIN os |-> os[o].lines[k]]
             g == [o \in DOMAIN qs |-> qs[o].lines[k]]
  <1>1. /\ qs \in Seq(PlacedOrder) /\ Len(qs) = n /\ qs[n] = order
        /\ \A i \in 1 .. Len(os) : qs[i] = os[i]
    BY AppendProperties
  <1>2. Units(os, k) = SumFunctionOnSet(f, Counted(os))
        /\ Units(qs, k) = SumFunctionOnSet(g, Counted(qs))
    BY DEF Units
  <1> HIDE DEF qs
  <1>3. /\ DOMAIN os = 1 .. Len(os) /\ DOMAIN qs = 1 .. n /\ Len(os) \in Nat
        /\ IsFiniteSet(Counted(qs)) /\ IsFiniteSet(Counted(os))
    BY <1>1, CountedFinite
  <1>4. /\ Counted(qs) \ {n} = Counted(os) /\ n \in Counted(qs)
    BY <1>1, <1>3 DEF Counted
  <1>5. /\ \A o \in Counted(qs) : g[o] \in Int
        /\ \A o \in Counted(os) : f[o] \in Int /\ g[o] = f[o]
        /\ g[n] = order.lines[k]
    <2>1. \A o \in DOMAIN qs : g[o] = qs[o].lines[k] /\ qs[o].lines[k] \in Int
      BY <1>1, CountedFinite DEF Lines
    <2>2. \A o \in DOMAIN os : f[o] = os[o].lines[k] /\ os[o].lines[k] \in Int
      BY CountedFinite DEF Lines
    <2>3. Counted(qs) \subseteq DOMAIN qs /\ Counted(os) \subseteq DOMAIN os
      BY DEF Counted
    <2> HIDE DEF f, g
    <2>4. QED
      BY <1>1, <1>3, <2>1, <2>2, <2>3
  <1> HIDE DEF f, g, n
  <1>6. SumFunctionOnSet(g, Counted(qs)) = g[n] + SumFunctionOnSet(g, Counted(qs) \ {n})
    BY <1>3, <1>4, <1>5, SumRemove
  <1>7. SumFunctionOnSet(g, Counted(os)) = SumFunctionOnSet(f, Counted(os))
    BY <1>3, <1>5, SumSame
  <1>8. order.lines[k] \in Int
    BY DEF PlacedOrder, Lines
  <1>9. Units(qs, k) = order.lines[k] + Units(os, k)
    BY <1>2, <1>4, <1>5, <1>6, <1>7
  <1>10. Units(os, k) \in Int
    BY UnitsType
  <1>11. Units(qs, k) = 1 * order.lines[k] + Units(os, k)
    BY <1>8, <1>9, <1>10
  <1>12. QED
    BY <1>11 DEF qs

(* An order that is cancelled counts no more.                              *)
CancelledIn(os, qs, o) ==
    /\ o \in DOMAIN os /\ DOMAIN qs = DOMAIN os
    /\ \A i \in DOMAIN os \ {o} : qs[i] = os[i]
    /\ os[o].status # "CANCELLED" /\ qs[o].status = "CANCELLED"

LEMMA UnitsCancelled ==
    ASSUME NEW os \in Seq(PlacedOrder), NEW qs \in Seq(PlacedOrder), NEW o,
           CancelledIn(os, qs, o), NEW k \in Keys
    PROVE  Units(qs, k) = (-1) * os[o].lines[k] + Units(os, k)
  <1> USE DEF CancelledIn
  <1> DEFINE f == [i \in DOMAIN os |-> os[i].lines[k]]
             g == [i \in DOMAIN qs |-> qs[i].lines[k]]
  <1>1. Units(os, k) = SumFunctionOnSet(f, Counted(os))
        /\ Units(qs, k) = SumFunctionOnSet(g, Counted(qs))
    BY DEF Units
  <1>2. Counted(qs) = Counted(os) \ {o} /\ o \in Counted(os)
    BY DEF Counted
  <1>3. IsFiniteSet(Counted(os)) /\ IsFiniteSet(Counted(qs))
    BY CountedFinite
  <1>4. /\ \A i \in Counted(os) : f[i] \in Int
        /\ \A i \in Counted(qs) : f[i] \in Int /\ g[i] = f[i]
        /\ f[o] = os[o].lines[k]
    <2>1. \A i \in DOMAIN os : f[i] = os[i].lines[k] /\ os[i].lines[k] \in Int
      BY CountedFinite DEF Lines
    <2>2. \A i \in DOMAIN qs : g[i] = qs[i].lines[k]
      OBVIOUS
    <2>3. Counted(qs) \subseteq DOMAIN os \ {o} /\ Counted(os) \subseteq DOMAIN os
      BY <1>2 DEF Counted
    <2> HIDE DEF f, g
    <2>4. QED
      BY <2>1, <2>2, <2>3
  <1> HIDE DEF f, g
  <1>5. SumFunctionOnSet(f, Counted(os)) = f[o] + SumFunctionOnSet(f, Counted(os) \ {o})
    BY <1>2, <1>3, <1>4, SumRemove
  <1>6. SumFunctionOnSet(g, Counted(qs)) = SumFunctionOnSet(f, Counted(qs))
    BY <1>3, <1>4, SumSame
  <1>7. f[o] \in Int /\ SumFunctionOnSet(f, Counted(qs)) \in Int
    BY <1>2, <1>3, <1>4, SumType
  <1>8. QED
    BY <1>1, <1>2, <1>4, <1>5, <1>6, <1>7

(* An order that goes on counts as before.                                 *)
LEMMA UnitsStay ==
    ASSUME NEW os \in Seq(PlacedOrder), NEW qs \in Seq(PlacedOrder),
           DOMAIN qs = DOMAIN os,
           \A i \in DOMAIN os : /\ qs[i].lines = os[i].lines
                                /\ qs[i].status = "CANCELLED" <=> os[i].status = "CANCELLED",
           NEW k \in Keys
    PROVE  Units(qs, k) = Units(os, k)
  <1> DEFINE f == [i \in DOMAIN os |-> os[i].lines[k]]
             g == [i \in DOMAIN qs |-> qs[i].lines[k]]
  <1>1. Units(os, k) = SumFunctionOnSet(f, Counted(os))
        /\ Units(qs, k) = SumFunctionOnSet(g, Counted(qs))
    BY DEF Units
  <1>2. Counted(qs) = Counted(os)
    BY DEF Counted
  <1>3. f = g
    OBVIOUS
  <1>4. QED
    BY <1>1, <1>2, <1>3

LEMMA LinesFromInt ==
    ASSUME ShopAssumption, NEW lines \in Lines, NEW k \in Keys
    PROVE  /\ LinesFrom(lines, k) \in Int
           /\ OptionsOf(k) \subseteq Keys /\ IsFiniteSet({k} \cup OptionsOf(k))
  <1>1. OptionsOf(k) \subseteq Keys
    BY DEF OptionsOf, Keys
  <1>2. IsFiniteSet({k} \cup OptionsOf(k))
    BY <1>1, KeysFinite, FS_Subset
  <1>3. \A j \in {k} \cup OptionsOf(k) : lines[j] \in Int
    BY <1>1 DEF Lines
  <1>4. SumFunctionOnSet(lines, {k} \cup OptionsOf(k)) \in Int
    BY ONLY <1>2, <1>3, SumType
  <1>5. QED
    BY <1>1, <1>2, <1>3, <1>4 DEF LinesFrom

(* What holds of each key holds of a product with its options.             *)
Moved(os, qs, lines, c) ==
    \A j \in Keys : Units(qs, j) = c * lines[j] + Units(os, j)

LEMMA UnitsShift ==
    ASSUME ShopAssumption, NEW os \in Seq(PlacedOrder), NEW qs \in Seq(PlacedOrder),
           NEW lines \in Lines, NEW c \in Int, Moved(os, qs, lines, c),
           NEW k \in Keys
    PROVE  /\ UnitsFrom(os, k) \in Int
           /\ UnitsFrom(qs, k) = c * LinesFrom(lines, k) + UnitsFrom(os, k)
  <1> DEFINE S == {k} \cup OptionsOf(k)
             f == [j \in Keys |-> Units(qs, j)]
             h == [j \in Keys |-> Units(os, j)]
  <1>1. IsFiniteSet(S) /\ S \subseteq Keys
    BY LinesFromInt
  <1>2. \A j \in S : lines[j] \in Int /\ h[j] \in Int /\ f[j] = c * lines[j] + h[j]
    BY <1>1, UnitsType DEF Lines, Moved
  <1>3. UnitsFrom(os, k) = IF k \in Options THEN Units(os, k) ELSE SumFunctionOnSet(h, S)
    BY DEF UnitsFrom
  <1>4. UnitsFrom(qs, k) = IF k \in Options THEN Units(qs, k) ELSE SumFunctionOnSet(f, S)
    BY DEF UnitsFrom
  <1>5. LinesFrom(lines, k) = IF k \in Options THEN lines[k] ELSE SumFunctionOnSet(lines, S)
    BY DEF LinesFrom
  <1>6. Units(os, k) \in Int /\ Units(qs, k) = c * lines[k] + Units(os, k)
    BY UnitsType DEF Moved
  <1> HIDE DEF f, h, S
  <1>7. SumFunctionOnSet(f, S) = c * SumFunctionOnSet(lines, S) + SumFunctionOnSet(h, S)
    BY ONLY <1>1, <1>2, c \in Int, SumLinear
  <1>8. SumFunctionOnSet(h, S) \in Int
    BY <1>1, <1>2, SumType
  <1>9. QED
    BY <1>3, <1>4, <1>5, <1>6, <1>7, <1>8

LEMMA StockFollows ==
    ASSUME ShopAssumption, NEW os \in Seq(PlacedOrder), NEW qs \in Seq(PlacedOrder),
           NEW lines \in Lines, NEW c \in Int, Moved(os, qs, lines, c),
           NEW k \in Keys, NEW now \in Int, NEW next,
           next = now - c * LinesFrom(lines, k)
    PROVE  next + UnitsFrom(qs, k) = now + UnitsFrom(os, k)
  <1>1. /\ UnitsFrom(os, k) \in Int
        /\ UnitsFrom(qs, k) = c * LinesFrom(lines, k) + UnitsFrom(os, k)
    BY UnitsShift
  <1>2. LinesFrom(lines, k) \in Int
    BY LinesFromInt
  <1>3. c * LinesFrom(lines, k) \in Int
    BY <1>2
  <1>4. QED
    BY <1>1, <1>3

(* What a confirmation computed with can still be bought: its locks keep   *)
(* the options of its products as they were.                               *)
StockInv ==
    /\ stock \in [Keys -> Int] /\ edits \in Nat
    /\ \A t \in Taps : tap[t].stage = "ready" =>
           \A k \in Rows(tap[t].lines) : Buyable(k)

LEMMA LiveFinite ==
    ASSUME ShopAssumption, NEW p
    PROVE  LiveOf(p) \subseteq Options /\ Options \subseteq Keys /\ IsFiniteSet(LiveOf(p))
  <1>1. LiveOf(p) \subseteq Options
    BY DEF LiveOf, OptionsOf
  <1>2. QED
    BY <1>1, FS_Subset DEF ShopAssumption, Keys

LEMMA StockInit == ASSUME ShopAssumption, ShopInit PROVE StockInv
  <1>1. ASSUME NEW p PROVE SumOf(InitialStock, LiveOf(p)) \in Int
    <2>1. \A v \in LiveOf(p) : InitialStock[v] \in Int
      BY LiveFinite DEF ShopAssumption
    <2>2. SumFunctionOnSet(InitialStock, LiveOf(p)) \in Int
      BY <2>1, LiveFinite, SumType
    <2>3. QED
      BY <2>2 DEF SumOf
  <1>2. stock \in [Keys -> Int]
    BY <1>1 DEF ShopInit, ShopAssumption
  <1>3. tap = [t \in Taps |-> NoTap] /\ edits = 0
    BY DEF ShopInit
  <1>4. QED
    BY <1>2, <1>3, NoTapState DEF StockInv

LEMMA StockKept ==
    ASSUME StockInv, UNCHANGED <<stock, option>>, edits' \in Nat,
           \A t \in Taps : tap'[t] # tap[t] => tap'[t].stage # "ready"
    PROVE  StockInv'
  BY DEF StockInv, Buyable, Live, LiveOf

LEMMA StockCompute ==
    ASSUME ShopInv, StockInv, NEW t \in Taps, Compute(t)
    PROVE  StockInv'
  <1> DEFINE s == tap[t].store
             given == IF tap[t].promo THEN Discounted(cart[s], promo.value) ELSE 0
             now == [tap[t] EXCEPT !.stage = "ready", !.lines = cart[s],
                                   !.discount = given]
  <1>1. /\ tap \in [Taps -> TapStates] /\ tap[t] \in TapStates
    BY DEF ShopInv, ShopTypes
  <1>2. \A k \in Rows(cart[s]) : Buyable(k)
    BY DEF Compute, Problem
  <1>3. tap' = [tap EXCEPT ![t] = now] /\ UNCHANGED <<stock, option, edits>>
    BY DEF Compute, Becomes, catalogueVars
  <1> HIDE DEF given
  <1>4. now.lines = cart[s]
    BY <1>1 DEF TapStates
  <1> HIDE DEF now
  <1>5. \A u \in Taps : tap'[u] = IF u = t THEN now ELSE tap[u]
    BY <1>1, <1>3
  <1>6. \A k : Buyable(k)' <=> Buyable(k)
    BY <1>3 DEF Buyable, Live, LiveOf
  <1>7. QED
    BY <1>2, <1>3, <1>4, <1>5, <1>6 DEF StockInv

(* reserveStock takes what the order is of.                                *)
LEMMA SellMoves ==
    ASSUME ShopAssumption, ShopInv, StockInv, NEW t \in Taps, PlaceOrder(t)
    PROVE  /\ stock' \in [Keys -> Int]
           /\ \A k \in Keys : Buyable(k) =>
                  stock'[k] = stock[k] - LinesFrom(tap[t].lines, k)
  <1> DEFINE lines == tap[t].lines
             left == [k \in Keys |-> stock[k] - lines[k]]
             chosen == {OptionOf[v] : v \in Rows(lines) \cap Options}
  <1>1. /\ lines \in Lines /\ stock \in [Keys -> Int]
        /\ \A k \in Rows(lines) : Buyable(k)
    BY DEF PlaceOrder, ShopInv, ShopTypes, TapStates, StockInv
  <1>2. stock' = [k \in Keys |-> IF k \in chosen THEN SumFunctionOnSet(left, LiveOf(k))
                                 ELSE left[k]]
    BY DEF PlaceOrder, Sell, SumOf
  <1>3. \A k \in Keys : left[k] = stock[k] - lines[k] /\ left[k] \in Int
    BY <1>1 DEF Lines
  <1> HIDE DEF left
  <1>4. ASSUME NEW k \in Keys PROVE SumFunctionOnSet(left, LiveOf(k)) \in Int
    <2>1. \A v \in LiveOf(k) : left[v] \in Int
      BY <1>3, LiveFinite
    <2>2. QED
      BY <2>1, LiveFinite, SumType
  <1>5. stock' \in [Keys -> Int]
    BY <1>2, <1>3, <1>4
  <1>6. chosen \subseteq Products
    BY DEF ShopAssumption
  <1>7. ASSUME NEW k \in Keys, Buyable(k)
        PROVE  stock'[k] = stock[k] - LinesFrom(lines, k)
    <2>1. CASE k \in Options
      <3>1. k \notin chosen
        BY <1>6, <2>1 DEF ShopAssumption
      <3>2. QED
        BY <1>2, <1>3, <2>1, <3>1 DEF LinesFrom
    <2>2. CASE k \notin Options
      <3>1. LiveOf(k) = {}
        BY <1>7, <2>2 DEF Buyable, Live
      <3>2. \A v \in OptionsOf(k) : v \notin Rows(lines)
        BY <1>1, <3>1 DEF Buyable, LiveOf, OptionsOf, ShopAssumption
      <3>3. k \notin chosen
        BY <3>2 DEF OptionsOf
      <3>4. \A v \in OptionsOf(k) : lines[v] = 0
        <4>1. OptionsOf(k) \subseteq Keys
          BY DEF OptionsOf, Keys
        <4>2. QED
          BY <1>1, <3>2, <4>1 DEF Rows, Lines
      <3>5. SumFunctionOnSet(lines, {k} \cup OptionsOf(k)) = lines[k]
        <4>1. IsFiniteSet({k} \cup OptionsOf(k)) /\ IsFiniteSet({k})
          BY <1>1, LinesFromInt, FS_Singleton
        <4>2. /\ \A v \in {k} \cup OptionsOf(k) : lines[v] \in Int
              /\ \A v \in ({k} \cup OptionsOf(k)) \ {k} : lines[v] = 0
              /\ {k} \subseteq {k} \cup OptionsOf(k)
          BY <1>1, <3>4 DEF Lines
        <4>3. SumFunctionOnSet(lines, {k} \cup OptionsOf(k)) = SumFunctionOnSet(lines, {k})
          BY ONLY <4>1, <4>2, SumRestricted
        <4>4. SumFunctionOnSet(lines, {k}) = lines[k] + SumFunctionOnSet(lines, {k} \ {k})
          BY ONLY <4>1, <4>2, SumRemove
        <4>5. {k} \ {k} = {} /\ SumFunctionOnSet(lines, {}) = 0
          BY SumOfNone
        <4>6. lines[k] \in Int
          BY <4>2
        <4>7. QED
          BY <4>3, <4>4, <4>5, <4>6
      <3>6. QED
        BY <1>2, <1>3, <2>2, <3>3, <3>5 DEF LinesFrom
    <2>3. QED
      BY <2>1, <2>2
  <1>8. QED
    BY <1>5, <1>7

(* restock gives it back.                                                  *)
LEMMA GiveBackMoves ==
    ASSUME ShopAssumption, ShopInv, StockInv, NEW o \in DOMAIN orders,
           NEW by \in {"MERCHANT", "ADMIN"}, Cancel(o, by)
    PROVE  /\ stock' \in [Keys -> Int]
           /\ \A k \in Keys : Buyable(k) =>
                  stock'[k] = stock[k] + LinesFrom(orders[o].lines, k)
  <1> DEFINE lines == orders[o].lines
  <1>1. lines \in Lines /\ stock \in [Keys -> Int]
    BY CountedFinite DEF ShopInv, ShopTypes, StockInv
  <1>2. stock' = [k \in Keys |->
                     IF k \in Options
                     THEN stock[k] + IF k \in Live THEN lines[k] ELSE 0
                     ELSE stock[k] + SumFunctionOnSet(lines, {k} \cup OptionsOf(k))]
    BY DEF Cancel, GiveBack, SumOf
  <1> HIDE DEF lines
  <1>3. ASSUME NEW k \in Keys
        PROVE  LinesFrom(lines, k) \in Int /\ lines[k] \in Int
    <2>1. LinesFrom(lines, k) \in Int
      BY ONLY <1>1, k \in Keys, ShopAssumption, LinesFromInt
    <2>2. QED
      BY <1>1, <2>1 DEF Lines
  <1>4. \A k \in Keys : k \notin Options =>
            SumFunctionOnSet(lines, {k} \cup OptionsOf(k)) = LinesFrom(lines, k)
    BY DEF LinesFrom
  <1>5. \A k \in Keys : stock'[k] \in Int
    BY <1>1, <1>2, <1>3, <1>4
  <1>6. stock' \in [Keys -> Int]
    BY <1>2, <1>5
  <1>7. ASSUME NEW k \in Keys, Buyable(k)
        PROVE  stock'[k] = stock[k] + LinesFrom(lines, k)
    <2>1. k \in Options => k \in Live
      BY <1>7 DEF Buyable, ShopAssumption
    <2>2. QED
      BY <1>2, <1>4, <2>1 DEF LinesFrom
  <1>8. QED
    BY <1>6, <1>7 DEF lines
(* The options of a product may be replaced, but not while a confirmation  *)
(* has its lock.                                                           *)
LEMMA StockReplaceOptions ==
    ASSUME ShopAssumption, ShopInv, StockInv, NEW p \in Products,
           NEW listed \in Listings(p), ReplaceOptions(p, listed)
    PROVE  StockInv'
  <1> DEFINE dropped == LiveOf(p) \ DOMAIN listed
  <1>1. PICK S \in SUBSET OptionsOf(p) : listed \in [S -> 0 .. MaxStock]
    BY DEF Listings
  <1>2. /\ DOMAIN listed = S /\ S \subseteq Options /\ IsFiniteSet(S)
        /\ \A v \in S : listed[v] \in Int
    <2>1. S \subseteq Options
      BY <1>1 DEF OptionsOf
    <2>2. IsFiniteSet(S)
      BY <2>1, FS_Subset DEF ShopAssumption
    <2>3. QED
      BY <1>1, <2>1, <2>2
  <1>3. SumOf(listed, S) \in Int
    BY <1>2, SumType DEF SumOf
  <1>4. /\ ProductsFree({p}) /\ UNCHANGED tap /\ edits' = edits + 1
        /\ stock' = [k \in Keys |->
                       IF k \in S THEN listed[k]
                       ELSE IF k \in dropped THEN 0
                       ELSE IF k = p /\ S # {} THEN SumOf(listed, S)
                       ELSE stock[k]]
        /\ option' = [v \in Options |-> IF v \in S THEN "live"
                                        ELSE IF v \in dropped THEN "gone" ELSE option[v]]
    BY <1>2 DEF ReplaceOptions, Edit
  <1>5. \A v \in Options : OptionOf[v] # p => v \notin S /\ v \notin dropped
    BY <1>1 DEF LiveOf, OptionsOf
  <1> HIDE DEF dropped
  <1>6. stock' \in [Keys -> Int]
    BY <1>2, <1>3, <1>4 DEF StockInv
  <1>7. ASSUME NEW k \in Keys, Buyable(k), Product(k) # p PROVE Buyable(k)'
    <2>1. CASE k \in Options
      <3>1. k \in Live /\ OptionOf[k] # p
        BY <1>7, <2>1 DEF Buyable, Product, ShopAssumption
      <3>2. option'[k] = option[k]
        BY <1>4, <1>5, <2>1, <3>1
      <3>3. QED
        BY <2>1, <3>1, <3>2 DEF Buyable, Live
    <2>2. CASE k \notin Options
      <3>1. k \in Products /\ k # p /\ LiveOf(k) = {}
        BY <1>7, <2>2 DEF Buyable, Product, Live
      <3>2. \A v \in OptionsOf(k) : v \in Options /\ option'[v] = option[v]
        BY <1>4, <1>5, <3>1 DEF OptionsOf
      <3>3. LiveOf(k)' = {}
        BY <3>1, <3>2 DEF LiveOf, Live, OptionsOf
      <3>4. QED
        BY <3>1, <3>3 DEF Buyable
    <2>3. QED
      BY <2>1, <2>2
  <1>8. ASSUME NEW t \in Taps, tap[t].stage = "ready", NEW k \in Rows(tap[t].lines)
        PROVE  Buyable(k)'
    <2>1. k \in Keys /\ Buyable(k) /\ Product(k) # p
      BY <1>4, <1>8 DEF StockInv, ProductsFree, Rows
    <2>2. QED
      BY <1>7, <2>1
  <1>9. QED
    BY <1>4, <1>6, <1>8 DEF StockInv

LEMMA StockNext ==
    ASSUME ShopAssumption, ShopInv, StockInv, [ShopNext]_shopVars
    PROVE  StockInv'
  <1>1. CASE UNCHANGED <<stock, option, edits, tap>>
    BY <1>1, StockKept DEF StockInv
  <1>2. ASSUME NEW t \in Taps, TapStep(t) PROVE StockInv'
    <2>1. CASE Compute(t)
      BY <2>1, StockCompute
    <2>2. CASE PlaceOrder(t)
      <3>1. stock' \in [Keys -> Int]
        BY <2>2, SellMoves
      <3>2. /\ \A u \in Taps : tap'[u] = IF u = t THEN NoTap ELSE tap[u]
            /\ UNCHANGED <<option, edits>>
        BY <2>2 DEF PlaceOrder, Becomes, ShopInv, ShopTypes
      <3>3. QED
        BY <3>1, <3>2, NoTapState DEF StockInv, Buyable, Live, LiveOf
    <2>3. ASSUME NEW s \in Stores, NEW code \in BOOLEAN, Confirm(t, s, code)
          PROVE  StockInv'
      <3> DEFINE now == [NoTap EXCEPT !.stage = "locked", !.store = s, !.promo = code]
      <3>1. /\ tap' = [tap EXCEPT ![t] = now] /\ UNCHANGED <<stock, option, edits>>
        BY <2>3 DEF Confirm, Becomes, catalogueVars
      <3>2. now.stage = "locked"
        BY DEF NoTap
      <3> HIDE DEF now
      <3>3. \A u \in Taps : tap'[u] = IF u = t THEN now ELSE tap[u]
        BY <3>1 DEF ShopInv, ShopTypes
      <3>4. QED
        BY <3>1, <3>2, <3>3, StockKept DEF StockInv
    <2>4. CASE RollBack(t)
      <3>1. /\ \A u \in Taps : tap'[u] = IF u = t THEN NoTap ELSE tap[u]
            /\ UNCHANGED <<stock, option, edits>>
        BY <2>4 DEF RollBack, Becomes, catalogueVars, ShopInv, ShopTypes
      <3>2. QED
        BY <3>1, NoTapState, StockKept DEF StockInv
    <2>5. QED
      BY <1>2, <2>1, <2>2, <2>3, <2>4 DEF TapStep
  <1>3. ASSUME NEW o \in DOMAIN orders, NEW by \in {"MERCHANT", "ADMIN"}, Cancel(o, by)
        PROVE  StockInv'
    <2>1. stock' \in [Keys -> Int]
      BY <1>3, GiveBackMoves
    <2>2. UNCHANGED <<tap, option, edits>>
      BY <1>3 DEF Cancel
    <2>3. QED
      BY <2>1, <2>2 DEF StockInv, Buyable, Live, LiveOf
  <1>4. ASSUME NEW p \in Products, ProductStep(p) PROVE StockInv'
    <2>1. ASSUME NEW quantity \in 0 .. MaxStock, SetStock(p, quantity) PROVE StockInv'
      <3>1. /\ stock' = [stock EXCEPT ![p] = quantity] /\ edits' = edits + 1
            /\ UNCHANGED <<tap, option>>
        BY <2>1 DEF SetStock, Edit
      <3>2. stock' \in [Keys -> Int]
        BY <2>1, <3>1 DEF StockInv, ShopAssumption, Keys
      <3>3. QED
        BY <3>1, <3>2 DEF StockInv, Buyable, Live, LiveOf
    <2>2. CASE SetStatus(p)
      BY <2>2, StockKept DEF SetStatus, Edit, StockInv
    <2>3. QED
      BY <1>4, <2>1, <2>2, StockReplaceOptions DEF ProductStep
  <1>5. ASSUME NEW isActive \in BOOLEAN, NEW value \in Discounts,
               EditPromo(isActive, value)
        PROVE  StockInv'
    BY <1>5, StockKept DEF EditPromo, Edit, StockInv, catalogueVars
  <1>6. QED
    BY <1>1, <1>2, <1>3, <1>4, <1>5
    DEF ShopNext, ShopStep, CartStep, AddItem, UpdateItem, RemoveItem, Deliver, Advance,
        shopVars, catalogueVars

(* Stock is conserved: what a placed order takes from each option, or from *)
(* a product that has none, comes back once when it is cancelled, and      *)
(* nothing but the administrator's own entries moves it otherwise.  The    *)
(* lock of a product is what it needs: what is taken was computed before,  *)
(* from options that are still there when the order is written.            *)
THEOREM ShopUnitsConserved == ShopSpec => UnitsConserved
  <1> DEFINE Conserved ==
          edits' = edits => \A k \in Keys : Buyable(k) =>
              stock'[k] + SoldFrom(k)' = stock[k] + SoldFrom(k)
  <1>1. ASSUME ShopInv, ShopInv', StockInv, [ShopNext]_shopVars
        PROVE  Conserved
    <2>1. /\ orders \in Seq(PlacedOrder) /\ orders' \in Seq(PlacedOrder)
          /\ stock \in [Keys -> Int] /\ edits \in Nat
      BY <1>1 DEF ShopInv, ShopTypes, StockInv
    <2>2. ASSUME NEW lines \in Lines, NEW c \in Int, Moved(orders, orders', lines, c),
                 NEW k \in Keys, stock'[k] = stock[k] - c * LinesFrom(lines, k)
          PROVE  stock'[k] + SoldFrom(k)' = stock[k] + SoldFrom(k)
      <3>1. stock[k] \in Int
        BY <2>1
      <3>2. stock'[k] + UnitsFrom(orders', k) = stock[k] + UnitsFrom(orders, k)
        BY ONLY <2>1, <2>2, <3>1, ShopAssumption, StockFollows
      <3>3. QED
        BY <3>2, SoldIsUnits
    <2>3. ASSUME NEW t \in Taps, PlaceOrder(t) PROVE Conserved
      <3> DEFINE order == [store |-> tap[t].store, lines |-> tap[t].lines,
                           status |-> "PENDING", promo |-> tap[t].promo,
                           discount |-> tap[t].discount, shipped |-> FALSE,
                           by |-> "none"]
      <3>1. /\ tap[t] \in TapStates /\ tap[t].store \in Stores
        BY <1>1, <2>3 DEF PlaceOrder, ShopInv, ShopTypes, StoresLocked
      <3>2. /\ order \in PlacedOrder /\ order.status # "CANCELLED"
            /\ order.lines = tap[t].lines /\ order.lines \in Lines
        BY <3>1 DEF TapStates, PlacedOrder
      <3>3. orders' = Append(orders, order)
        BY <2>3 DEF PlaceOrder
      <3> HIDE DEF order
      <3>4. Moved(orders, orders', order.lines, 1)
        BY <2>1, <3>2, <3>3, UnitsPlaced DEF Moved
      <3>5. \A k \in Keys : Buyable(k) =>
                stock'[k] = stock[k] - LinesFrom(order.lines, k)
        BY <1>1, <2>3, <3>2, ShopAssumption, SellMoves
      <3>6. ASSUME NEW k \in Keys, Buyable(k)
            PROVE  stock'[k] = stock[k] - 1 * LinesFrom(order.lines, k)
        <4>1. LinesFrom(order.lines, k) \in Int
          BY <3>2, ShopAssumption, LinesFromInt
        <4>2. QED
          BY <3>5, <3>6, <4>1
      <3>7. ASSUME NEW k \in Keys, Buyable(k)
            PROVE  stock'[k] + SoldFrom(k)' = stock[k] + SoldFrom(k)
        BY <2>2, <3>2, <3>4, <3>6, <3>7
      <3>8. QED
        BY <3>7
    <2>4. ASSUME NEW o \in DOMAIN orders, NEW by \in {"MERCHANT", "ADMIN"},
                 Cancel(o, by)
          PROVE  Conserved
      <3> DEFINE order == [orders[o] EXCEPT !.status = "CANCELLED", !.by = by]
                 lines == orders[o].lines
      <3>1. /\ orders[o] \in PlacedOrder /\ lines \in Lines
            /\ DOMAIN orders = 1 .. Len(orders)
        BY <2>1, CountedFinite
      <3>2. /\ orders' = [orders EXCEPT ![o] = order]
            /\ orders[o].status # "CANCELLED"
        BY <2>4, <3>1 DEF Cancel, Cancellable
      <3>3. order \in PlacedOrder /\ order.status = "CANCELLED"
        BY <3>1 DEF PlacedOrder
      <3> HIDE DEF order
      <3>4. /\ DOMAIN orders' = DOMAIN orders /\ orders'[o].status = "CANCELLED"
            /\ \A i \in DOMAIN orders \ {o} : orders'[i] = orders[i]
        BY <2>1, <3>1, <3>2, <3>3, ExceptSeq
      <3>5. Moved(orders, orders', lines, -1)
        <4>1. CancelledIn(orders, orders', o)
          BY <3>2, <3>4 DEF CancelledIn
        <4>2. QED
          BY <2>1, <4>1, UnitsCancelled DEF Moved
      <3>6. \A k \in Keys : Buyable(k) => stock'[k] = stock[k] + LinesFrom(lines, k)
        BY <1>1, <2>4, ShopAssumption, GiveBackMoves
      <3> HIDE DEF lines
      <3>7. ASSUME NEW k \in Keys, Buyable(k)
            PROVE  stock'[k] = stock[k] - (-1) * LinesFrom(lines, k)
        <4>1. LinesFrom(lines, k) \in Int /\ stock[k] \in Int
          BY <2>1, <3>1, ShopAssumption, LinesFromInt
        <4>2. QED
          BY <3>6, <3>7, <4>1
      <3>8. ASSUME NEW k \in Keys, Buyable(k)
            PROVE  stock'[k] + SoldFrom(k)' = stock[k] + SoldFrom(k)
        BY <2>2, <3>1, <3>5, <3>7, <3>8
      <3>9. QED
        BY <3>8
    <2>5. ASSUME NEW o \in DOMAIN orders,
                 NEW to \in {"CONFIRMED", "SHIPPED", "DELIVERED"}, Advance(o, to)
          PROVE  Conserved
      <3> DEFINE shipped == orders[o].shipped \/ to \in {"SHIPPED", "DELIVERED"}
                 order == [orders[o] EXCEPT !.status = to, !.shipped = shipped]
      <3>1. orders[o] \in PlacedOrder /\ DOMAIN orders = 1 .. Len(orders)
        BY <2>1, CountedFinite
      <3>2. /\ orders' = [orders EXCEPT ![o] = order] /\ UNCHANGED stock
            /\ orders[o].status # "CANCELLED"
        BY <2>5, <3>1, BeforeDelivery DEF Advance, catalogueVars
      <3>3. shipped \in BOOLEAN
        OBVIOUS
      <3> HIDE DEF shipped
      <3>4. /\ order \in PlacedOrder /\ order.status = to
            /\ order.lines = orders[o].lines
        BY <3>1, <3>3 DEF PlacedOrder
      <3> HIDE DEF order
      <3>5. /\ DOMAIN orders' = DOMAIN orders
            /\ \A i \in DOMAIN orders : orders'[i] = IF i = o THEN order ELSE orders[i]
        BY <2>1, <3>1, <3>2, <3>4, ExceptSeq
      <3>6. \A i \in DOMAIN orders :
                /\ orders'[i].lines = orders[i].lines
                /\ orders'[i].status = "CANCELLED" <=> orders[i].status = "CANCELLED"
        BY <3>2, <3>4, <3>5
      <3>7. \A k \in Keys : Units(orders', k) = Units(orders, k)
        BY <2>1, <3>5, <3>6, UnitsStay
      <3>8. \A k \in Keys : UnitsFrom(orders', k) = UnitsFrom(orders, k)
        BY <3>7 DEF UnitsFrom
      <3>9. QED
        BY <3>2, <3>8, SoldIsUnits
    <2>6. CASE UNCHANGED <<orders, stock>>
      <3>1. \A k : SoldFrom(k)' = SoldFrom(k)
        BY <2>6, SoldIsUnits
      <3>2. QED
        BY <2>6, <3>1
    <2>7. CASE edits' = edits + 1
      BY <2>1, <2>7
    <2>8. QED
      BY <1>1, <2>3, <2>4, <2>5, <2>6, <2>7
      DEF ShopNext, ShopStep, CartStep, TapStep, ProductStep, Deliver, EditPromo, Edit,
          SetStock, SetStatus, ReplaceOptions, Confirm, Compute, RollBack, AddItem,
          UpdateItem, RemoveItem, shopVars, catalogueVars
  <1>2. ShopInit => StockInv
    BY StockInit, ShopAssumption
  <1>3. ShopInv /\ StockInv /\ [ShopNext]_shopVars => StockInv'
    BY StockNext, ShopAssumption
  <1>4. ShopInv /\ ShopInv' /\ StockInv /\ [ShopNext]_shopVars => [Conserved]_shopVars
    BY <1>1
  <1>5. QED
    BY <1>2, <1>3, <1>4, ShopInvariant, PTL DEF ShopSpec, UnitsConserved
=============================================================================
