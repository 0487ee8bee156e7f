------------------------------ MODULE Billing ------------------------------
(***************************************************************************)
(* The subscription of a merchant, paid through Stripe or by hand:         *)
(*   src/billing/stripe-billing.service.ts   checkout, webhook,            *)
(*                                           setCancellation               *)
(*   src/billing/subscription.service.ts     cancel, resume,               *)
(*                                           activateManually, extendTrial *)
(*                                                                         *)
(* checkout, webhook and setCancellation lock the owner for the length of  *)
(* a transaction, in which they also talk to Stripe; the other operations  *)
(* read and later write without that lock.  A call may end anywhere; its   *)
(* open transaction is then undone, what it did at Stripe is not.          *)
(* Stripe is external: it creates one session per idempotency key, and     *)
(* delivers an event again and again until a webhook call acknowledges it, *)
(* in any order.                                                           *)
(*                                                                         *)
(* One owner, whose trial has begun, and one plan by the month.  A session *)
(* and the subscription it leads to are named by their request key.        *)
(***************************************************************************)
EXTENDS Integers

CONSTANTS
    Calls,          \* calls in progress at a time
    MaxKeys,        \* bound on the request keys
    MaxTime,        \* bound on the months
    MaxEvents,      \* bound on the events Stripe has not got rid of
    MaxFailures     \* bound on the calls that end halfway

ASSUME BillingAssumption ==
    /\ MaxKeys \in Nat \ {0} /\ MaxTime \in Nat \ {0}
    /\ MaxEvents \in Nat /\ MaxFailures \in Nat

VARIABLES
    now,        \* the month
    broken,     \* calls that ended halfway so far
    account,    \* Subscription: the owner's row
    session,    \* Stripe: the checkout session of a key
    remote,     \* Stripe: the subscription of a key
    events,     \* Stripe: events no call has acknowledged
    call,       \* what each call is doing
    crossed     \* columns of the row that a call without the lock wrote since
                \* Stripe's state was last stored in them (history)

billingVars == <<now, broken, account, session, remote, events, call, crossed>>
stripeVars == <<session, remote, events>>

Keys == 1 .. MaxKeys
NoKey == 0
Kept == 0                       \* an accessEndsAt that is not written
Live == {"active", "past_due", "unpaid"}
Columns == {"cancels", "access"}

Accounts == [sub : Keys \cup {NoKey}, request : Keys \cup {NoKey},
             session : Keys \cup {NoKey}, plan : BOOLEAN,
             provider : {"none", "MANUAL", "STRIPE"}, cancels : BOOLEAN,
             access : Int]
Remotes == [status : Live \cup {"none", "canceled"}, cancels : BOOLEAN,
            paidTo : Int, ended : Int]
Sessions == {"none", "created", "open", "complete", "expired"}
Events == [id : Nat, of : Keys \cup {NoKey}, invoice : Int]
CallStates == [at : {"idle", "create", "store", "received", "fetched", "ask",
                     "asked", "mark", "activate", "extend"},
               key : Keys \cup {NoKey}, event : Events, cancels : BOOLEAN,
               until : Int, activates : BOOLEAN]

NoRemote == [status |-> "none", cancels |-> FALSE, paidTo |-> 1, ended |-> 1]
NoEvent == [id |-> 0, of |-> NoKey, invoice |-> Kept]
NoCall == [at |-> "idle", key |-> NoKey, event |-> NoEvent, cancels |-> FALSE,
           until |-> Kept, activates |-> FALSE]

BillingInit ==
    /\ now = 1 /\ broken = 0
    /\ account = [sub |-> NoKey, request |-> NoKey, session |-> NoKey,
                  plan |-> FALSE, provider |-> "none", cancels |-> FALSE,
                  access |-> 2]
    /\ session = [k \in Keys |-> "none"]
    /\ remote = [k \in Keys |-> NoRemote]
    /\ events = {}
    /\ call = [c \in Calls |-> NoCall]
    /\ crossed = {}

-----------------------------------------------------------------------------
Locked == \E c \in Calls : call[c].at \in {"fetched", "asked"}

(* A plausible slip: the owner is not locked.                              *)
NoLock == TRUE

lockOwner == ~Locked

Does(c, what) == call' = [call EXCEPT ![c] = what]
Goes(c, at) == Does(c, [call[c] EXCEPT !.at = at])
Ends(c) == Does(c, NoCall)
Write(row) == account' = row
Overwrites(columns) == crossed' = crossed \cup columns

Lowest(S) == {i \in S : \A j \in S : i <= j}

(* Each event has an identity of its own, which nobody uses any more.      *)
EventIds == 1 .. MaxEvents
InUse == {e.id : e \in events} \cup {call[c].event.id : c \in Calls}
Emit(k, invoice) ==
    \E i \in Lowest(EventIds \ InUse) :
        events' = events \cup {[id |-> i, of |-> k, invoice |-> invoice]}

-----------------------------------------------------------------------------
(* checkout                                                                *)
EndedAtStripe == account.sub # NoKey /\ remote[account.sub].status = "canceled"

(* No Stripe subscription that goes on, and no other paid time.            *)
MayPay ==
    IF account.sub # NoKey THEN EndedAtStripe
    ELSE ~(account.plan /\ account.access > now)

SessionIs(s) == account.session # NoKey /\ session[account.session] = s
Unconfirmed == SessionIs("complete") /\ ~EndedAtStripe
Unused == {k \in Keys : session[k] = "none" /\ account.request # k
                        /\ \A c \in Calls : call[c].key # k}

(* A plausible slip: each call pays under a key of its own.                *)
FreshKeys == Lowest(Unused)

(* The persisted key, unless its session is over.                          *)
RequestKeys ==
    IF account.session = NoKey /\ account.request # NoKey THEN {account.request}
    ELSE Lowest(Unused)

(* The reservation, in a transaction.  What it reads at Stripe is final,   *)
(* or it writes nothing.  An open session is simply shown again.           *)
checkout(c) ==
    /\ call[c].at = "idle" /\ lockOwner
    /\ MayPay /\ ~Unconfirmed /\ ~SessionIs("open")
    /\ \E k \in RequestKeys :
           /\ Write([account EXCEPT !.sub = NoKey, !.request = k, !.session = NoKey])
           /\ Does(c, [NoCall EXCEPT !.at = "create", !.key = k])
    /\ UNCHANGED <<now, broken, stripeVars, crossed>>

(* Stripe answers a repeated key with the session it has.                  *)
CreateSession(c) ==
    LET k == call[c].key
    IN  /\ call[c].at = "create"
        /\ session' = IF session[k] = "none"
                      THEN [session EXCEPT ![k] = "created"] ELSE session
        /\ Goes(c, "store")
        /\ UNCHANGED <<now, broken, account, remote, events, crossed>>

(* The session is stored, if its key still is, and shown to the owner.     *)
StoreSession(c) ==
    LET k == call[c].key
    IN  /\ call[c].at = "store"
        /\ Write(IF account.request = k THEN [account EXCEPT !.session = k]
                 ELSE account)
        /\ session' = IF session[k] = "created"
                      THEN [session EXCEPT ![k] = "open"] ELSE session
        /\ Ends(c)
        /\ UNCHANGED <<now, broken, remote, events, crossed>>

-----------------------------------------------------------------------------
(* webhook                                                                 *)
Ours(k) == IF account.sub # NoKey THEN account.sub = k ELSE account.request = k

(* An event without a receipt arrives; the first fetch only tells whose    *)
(* subscription it is.                                                     *)
webhook(c, e) ==
    /\ call[c].at = "idle"
    /\ Does(c, [NoCall EXCEPT !.at = "received", !.event = e])
    /\ UNCHANGED <<now, broken, account, stripeVars, crossed>>

(* The invoice of the event or, for other events, the latest one.          *)
PaidTo(e) ==
    IF e.invoice # Kept THEN e.invoice
    ELSE IF remote[e.of].status = "active" THEN remote[e.of].paidTo
    ELSE Kept

(* Under the lock: the receipt, the row, whose it is, and Stripe again.    *)
LockAndFetch(c) ==
    LET e == call[c].event
        r == remote[e.of]
        buys == PaidTo(e) > account.access /\ r.status \in {"active", "past_due"}
        end == IF r.status = "canceled" THEN r.ended ELSE now
        ends == r.status \in {"canceled", "unpaid"}
    IN  /\ call[c].at = "received" /\ lockOwner
        /\ IF e \notin events \/ ~Ours(e.of) THEN Ends(c)
           ELSE Does(c, [call[c] EXCEPT !.at = "fetched", !.cancels = r.cancels,
                    !.activates = buys,
                    !.until = IF buys THEN PaidTo(e)
                              ELSE IF ~ends THEN Kept
                              ELSE IF end < account.access THEN end
                              ELSE account.access])
        /\ UNCHANGED <<now, broken, account, stripeVars, crossed>>

Access(until) == IF until = Kept THEN account.access ELSE until

(* A plausible slip: a receipt for the subscription, not for the event.    *)
Others(e) == {f \in events : f.of # e.of}

Unreceipted(e) == events \ {e}

(* What a webhook stores is up to date for an access if the event told of  *)
(* the last period paid.                                                   *)
Refreshed(done) ==
    {"cancels"} \cup {column \in {"access"} :
                         done.activates /\ done.until >= remote[done.event.of].paidTo}

(* The row and the receipt, together.                                      *)
Commit(c) ==
    LET done == call[c]
        row == [account EXCEPT !.sub = done.event.of, !.cancels = done.cancels,
                               !.access = Access(done.until)]
    IN  /\ done.at = "fetched"
        /\ Write(IF done.activates
                 THEN [row EXCEPT !.plan = TRUE, !.provider = "STRIPE"] ELSE row)
        /\ events' = Unreceipted(done.event)
        /\ crossed' = crossed \ Refreshed(done)
        /\ Ends(c)
        /\ UNCHANGED <<now, broken, session, remote>>

-----------------------------------------------------------------------------
(* cancel and resume look at the row, ...                                  *)
Active == account.plan /\ account.access > now

Decide(c, cancels) ==
    /\ call[c].at = "idle" /\ Active
    /\ IF account.provider = "STRIPE" THEN cancels \/ account.cancels
       ELSE cancels # account.cancels
    /\ Does(c, [NoCall EXCEPT !.cancels = cancels,
                    !.at = IF account.provider = "STRIPE" THEN "ask" ELSE "mark"])
    /\ UNCHANGED <<now, broken, account, stripeVars, crossed>>

(* ... mark a plan that was paid by hand, ...                              *)
Mark(c) ==
    /\ call[c].at = "mark"
    /\ Write([account EXCEPT !.cancels = call[c].cancels])
    /\ Overwrites({"cancels"})
    /\ Ends(c)
    /\ UNCHANGED <<now, broken, stripeVars>>

(* ... or tell Stripe, under the lock: a conflict, or Stripe does it, or   *)
(* refuses, or is not reached; ...                                         *)
setCancellation(c) ==
    LET k == account.sub
    IN  /\ call[c].at = "ask" /\ lockOwner
        /\ \/ /\ k # NoKey /\ account.provider = "STRIPE" /\ account.access > now
              /\ remote[k].status \in Live
              /\ remote' = [remote EXCEPT ![k].cancels = call[c].cancels]
              /\ Emit(k, Kept)
              /\ Does(c, [call[c] EXCEPT !.at = "asked", !.key = k])
           \/ Ends(c) /\ UNCHANGED <<remote, events>>
        /\ UNCHANGED <<now, broken, account, session, crossed>>

(* ... and store what Stripe says.                                         *)
StoreCancellation(c) ==
    /\ call[c].at = "asked"
    /\ Write([account EXCEPT !.cancels = call[c].cancels])
    /\ crossed' = crossed \ {"cancels"}
    /\ Ends(c)
    /\ UNCHANGED <<now, broken, stripeVars>>

-----------------------------------------------------------------------------
(* An administrator records a payment: read, ...                           *)
activateManually(c) ==
    LET start == IF Active THEN account.access ELSE now
    IN  /\ call[c].at = "idle" /\ start <= MaxTime
        /\ Does(c, [NoCall EXCEPT !.at = "activate", !.until = start + 1])
        /\ UNCHANGED <<now, broken, account, stripeVars, crossed>>

(* ... and write.                                                          *)
Activate(c) ==
    /\ call[c].at = "activate"
    /\ Write([account EXCEPT !.plan = TRUE, !.provider = "MANUAL",
                             !.cancels = FALSE, !.access = call[c].until])
    /\ Overwrites({"cancels", "access"})
    /\ Ends(c)
    /\ UNCHANGED <<now, broken, stripeVars>>

(* ... or grants trial time, while there is no plan.                       *)
extendTrial(c) ==
    LET start == IF account.access > now THEN account.access ELSE now
    IN  /\ call[c].at = "idle" /\ ~account.plan /\ start <= MaxTime
        /\ Does(c, [NoCall EXCEPT !.at = "extend", !.until = start + 1])
        /\ UNCHANGED <<now, broken, account, stripeVars, crossed>>

Extend(c) ==
    /\ call[c].at = "extend"
    /\ Write([account EXCEPT !.access = call[c].until])
    /\ Overwrites({"access"})
    /\ Ends(c)
    /\ UNCHANGED <<now, broken, stripeVars>>

(* A call ends halfway: an error, a timeout, a crash.                      *)
Breaks(c) ==
    /\ call[c].at # "idle" /\ broken < MaxFailures
    /\ broken' = broken + 1
    /\ Ends(c)
    /\ UNCHANGED <<now, account, stripeVars, crossed>>

-----------------------------------------------------------------------------
(* Stripe and its customer (external).                                     *)
Becomes(k, r, invoice) ==
    /\ remote' = [remote EXCEPT ![k] = r]
    /\ Emit(k, invoice)
    /\ UNCHANGED <<now, broken, account, session, call, crossed>>

(* The owner pays the session she was shown.  Of the events that tell of   *)
(* it, all of which lead to the same fetch, one is kept.                   *)
Pay(k) ==
    /\ session[k] = "open" /\ now <= MaxTime
    /\ session' = [session EXCEPT ![k] = "complete"]
    /\ remote' = [remote EXCEPT ![k] = [status |-> "active", cancels |-> FALSE,
                                        paidTo |-> now + 1, ended |-> 1]]
    /\ \E invoice \in {Kept, now + 1} : Emit(k, invoice)
    /\ UNCHANGED <<now, broken, account, call, crossed>>

SessionExpires(k) ==
    /\ session[k] \in {"created", "open"}
    /\ session' = [session EXCEPT ![k] = "expired"]
    /\ UNCHANGED <<now, broken, account, remote, events, call, crossed>>

(* A new period is paid, or not.                                           *)
Renews(k) ==
    LET r == remote[k]
    IN  /\ r.status = "active" /\ ~r.cancels /\ r.paidTo <= now /\ r.paidTo <= MaxTime
        /\ \/ Becomes(k, [r EXCEPT !.paidTo = @ + 1], r.paidTo + 1)
           \/ Becomes(k, [r EXCEPT !.status = "past_due"], Kept)

PaysLate(k) ==
    LET r == remote[k]
    IN  /\ r.status \in {"past_due", "unpaid"} /\ r.paidTo <= MaxTime
        /\ Becomes(k, [r EXCEPT !.status = "active", !.paidTo = @ + 1], r.paidTo + 1)

GoesUnpaid(k) ==
    /\ remote[k].status = "past_due"
    /\ Becomes(k, [remote[k] EXCEPT !.status = "unpaid"], Kept)

(* At the end of a period, or at once from Stripe's dashboard.             *)
SubscriptionEnds(k) ==
    /\ remote[k].status \in Live
    /\ Becomes(k, [remote[k] EXCEPT !.status = "canceled", !.ended = now], Kept)

DashboardCancels(k) ==
    /\ remote[k].status \in Live
    /\ Becomes(k, [remote[k] EXCEPT !.cancels = ~@], Kept)

(* Stripe gives up events of a subscription that was replaced.             *)
GivesUp(e) ==
    /\ ~Ours(e.of) /\ remote[e.of].status = "canceled"
    /\ events' = events \ {e}
    /\ UNCHANGED <<now, broken, account, session, remote, call, crossed>>

MonthPasses ==
    /\ now < MaxTime /\ now' = now + 1
    /\ UNCHANGED <<broken, account, stripeVars, call, crossed>>

-----------------------------------------------------------------------------
CallStarts(c) ==
    \/ checkout(c) \/ activateManually(c) \/ extendTrial(c)
    \/ \E cancels \in BOOLEAN : Decide(c, cancels)
CallGoesOn(c) ==
    \/ CreateSession(c) \/ StoreSession(c) \/ LockAndFetch(c) \/ Commit(c)
    \/ Mark(c) \/ setCancellation(c) \/ StoreCancellation(c)
    \/ Activate(c) \/ Extend(c)

StripeMoves ==
    \/ \E k \in Keys : \/ Pay(k) \/ SessionExpires(k) \/ Renews(k) \/ PaysLate(k)
                       \/ GoesUnpaid(k) \/ SubscriptionEnds(k) \/ DashboardCancels(k)
    \/ \E e \in events : GivesUp(e)

BillingNext ==
    \/ \E c \in Calls : \/ CallStarts(c) \/ CallGoesOn(c) \/ Breaks(c)
                        \/ \E e \in events : webhook(c, e)
    \/ StripeMoves \/ MonthPasses

BillingSpec == BillingInit /\ [][BillingNext]_billingVars

-----------------------------------------------------------------------------
(***************************************************************************)
(* Properties.                                                             *)
(***************************************************************************)

(* Type invariant.                                                         *)
BillingTypeOK ==
    /\ now \in Int /\ broken \in Nat
    /\ account \in Accounts
    /\ session \in [Keys -> Sessions]
    /\ remote \in [Keys -> Remotes]
    /\ events \subseteq Events
    /\ call \in [Calls -> CallStates]
    /\ crossed \subseteq Columns

(* "One subscription per owner account": whatever taps, timeouts, crashes  *)
(* and payments overlap, the subscription that is being charged is the one *)
(* the account has, or the one its pending request leads to; no other is   *)
(* charged, and none whose webhooks would be refused.                      *)
OneLiveSubscription ==
    \A k \in Keys : remote[k].status \in Live => Ours(k)

(* Once no event of the subscription is on its way, the owner is told      *)
(* about its cancellation what Stripe will do, whichever calls, crashes    *)
(* and dashboards changed it last; unless a cancellation or a payment by   *)
(* hand, which do not lock the owner, was written since.                   *)
Settled(k) == account.sub = k /\ \A e \in events : e.of # k

CancellationFollowsStripe ==
    \A k \in Keys :
        Settled(k) /\ "cancels" \notin crossed => account.cancels = remote[k].cancels

(* A payment is never forgotten: once no event is on its way, the account  *)
(* is linked to the subscription that is paid and, unless a plan was       *)
(* bought by hand since or trial time was written over it, its access      *)
(* reaches to the end of the last period Stripe was paid for.              *)
PaidTimeIsGiven ==
    \A k \in Keys :
        remote[k].status = "active" /\ (\A e \in events : e.of # k) =>
            /\ account.sub = k
            /\ "access" \notin crossed => account.access >= remote[k].paidTo

=============================================================================
