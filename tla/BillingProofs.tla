---------------------------- MODULE BillingProofs ----------------------------
(***************************************************************************)
(* Proofs about Billing: the types; that the one subscription Stripe       *)
(* charges is the account's; and that the account is told of its           *)
(* cancellation and given the time that is paid.                           *)
(***************************************************************************)
EXTENDS Billing, TLAPS

(* A stored session is the one of the pending request, and Stripe has it.  *)
SessionIsRequested ==
    account.session # NoKey =>
        /\ account.session = account.request
        /\ session[account.session] \in {"open", "complete", "expired"}

(* Only the pending request has a session that may still be paid, and only *)
(* while the account has no subscription.                                  *)
OpenIsRequested ==
    \A k \in Keys : session[k] \in {"created", "open"} =>
        k = account.request /\ account.sub = NoKey

(* The account's subscription is the one of its last request.              *)
SubIsRequested ==
    account.sub # NoKey =>
        account.sub = account.request /\ session[account.sub] = "complete"

(* A checkout that is late holds the pending key, or one that is over.     *)
KeysAreHeld ==
    \A c \in Calls : call[c].at \in {"create", "store"} =>
        /\ call[c].key \in Keys
        /\ session[call[c].key] = "none" =>
               call[c].at = "create" /\ call[c].key = account.request

(* A subscription comes from a session that was paid; only that of the     *)
(* pending request is charged.                                             *)
PaidIsRequested ==
    \A k \in Keys :
        /\ remote[k].status # "none" => session[k] = "complete"
        /\ remote[k].status \in Live => k = account.request

EventsArePaid ==
    \A e \in events : e.of \in Keys /\ session[e.of] = "complete"

(* Under the lock, what a webhook fetched stays the account's.             *)
FetchedIsRequested ==
    \A c \in Calls : call[c].at = "fetched" =>
        /\ call[c].event.of \in Keys
        /\ call[c].event.of = account.request
        /\ session[call[c].event.of] = "complete"

KeyInv ==
    /\ SessionIsRequested /\ OpenIsRequested /\ SubIsRequested /\ KeysAreHeld
    /\ PaidIsRequested /\ EventsArePaid /\ FetchedIsRequested

BillingInv == BillingTypeOK /\ KeyInv

-----------------------------------------------------------------------------
(* Types.                                                                  *)

(* The assumptions on the bounds.                                          *)
LEMMA Bounds == MaxKeys \in Nat \ {0} /\ MaxTime \in Nat \ {0} /\ MaxEvents \in Nat
  BY BillingAssumption

(* A call that has ended, and one that does something, is well typed.      *)
LEMMA NoCallTyped == NoCall \in CallStates /\ NoEvent \in Events
  BY DEF NoCall, NoEvent, CallStates, Events, NoKey, Kept

LEMMA DoesTyped ==
  ASSUME call \in [Calls -> CallStates], NEW c \in Calls,
         NEW what \in CallStates, Does(c, what)
  PROVE  /\ call' \in [Calls -> CallStates]
         /\ call'[c] = what
         /\ \A d \in Calls \ {c} : call'[d] = call[d]
  BY DEF Does

(* Ending a call.                                                          *)
LEMMA EndsTyped ==
  ASSUME call \in [Calls -> CallStates], NEW c \in Calls, Ends(c)
  PROVE  /\ call' \in [Calls -> CallStates]
         /\ call'[c].at = "idle"
         /\ \A d \in Calls \ {c} : call'[d] = call[d]
  <1>1. Does(c, NoCall) BY DEF Ends
  <1>2. NoCall.at = "idle" BY DEF NoCall
  <1> QED BY <1>1, <1>2, NoCallTyped, DoesTyped

(* An event Stripe emits is well typed and about its subscription.         *)
LEMMA EmitTyped ==
  ASSUME events \subseteq Events, NEW k \in Keys, NEW invoice \in Int,
         Emit(k, invoice)
  PROVE  /\ events' \subseteq Events
         /\ \A e \in events' : e \in events \/ e.of = k
  <1>1. PICK i \in Lowest(EventIds \ InUse) :
            events' = events \cup {[id |-> i, of |-> k, invoice |-> invoice]}
    BY DEF Emit
  <1>2. i \in Nat BY <1>1, Bounds DEF Lowest, EventIds
  <1>3. [id |-> i, of |-> k, invoice |-> invoice] \in Events BY <1>2 DEF Events
  <1> QED BY <1>1, <1>3

(* What a checkout, a webhook, a cancellation and an administrator write.  *)
LEMMA CheckoutTyped ==
  ASSUME BillingTypeOK, NEW c \in Calls, checkout(c)
  PROVE  BillingTypeOK'
  <1>1. PICK k \in RequestKeys :
            /\ Write([account EXCEPT !.sub = NoKey, !.request = k, !.session = NoKey])
            /\ Does(c, [NoCall EXCEPT !.at = "create", !.key = k])
    BY DEF checkout
  <1>2. k \in Keys
    <2>1. CASE account.session = NoKey /\ account.request # NoKey
      BY <1>1, <2>1 DEF RequestKeys, BillingTypeOK, Accounts
    <2>2. CASE ~(account.session = NoKey /\ account.request # NoKey)
      BY <1>1, <2>2 DEF RequestKeys, Lowest, Unused
    <2> QED BY <2>1, <2>2
  <1>3. account' \in Accounts
    BY <1>1, <1>2 DEF Write, BillingTypeOK, Accounts
  <1>4. [NoCall EXCEPT !.at = "create", !.key = k] \in CallStates
    BY <1>2, NoCallTyped DEF CallStates
  <1>5. call' \in [Calls -> CallStates]
    BY <1>1, <1>4, DoesTyped DEF BillingTypeOK
  <1> QED BY <1>3, <1>5 DEF checkout, BillingTypeOK, stripeVars

LEMMA CreateTyped ==
  ASSUME BillingTypeOK, NEW c \in Calls, CreateSession(c)
  PROVE  BillingTypeOK'
  <1>1. session' \in [Keys -> Sessions]
    BY DEF CreateSession, BillingTypeOK, Sessions
  <1>2. [call[c] EXCEPT !.at = "store"] \in CallStates
    BY DEF BillingTypeOK, CallStates
  <1>3. call' \in [Calls -> CallStates]
    BY <1>2, DoesTyped DEF CreateSession, Goes, BillingTypeOK
  <1> QED BY <1>1, <1>3 DEF CreateSession, BillingTypeOK

LEMMA StoreTyped ==
  ASSUME BillingTypeOK, NEW c \in Calls, StoreSession(c)
  PROVE  BillingTypeOK'
  <1>1. session' \in [Keys -> Sessions]
    BY DEF StoreSession, BillingTypeOK, Sessions
  <1>2. call[c].key \in Keys \cup {NoKey} BY DEF BillingTypeOK, CallStates
  <1>3. account' \in Accounts
    BY <1>2 DEF StoreSession, Write, BillingTypeOK, Accounts
  <1>4. call' \in [Calls -> CallStates]
    BY EndsTyped DEF StoreSession, BillingTypeOK
  <1> QED BY <1>1, <1>3, <1>4 DEF StoreSession, BillingTypeOK

LEMMA ReceiveTyped ==
  ASSUME BillingTypeOK, NEW c \in Calls, NEW e \in events, webhook(c, e)
  PROVE  BillingTypeOK'
  <1>1. e \in Events BY DEF BillingTypeOK
  <1>2. [NoCall EXCEPT !.at = "received", !.event = e] \in CallStates
    BY <1>1, NoCallTyped DEF CallStates
  <1>3. call' \in [Calls -> CallStates]
    BY <1>2, DoesTyped DEF webhook, BillingTypeOK
  <1> QED BY <1>3 DEF webhook, BillingTypeOK, stripeVars

(* What a webhook has fetched: either the call ends, or it keeps its event *)
(* and holds the lock.                                                     *)
LEMMA FetchTyped ==
  ASSUME BillingTypeOK, EventsArePaid, NEW c \in Calls, LockAndFetch(c)
  PROVE  /\ BillingTypeOK'
         /\ \A d \in Calls \ {c} : call'[d] = call[d]
         /\ \/ call'[c].at = "idle"
            \/ /\ call[c].event \in events /\ Ours(call[c].event.of)
               /\ call'[c].at = "fetched" /\ call'[c].event = call[c].event
  <1> DEFINE e == call[c].event
             r == remote[e.of]
             buys == PaidTo(e) > account.access /\ r.status \in {"active", "past_due"}
             end == IF r.status = "canceled" THEN r.ended ELSE now
             ends == r.status \in {"canceled", "unpaid"}
             until == IF buys THEN PaidTo(e)
                      ELSE IF ~ends THEN Kept
                      ELSE IF end < account.access THEN end
                      ELSE account.access
             what == [call[c] EXCEPT !.at = "fetched", !.cancels = r.cancels,
                                     !.activates = buys, !.until = until]
  <1>1. CASE e \notin events \/ ~Ours(e.of)
    <2>1. Ends(c) BY <1>1 DEF LockAndFetch
    <2> HIDE DEF e
    <2> QED BY <2>1, EndsTyped DEF LockAndFetch, BillingTypeOK, stripeVars
  <1>2. CASE e \in events /\ Ours(e.of)
    <2>1. Does(c, what) BY <1>2 DEF LockAndFetch
    <2>2. e \in Events /\ e.of \in Keys
      BY <1>2 DEF EventsArePaid, BillingTypeOK
    <2>3. r \in Remotes BY <2>2 DEF BillingTypeOK
    <2>4. e.invoice \in Int BY <2>2 DEF Events
    <2>5. PaidTo(e) \in Int
      BY <2>3, <2>4 DEF PaidTo, Remotes, Kept
    <2>6. account.access \in Int BY DEF BillingTypeOK, Accounts
    <2>7. end \in Int BY <2>3 DEF BillingTypeOK, Remotes
    <2>8. until \in Int
      <3> HIDE DEF end, buys, ends
      <3> QED BY <2>5, <2>6, <2>7 DEF Kept
    <2>9. r.cancels \in BOOLEAN BY <2>3 DEF Remotes
    <2>10. buys \in BOOLEAN OBVIOUS
    <2> HIDE DEF until, buys
    <2>11. call[c] \in CallStates BY DEF BillingTypeOK
    <2> HIDE DEF r
    <2>12. what \in CallStates
      BY <2>8, <2>9, <2>10, <2>11 DEF CallStates
    <2>13. what.at = "fetched" /\ what.event = call[c].event
      BY <2>11 DEF CallStates
    <2> HIDE DEF what
    <2>14. /\ call' \in [Calls -> CallStates] /\ call'[c] = what
           /\ \A d \in Calls \ {c} : call'[d] = call[d]
      BY <2>1, <2>12, DoesTyped DEF BillingTypeOK
    <2> QED BY <1>2, <2>13, <2>14 DEF LockAndFetch, BillingTypeOK, stripeVars
  <1> QED BY <1>1, <1>2

(* What the row is written with never changes its type.                    *)
LEMMA RowTyped ==
  ASSUME BillingTypeOK, NEW plan \in BOOLEAN, NEW provider \in {"MANUAL", "STRIPE"},
         NEW cancels \in BOOLEAN, NEW access \in Int, NEW k \in Keys \cup {NoKey}
  PROVE  /\ [account EXCEPT !.cancels = cancels] \in Accounts
         /\ [account EXCEPT !.access = access] \in Accounts
         /\ [account EXCEPT !.plan = plan, !.provider = provider, !.cancels = cancels,
                            !.access = access] \in Accounts
         /\ [account EXCEPT !.sub = k, !.cancels = cancels, !.access = access]
               \in Accounts
  BY DEF BillingTypeOK, Accounts

LEMMA CommitTyped ==
  ASSUME BillingTypeOK, NEW c \in Calls, Commit(c)
  PROVE  /\ BillingTypeOK'
         /\ account'.sub = call[c].event.of /\ account'.request = account.request
         /\ account'.session = account.session
         /\ call'[c].at = "idle" /\ \A d \in Calls \ {c} : call'[d] = call[d]
  <1> DEFINE done == call[c]
             row == [account EXCEPT !.sub = done.event.of, !.cancels = done.cancels,
                                    !.access = Access(done.until)]
             paid == [row EXCEPT !.plan = TRUE, !.provider = "STRIPE"]
  <1>1. done \in CallStates BY DEF BillingTypeOK
  <1>2. done.event.of \in Keys \cup {NoKey} /\ done.cancels \in BOOLEAN
    BY <1>1 DEF CallStates, Events
  <1>3. account \in Accounts BY DEF BillingTypeOK
  <1>4. Access(done.until) \in Int BY <1>1, <1>3 DEF Access, CallStates, Accounts
  <1>5. row \in Accounts /\ row.sub = done.event.of
        /\ row.request = account.request /\ row.session = account.session
    <2> HIDE DEF done
    <2> QED BY <1>2, <1>3, <1>4 DEF Accounts
  <1>6. paid \in Accounts /\ paid.sub = done.event.of
        /\ paid.request = account.request /\ paid.session = account.session
    <2> HIDE DEF row
    <2> QED BY <1>5 DEF Accounts
  <1>7. account' = paid \/ account' = row
    <2>1. Write(IF done.activates THEN paid ELSE row) BY DEF Commit
    <2> HIDE DEF paid, row, done
    <2> QED BY <2>1 DEF Write
  <1>8. Ends(c) BY DEF Commit
  <1>9. call' \in [Calls -> CallStates] /\ call'[c].at = "idle"
        /\ \A d \in Calls \ {c} : call'[d] = call[d]
    BY <1>8, EndsTyped DEF BillingTypeOK
  <1>10. events' \subseteq Events BY DEF Commit, Unreceipted, BillingTypeOK
  <1>11. crossed' \subseteq Columns BY DEF Commit, Refreshed, BillingTypeOK
  <1>12. now' = now /\ broken' = broken /\ session' = session /\ remote' = remote
    BY DEF Commit
  <1>13. account' \in Accounts /\ account'.sub = done.event.of
         /\ account'.request = account.request /\ account'.session = account.session
    <2> HIDE DEF paid, row, done
    <2> QED BY <1>5, <1>6, <1>7
  <1> HIDE DEF paid, row
  <1> QED BY <1>9, <1>10, <1>11, <1>12, <1>13 DEF BillingTypeOK

(* What a step leaves alone that KeyInv does not look into.                *)
Quietly ==
    /\ account'.sub = account.sub /\ account'.request = account.request
    /\ account'.session = account.session
    /\ session' = session
    /\ \A k \in Keys :
          /\ remote'[k].status \in Live => remote[k].status \in Live
          /\ remote'[k].status # "none" => remote[k].status # "none"
    /\ \A e \in events' :
          e \in events \/ (e.of \in Keys /\ remote[e.of].status # "none")
    /\ \A c \in Calls : \/ call'[c] = call[c]
                         \/ call'[c].at \notin {"create", "store", "fetched"}

(* Such a step keeps KeyInv.                                               *)
LEMMA QuietKeepsKeys ==
  ASSUME KeyInv, Quietly
  PROVE  KeyInv'
  <1>1. SessionIsRequested' BY DEF KeyInv, SessionIsRequested, Quietly
  <1>2. OpenIsRequested' BY DEF KeyInv, OpenIsRequested, Quietly
  <1>3. SubIsRequested' BY DEF KeyInv, SubIsRequested, Quietly
  <1>4. KeysAreHeld' BY DEF KeyInv, KeysAreHeld, Quietly
  <1>5. PaidIsRequested' BY DEF KeyInv, PaidIsRequested, Quietly
  <1>6. EventsArePaid' BY DEF KeyInv, EventsArePaid, PaidIsRequested, Quietly
  <1>7. FetchedIsRequested' BY DEF KeyInv, FetchedIsRequested, Quietly
  <1> QED BY <1>1, <1>2, <1>3, <1>4, <1>5, <1>6, <1>7 DEF KeyInv

-----------------------------------------------------------------------------
(* The steps that do not touch the keys.                                   *)

(* A call that only looks at the row and goes on later.                    *)
LEMMA LooksKeep ==
  ASSUME BillingTypeOK, KeyInv, NEW c \in Calls, NEW what \in CallStates,
         what.at \notin {"create", "store", "fetched"}, Does(c, what),
         UNCHANGED <<now, broken, account, stripeVars, crossed>>
  PROVE  BillingInv'
  <1>1. /\ call' \in [Calls -> CallStates] /\ call'[c] = what
        /\ \A d \in Calls \ {c} : call'[d] = call[d]
    BY DoesTyped DEF BillingTypeOK
  <1>2. BillingTypeOK' BY <1>1 DEF BillingTypeOK, stripeVars
  <1>3. Quietly BY <1>1 DEF Quietly, stripeVars
  <1> QED BY <1>2, <1>3, QuietKeepsKeys DEF BillingInv

LEMMA ReceiveKeeps ==
  ASSUME BillingInv, NEW c \in Calls, NEW e \in events, webhook(c, e)
  PROVE  BillingInv'
  <1> DEFINE what == [NoCall EXCEPT !.at = "received", !.event = e]
  <1>1. what \in CallStates /\ what.at = "received"
    BY NoCallTyped DEF BillingInv, BillingTypeOK, CallStates
  <1>2. Does(c, what) /\ UNCHANGED <<now, broken, account, stripeVars, crossed>>
    BY DEF webhook
  <1> HIDE DEF what
  <1> QED BY <1>1, <1>2, LooksKeep DEF BillingInv

LEMMA DecideKeeps ==
  ASSUME BillingInv, NEW c \in Calls, NEW cancels \in BOOLEAN, Decide(c, cancels)
  PROVE  BillingInv'
  <1> DEFINE at == IF account.provider = "STRIPE" THEN "ask" ELSE "mark"
             what == [NoCall EXCEPT !.cancels = cancels, !.at = at]
  <1>1. at \in {"ask", "mark"} OBVIOUS
  <1>2. Does(c, what) /\ UNCHANGED <<now, broken, account, stripeVars, crossed>>
    BY DEF Decide
  <1> HIDE DEF at
  <1>3. what \in CallStates /\ what.at \in {"ask", "mark"}
    BY <1>1, NoCallTyped DEF CallStates
  <1> HIDE DEF what
  <1> QED BY <1>2, <1>3, LooksKeep DEF BillingInv

(* Months are whole numbers.                                               *)
LEMMA MonthsTyped ==
  ASSUME BillingTypeOK
  PROVE  /\ now + 1 \in Int /\ account.access + 1 \in Int
         /\ now \in Int /\ account.access \in Int
  BY DEF BillingTypeOK, Accounts

LEMMA GrantKeeps ==
  ASSUME BillingInv, NEW c \in Calls, activateManually(c) \/ extendTrial(c)
  PROVE  BillingInv'
  <1>1. PICK at \in {"activate", "extend"} :
          \E until \in Int : Does(c, [NoCall EXCEPT !.at = at, !.until = until])
    BY MonthsTyped DEF activateManually, extendTrial, BillingInv
  <1>2. PICK until \in Int : Does(c, [NoCall EXCEPT !.at = at, !.until = until])
    BY <1>1
  <1> DEFINE what == [NoCall EXCEPT !.at = at, !.until = until]
  <1>3. what \in CallStates /\ what.at \in {"activate", "extend"}
    BY NoCallTyped DEF CallStates
  <1>4. UNCHANGED <<now, broken, account, stripeVars, crossed>>
    BY DEF activateManually, extendTrial
  <1>5. Does(c, what) BY <1>2
  <1> HIDE DEF what
  <1> QED BY <1>3, <1>4, <1>5, LooksKeep DEF BillingInv

(* A call that ends, having written the row or not, and not its keys.      *)
LEMMA EndKeeps ==
  ASSUME BillingTypeOK, KeyInv, NEW c \in Calls, Ends(c),
         now' = now, broken' \in Nat, UNCHANGED stripeVars,
         account' \in Accounts, crossed' \subseteq Columns,
         account'.sub = account.sub, account'.request = account.request,
         account'.session = account.session
  PROVE  BillingInv'
  <1>1. /\ call' \in [Calls -> CallStates] /\ call'[c].at = "idle"
        /\ \A d \in Calls \ {c} : call'[d] = call[d]
    BY EndsTyped DEF BillingTypeOK
  <1>2. BillingTypeOK' BY <1>1 DEF BillingTypeOK, stripeVars
  <1>3. Quietly BY <1>1 DEF Quietly, stripeVars
  <1> QED BY <1>2, <1>3, QuietKeepsKeys DEF BillingInv

LEMMA BreaksKeeps ==
  ASSUME BillingInv, NEW c \in Calls, Breaks(c)
  PROVE  BillingInv'
  <1>1. broken' \in Nat BY DEF Breaks, BillingInv, BillingTypeOK
  <1> QED BY <1>1, EndKeeps DEF Breaks, BillingInv, BillingTypeOK

LEMMA OverwritesTyped ==
  ASSUME BillingTypeOK, NEW columns \in SUBSET Columns, Overwrites(columns)
  PROVE  crossed' \subseteq Columns
  BY DEF Overwrites, BillingTypeOK

LEMMA MarkKeeps ==
  ASSUME BillingInv, NEW c \in Calls, Mark(c) \/ StoreCancellation(c)
  PROVE  BillingInv'
  <1>1. call[c].cancels \in BOOLEAN BY DEF BillingInv, BillingTypeOK, CallStates
  <1>2. account' = [account EXCEPT !.cancels = call[c].cancels]
    BY DEF Mark, StoreCancellation, Write
  <1>3. account' \in Accounts /\ account'.sub = account.sub
        /\ account'.request = account.request /\ account'.session = account.session
    BY <1>1, <1>2 DEF BillingInv, BillingTypeOK, Accounts
  <1>4. crossed' \subseteq Columns
    <2>1. CASE Mark(c)
      BY <2>1, OverwritesTyped DEF Mark, BillingInv, Columns
    <2>2. CASE StoreCancellation(c)
      BY <2>2 DEF StoreCancellation, BillingInv, BillingTypeOK
    <2> QED BY <2>1, <2>2
  <1>5. now' = now /\ broken' \in Nat /\ UNCHANGED stripeVars /\ Ends(c)
    BY DEF Mark, StoreCancellation, BillingInv, BillingTypeOK
  <1> QED BY <1>3, <1>4, <1>5, EndKeeps DEF BillingInv

LEMMA ActivateKeeps ==
  ASSUME BillingInv, NEW c \in Calls, Activate(c)
  PROVE  BillingInv'
  <1>1. call[c].until \in Int BY DEF BillingInv, BillingTypeOK, CallStates
  <1>2. account' = [account EXCEPT !.plan = TRUE, !.provider = "MANUAL",
                                   !.cancels = FALSE, !.access = call[c].until]
    BY DEF Activate, Write
  <1>3. account' \in Accounts /\ account'.sub = account.sub
        /\ account'.request = account.request /\ account'.session = account.session
    BY <1>1, <1>2 DEF BillingInv, BillingTypeOK, Accounts
  <1>4. crossed' \subseteq Columns BY OverwritesTyped DEF Activate, BillingInv, Columns
  <1> QED BY <1>3, <1>4, EndKeeps DEF Activate, BillingInv, BillingTypeOK

LEMMA ExtendKeeps ==
  ASSUME BillingInv, NEW c \in Calls, Extend(c)
  PROVE  BillingInv'
  <1>1. call[c].until \in Int BY DEF BillingInv, BillingTypeOK, CallStates
  <1>2. account' = [account EXCEPT !.access = call[c].until] BY DEF Extend, Write
  <1>3. account' \in Accounts /\ account'.sub = account.sub
        /\ account'.request = account.request /\ account'.session = account.session
    BY <1>1, <1>2 DEF BillingInv, BillingTypeOK, Accounts
  <1>4. crossed' \subseteq Columns BY OverwritesTyped DEF Extend, BillingInv, Columns
  <1> QED BY <1>3, <1>4, EndKeeps DEF Extend, BillingInv, BillingTypeOK

LEMMA AskKeeps ==
  ASSUME BillingInv, NEW c \in Calls, setCancellation(c)
  PROVE  BillingInv'
  <1> DEFINE k == account.sub
             what == [call[c] EXCEPT !.at = "asked", !.key = k]
  <1>1. CASE Ends(c) /\ UNCHANGED <<remote, events>>
    BY <1>1, EndKeeps DEF setCancellation, BillingInv, BillingTypeOK, stripeVars
  <1>2. CASE /\ k # NoKey /\ remote[k].status \in Live
             /\ remote' = [remote EXCEPT ![k].cancels = call[c].cancels]
             /\ Emit(k, Kept) /\ Does(c, what)
    <2>1. k \in Keys BY <1>2 DEF BillingInv, BillingTypeOK, Accounts
    <2>2. call[c] \in CallStates BY DEF BillingInv, BillingTypeOK
    <2>3. what \in CallStates /\ what.at = "asked" BY <2>1, <2>2 DEF CallStates
    <2>4. /\ remote' \in [Keys -> Remotes]
          /\ \A j \in Keys : remote'[j].status = remote[j].status
      BY <1>2, <2>1, <2>2 DEF BillingInv, BillingTypeOK, Remotes, CallStates
    <2>5. events' \subseteq Events /\ \A e \in events' : e \in events \/ e.of = k
      BY <1>2, <2>1, EmitTyped DEF BillingInv, BillingTypeOK, Kept
    <2> HIDE DEF what
    <2>6. /\ call' \in [Calls -> CallStates] /\ call'[c] = what
          /\ \A d \in Calls \ {c} : call'[d] = call[d]
      BY <1>2, <2>3, DoesTyped DEF BillingInv, BillingTypeOK
    <2>7. BillingTypeOK'
      BY <2>4, <2>5, <2>6 DEF setCancellation, BillingInv, BillingTypeOK
    <2>8. remote[k].status # "none" BY <1>2 DEF Live
    <2>9. Quietly
      <3> HIDE DEF k
      <3> QED BY <2>1, <2>3, <2>4, <2>5, <2>6, <2>8 DEF setCancellation, Quietly
    <2> QED BY <2>7, <2>9, QuietKeepsKeys DEF BillingInv
  <1> QED BY <1>1, <1>2 DEF setCancellation

(* Stripe moves a subscription it has, and says so.                        *)
LEMMA BecomesKeeps ==
  ASSUME BillingInv, NEW k \in Keys, NEW r \in Remotes, NEW invoice \in Int,
         Becomes(k, r, invoice), remote[k].status \in Live
  PROVE  BillingInv'
  <1>1. /\ remote' \in [Keys -> Remotes]
        /\ \A j \in Keys \ {k} : remote'[j] = remote[j]
    BY DEF Becomes, BillingInv, BillingTypeOK
  <1>2. events' \subseteq Events /\ \A e \in events' : e \in events \/ e.of = k
    BY EmitTyped DEF Becomes, BillingInv, BillingTypeOK
  <1>3. BillingTypeOK' BY <1>1, <1>2 DEF Becomes, BillingInv, BillingTypeOK
  <1>4. remote[k].status # "none" BY DEF Live
  <1>5. Quietly BY <1>1, <1>2, <1>4 DEF Becomes, Quietly
  <1> QED BY <1>3, <1>5, QuietKeepsKeys DEF BillingInv

LEMMA RemoteMovesKeep ==
  ASSUME BillingInv, NEW k \in Keys,
         \/ Renews(k) \/ PaysLate(k) \/ GoesUnpaid(k)
         \/ SubscriptionEnds(k) \/ DashboardCancels(k)
  PROVE  BillingInv'
  <1> DEFINE r == remote[k]
             longer == [r EXCEPT !.paidTo = r.paidTo + 1]
             late == [r EXCEPT !.status = "past_due"]
             again == [r EXCEPT !.status = "active", !.paidTo = r.paidTo + 1]
             unpaid == [r EXCEPT !.status = "unpaid"]
             over == [r EXCEPT !.status = "canceled", !.ended = now]
             told == [r EXCEPT !.cancels = ~r.cancels]
  <1>1. r \in Remotes BY DEF BillingInv, BillingTypeOK
  <1>2. /\ longer \in Remotes /\ late \in Remotes /\ again \in Remotes
        /\ unpaid \in Remotes /\ over \in Remotes /\ told \in Remotes
    <2>1. now \in Int BY DEF BillingInv, BillingTypeOK
    <2>2. r.paidTo + 1 \in Int BY <1>1 DEF Remotes
    <2> HIDE DEF r
    <2>3. longer \in Remotes BY <1>1, <2>2 DEF Remotes
    <2>4. late \in Remotes BY <1>1 DEF Remotes, Live
    <2>5. again \in Remotes BY <1>1, <2>2 DEF Remotes, Live
    <2>6. unpaid \in Remotes BY <1>1 DEF Remotes, Live
    <2>7. over \in Remotes BY <1>1, <2>1 DEF Remotes
    <2>8. (~r.cancels) \in BOOLEAN OBVIOUS
    <2>9. told \in Remotes BY <1>1, <2>8 DEF Remotes
    <2> HIDE DEF longer, late, again, unpaid, over, told
    <2> QED BY <2>3, <2>4, <2>5, <2>6, <2>7, <2>9
  <1>3. r.paidTo + 1 \in Int /\ Kept \in Int BY <1>1 DEF Remotes, Kept
  <1>4. CASE Renews(k)
    <2>1. r.status \in Live BY <1>4 DEF Renews, Live
    <2>2. Becomes(k, longer, r.paidTo + 1) \/ Becomes(k, late, Kept)
      BY <1>4 DEF Renews
    <2> HIDE DEF longer, late
    <2> QED BY <1>2, <1>3, <2>1, <2>2, BecomesKeeps
  <1>5. CASE PaysLate(k)
    <2>1. r.status \in Live BY <1>5 DEF PaysLate, Live
    <2>2. Becomes(k, again, r.paidTo + 1) BY <1>5 DEF PaysLate
    <2> HIDE DEF again
    <2> QED BY <1>2, <1>3, <2>1, <2>2, BecomesKeeps
  <1>6. CASE GoesUnpaid(k)
    <2>1. r.status \in Live /\ Becomes(k, unpaid, Kept) BY <1>6 DEF GoesUnpaid, Live
    <2> HIDE DEF unpaid
    <2> QED BY <1>2, <1>3, <2>1, BecomesKeeps
  <1>7. CASE SubscriptionEnds(k)
    <2>1. r.status \in Live /\ Becomes(k, over, Kept) BY <1>7 DEF SubscriptionEnds
    <2> HIDE DEF over
    <2> QED BY <1>2, <1>3, <2>1, BecomesKeeps
  <1>8. CASE DashboardCancels(k)
    <2>1. r.status \in Live /\ Becomes(k, told, Kept) BY <1>8 DEF DashboardCancels
    <2> HIDE DEF told
    <2> QED BY <1>2, <1>3, <2>1, BecomesKeeps
  <1> QED BY <1>4, <1>5, <1>6, <1>7, <1>8

LEMMA RestKeeps ==
  ASSUME BillingInv, MonthPasses \/ (\E e \in events : GivesUp(e))
                     \/ UNCHANGED billingVars
  PROVE  BillingInv'
  <1>1. events' \subseteq events /\ UNCHANGED <<account, session, remote, call, crossed>>
    BY DEF MonthPasses, GivesUp, billingVars, stripeVars
  <1>2. now' \in Int /\ broken' \in Nat
    BY DEF MonthPasses, GivesUp, billingVars, BillingInv, BillingTypeOK
  <1>3. BillingTypeOK' BY <1>1, <1>2 DEF BillingInv, BillingTypeOK
  <1>4. Quietly BY <1>1 DEF Quietly
  <1> QED BY <1>3, <1>4, QuietKeepsKeys DEF BillingInv

-----------------------------------------------------------------------------
(* The steps that move a key.                                              *)

(* A checkout comes only when no subscription is charged and no session    *)
(* may still be paid, but the one of the key it takes up again.            *)
LEMMA CheckoutFindsNone ==
  ASSUME BillingInv, NEW c \in Calls, checkout(c)
  PROVE  \E k \in Keys :
            /\ account' = [account EXCEPT !.sub = NoKey, !.request = k, !.session = NoKey]
            /\ Does(c, [NoCall EXCEPT !.at = "create", !.key = k])
            /\ k # account.request =>
                  /\ session[k] = "none"
                  /\ account.request = NoKey
                     \/ (account.request \in Keys /\ session[account.request]
                             \notin {"none", "created", "open"})
            /\ \A j \in Keys : remote[j].status \notin Live \/ k = j
  <1>1. PICK k \in RequestKeys :
            /\ Write([account EXCEPT !.sub = NoKey, !.request = k, !.session = NoKey])
            /\ Does(c, [NoCall EXCEPT !.at = "create", !.key = k])
    BY DEF checkout
  <1>2. account.request \in Keys \cup {NoKey} /\ NoKey \notin Keys
    BY DEF BillingInv, BillingTypeOK, Accounts, Keys, NoKey
  <1>3. CASE account.session = NoKey /\ account.request # NoKey
    <2>1. k = account.request BY <1>1, <1>3 DEF RequestKeys
    <2> QED BY <1>1, <1>2, <1>3, <2>1 DEF Write, BillingInv, KeyInv, PaidIsRequested
  <1>4. CASE ~(account.session = NoKey /\ account.request # NoKey)
    <2>1. k \in Keys /\ session[k] = "none"
      BY <1>1, <1>4 DEF RequestKeys, Lowest, Unused
    <2>2. account.request = NoKey \/
          (account.request \in Keys /\ account.session = account.request
           /\ session[account.request] \in {"complete", "expired"})
      BY <1>2, <1>4 DEF checkout, SessionIs, BillingInv, KeyInv, SessionIsRequested
    <2>3. ASSUME NEW j \in Keys, remote[j].status \in Live
          PROVE  FALSE
      <3>1. j = account.request /\ session[j] = "complete"
        BY <2>3 DEF BillingInv, KeyInv, PaidIsRequested, Live
      <3>2. account.session = j /\ account.session # NoKey BY <1>2, <2>2, <3>1
      <3>3. EndedAtStripe BY <3>1, <3>2 DEF checkout, Unconfirmed, SessionIs
      <3>4. account.sub = j
        BY <3>1, <3>3 DEF EndedAtStripe, BillingInv, KeyInv, SubIsRequested
      <3> QED BY <2>3, <3>3, <3>4 DEF EndedAtStripe, Live
    <2> QED BY <1>1, <2>1, <2>2, <2>3 DEF Write
  <1> QED BY <1>3, <1>4

LEMMA CheckoutKeeps ==
  ASSUME BillingInv, NEW c \in Calls, checkout(c)
  PROVE  BillingInv'
  <1>1. PICK k \in Keys :
            /\ account' = [account EXCEPT !.sub = NoKey, !.request = k, !.session = NoKey]
            /\ Does(c, [NoCall EXCEPT !.at = "create", !.key = k])
            /\ k # account.request =>
                  /\ session[k] = "none"
                  /\ account.request = NoKey
                     \/ (account.request \in Keys /\ session[account.request]
                             \notin {"none", "created", "open"})
            /\ \A j \in Keys : remote[j].status \notin Live \/ k = j
    BY CheckoutFindsNone
  <1>2. /\ account'.sub = NoKey /\ account'.request = k /\ account'.session = NoKey
    BY <1>1 DEF BillingInv, BillingTypeOK, Accounts
  <1>3. UNCHANGED <<session, remote, events>> BY DEF checkout, stripeVars
  <1> DEFINE what == [NoCall EXCEPT !.at = "create", !.key = k]
  <1>4. what \in CallStates /\ what.at = "create" /\ what.key = k
    BY NoCallTyped DEF CallStates
  <1> HIDE DEF what
  <1>5. call'[c] = what /\ \A d \in Calls \ {c} : call'[d] = call[d]
    BY <1>1, <1>4, DoesTyped DEF what, BillingInv, BillingTypeOK
  <1>6. NoKey \notin Keys BY DEF Keys, NoKey
  <1>7. SessionIsRequested' /\ SubIsRequested'
    BY <1>2 DEF SessionIsRequested, SubIsRequested
  <1>8. OpenIsRequested'
    BY <1>1, <1>2, <1>3, <1>6 DEF BillingInv, KeyInv, OpenIsRequested
  <1>9. KeysAreHeld'
    BY <1>1, <1>2, <1>3, <1>4, <1>5, <1>6 DEF BillingInv, KeyInv, KeysAreHeld
  <1>10. PaidIsRequested'
    BY <1>1, <1>2, <1>3 DEF BillingInv, KeyInv, PaidIsRequested
  <1>11. EventsArePaid' BY <1>3 DEF BillingInv, KeyInv, EventsArePaid
  <1>12. FetchedIsRequested'
    BY <1>4, <1>5 DEF checkout, lockOwner, Locked, FetchedIsRequested
  <1>13. BillingTypeOK' BY CheckoutTyped DEF BillingInv
  <1> QED BY <1>7, <1>8, <1>9, <1>10, <1>11, <1>12, <1>13 DEF BillingInv, KeyInv

LEMMA CreateKeeps ==
  ASSUME BillingInv, NEW c \in Calls, CreateSession(c)
  PROVE  BillingInv'
  <1> DEFINE k == call[c].key
             what == [call[c] EXCEPT !.at = "store"]
  <1>1. /\ k \in Keys
        /\ session[k] = "none" => k = account.request
    BY DEF CreateSession, BillingInv, KeyInv, KeysAreHeld
  <1>2. /\ session' \in [Keys -> Sessions] /\ session'[k] # "none"
        /\ session[k] # "none" => session' = session
        /\ session[k] = "none" => session'[k] = "created"
        /\ \A j \in Keys \ {k} : session'[j] = session[j]
    BY <1>1 DEF CreateSession, BillingInv, BillingTypeOK, Sessions
  <1>3. what \in CallStates /\ what.at = "store" /\ what.key = k
    BY DEF BillingInv, BillingTypeOK, CallStates
  <1>4. Does(c, what) BY DEF CreateSession, Goes
  <1> HIDE DEF what
  <1>5. call'[c] = what /\ \A d \in Calls \ {c} : call'[d] = call[d]
    BY <1>3, <1>4, DoesTyped DEF BillingInv, BillingTypeOK
  <1>6. UNCHANGED <<account, remote, events>> BY DEF CreateSession
  <1>7. session[k] = "none" => account.sub = NoKey
    BY <1>1 DEF BillingInv, KeyInv, SubIsRequested
  <1> HIDE DEF k
  <1>8. account.session # NoKey => account.session \in Keys
        /\ session[account.session] # "none"
    BY DEF BillingInv, KeyInv, SessionIsRequested, BillingTypeOK, Accounts
  <1>9. SessionIsRequested'
    BY <1>2, <1>6, <1>8 DEF BillingInv, KeyInv, SessionIsRequested
  <1>10. OpenIsRequested'
    BY <1>1, <1>2, <1>6, <1>7 DEF BillingInv, KeyInv, OpenIsRequested
  <1>11. account.sub # NoKey => account.sub \in Keys
    BY DEF BillingInv, BillingTypeOK, Accounts
  <1>12. SubIsRequested'
    BY <1>2, <1>6, <1>11 DEF BillingInv, KeyInv, SubIsRequested
  <1>13. KeysAreHeld'
    BY <1>1, <1>2, <1>3, <1>5, <1>6 DEF BillingInv, KeyInv, KeysAreHeld
  <1>14. PaidIsRequested'
    BY <1>2, <1>6 DEF BillingInv, KeyInv, PaidIsRequested
  <1>15. EventsArePaid' BY <1>2, <1>6 DEF BillingInv, KeyInv, EventsArePaid
  <1>16. FetchedIsRequested'
    BY <1>2, <1>3, <1>5, <1>6 DEF BillingInv, KeyInv, FetchedIsRequested
  <1>17. BillingTypeOK' BY CreateTyped DEF BillingInv
  <1> QED BY <1>9, <1>10, <1>12, <1>13, <1>14, <1>15, <1>16, <1>17
          DEF BillingInv, KeyInv

LEMMA StoreKeeps ==
  ASSUME BillingInv, NEW c \in Calls, StoreSession(c)
  PROVE  BillingInv'
  <1> DEFINE k == call[c].key
  <1>1. k \in Keys /\ session[k] # "none"
    BY DEF StoreSession, BillingInv, KeyInv, KeysAreHeld
  <1>2. /\ session' \in [Keys -> Sessions]
        /\ session[k] = "created" => session'[k] = "open"
        /\ session[k] # "created" => session'[k] = session[k]
        /\ \A j \in Keys \ {k} : session'[j] = session[j]
    BY <1>1 DEF StoreSession, BillingInv, BillingTypeOK, Sessions
  <1>3. /\ account'.sub = account.sub /\ account'.request = account.request
        /\ \/ account'.session = account.session
           \/ account'.session = k /\ account.request = k
    BY DEF StoreSession, Write, BillingInv, BillingTypeOK, Accounts
  <1>4. call'[c].at = "idle" /\ \A d \in Calls \ {c} : call'[d] = call[d]
    BY EndsTyped DEF StoreSession, BillingInv, BillingTypeOK
  <1>5. UNCHANGED <<remote, events>> BY DEF StoreSession
  <1>6. session[k] \in Sessions BY <1>1 DEF BillingInv, BillingTypeOK
  <1>7. account.session # NoKey => account.session \in Keys
    BY DEF BillingInv, BillingTypeOK, Accounts
  <1>8. account.sub # NoKey => account.sub \in Keys
    BY DEF BillingInv, BillingTypeOK, Accounts
  <1> HIDE DEF k
  <1>9. SessionIsRequested'
    BY <1>1, <1>2, <1>3, <1>6, <1>7 DEF BillingInv, KeyInv, SessionIsRequested, Sessions
  <1>10. OpenIsRequested'
    BY <1>1, <1>2, <1>3, <1>6 DEF BillingInv, KeyInv, OpenIsRequested
  <1>11. SubIsRequested'
    BY <1>1, <1>2, <1>3, <1>8 DEF BillingInv, KeyInv, SubIsRequested
  <1>12. KeysAreHeld'
    BY <1>1, <1>2, <1>3, <1>4 DEF BillingInv, KeyInv, KeysAreHeld
  <1>13. PaidIsRequested'
    BY <1>1, <1>2, <1>3, <1>5 DEF BillingInv, KeyInv, PaidIsRequested
  <1>14. EventsArePaid'
    BY <1>1, <1>2, <1>5 DEF BillingInv, KeyInv, EventsArePaid
  <1>15. FetchedIsRequested'
    BY <1>1, <1>2, <1>3, <1>4 DEF BillingInv, KeyInv, FetchedIsRequested
  <1>16. BillingTypeOK' BY StoreTyped DEF BillingInv
  <1> QED BY <1>9, <1>10, <1>11, <1>12, <1>13, <1>14, <1>15, <1>16
          DEF BillingInv, KeyInv

(* Under the lock a webhook keeps only what is the account's.              *)
LEMMA FetchKeeps ==
  ASSUME BillingInv, NEW c \in Calls, LockAndFetch(c)
  PROVE  BillingInv'
  <1>1. /\ BillingTypeOK'
        /\ \A d \in Calls \ {c} : call'[d] = call[d]
        /\ \/ call'[c].at = "idle"
           \/ /\ call[c].event \in events /\ Ours(call[c].event.of)
              /\ call'[c].at = "fetched" /\ call'[c].event = call[c].event
    BY FetchTyped DEF BillingInv, KeyInv
  <1>2. UNCHANGED <<account, session, remote, events>>
    BY DEF LockAndFetch, stripeVars
  <1>3. CASE call'[c].at = "idle"
    <2>1. Quietly BY <1>1, <1>2, <1>3 DEF Quietly
    <2> QED BY <1>1, <2>1, QuietKeepsKeys DEF BillingInv
  <1>4. CASE /\ call[c].event \in events /\ Ours(call[c].event.of)
             /\ call'[c].at = "fetched" /\ call'[c].event = call[c].event
    <2>1. /\ call[c].event.of \in Keys /\ session[call[c].event.of] = "complete"
          /\ call[c].event.of = account.request
      BY <1>4 DEF BillingInv, KeyInv, EventsArePaid, Ours, SubIsRequested
    <2>2. FetchedIsRequested'
      BY <1>1, <1>2, <1>4, <2>1 DEF BillingInv, KeyInv, FetchedIsRequested
    <2>3. KeysAreHeld'
      BY <1>1, <1>2, <1>4 DEF BillingInv, KeyInv, KeysAreHeld
    <2>4. SessionIsRequested' /\ OpenIsRequested' /\ SubIsRequested'
          /\ PaidIsRequested' /\ EventsArePaid'
      BY <1>2 DEF BillingInv, KeyInv, SessionIsRequested, OpenIsRequested,
                  SubIsRequested, PaidIsRequested, EventsArePaid
    <2> QED BY <1>1, <2>2, <2>3, <2>4 DEF BillingInv, KeyInv
  <1> QED BY <1>1, <1>3, <1>4

LEMMA CommitKeeps ==
  ASSUME BillingInv, NEW c \in Calls, Commit(c)
  PROVE  BillingInv'
  <1> DEFINE k == call[c].event.of
  <1>1. k \in Keys /\ k = account.request /\ session[k] = "complete"
    BY DEF Commit, BillingInv, KeyInv, FetchedIsRequested
  <1>2. /\ BillingTypeOK'
        /\ account'.sub = k /\ account'.request = account.request
        /\ account'.session = account.session
        /\ call'[c].at = "idle" /\ \A d \in Calls \ {c} : call'[d] = call[d]
    BY CommitTyped DEF BillingInv
  <1>3. session' = session /\ remote' = remote /\ events' \subseteq events
    BY DEF Commit, Unreceipted
  <1> HIDE DEF k
  <1>4. SessionIsRequested' /\ SubIsRequested'
    BY <1>1, <1>2, <1>3 DEF BillingInv, KeyInv, SessionIsRequested, SubIsRequested
  <1>5. OpenIsRequested'
    BY <1>1, <1>2, <1>3 DEF BillingInv, KeyInv, OpenIsRequested
  <1>6. KeysAreHeld' BY <1>2, <1>3 DEF BillingInv, KeyInv, KeysAreHeld
  <1>7. PaidIsRequested' BY <1>2, <1>3 DEF BillingInv, KeyInv, PaidIsRequested
  <1>8. EventsArePaid' BY <1>3 DEF BillingInv, KeyInv, EventsArePaid
  <1>9. FetchedIsRequested' BY <1>2, <1>3 DEF BillingInv, KeyInv, FetchedIsRequested
  <1> QED BY <1>2, <1>4, <1>5, <1>6, <1>7, <1>8, <1>9 DEF BillingInv, KeyInv

LEMMA PayKeeps ==
  ASSUME BillingInv, NEW k \in Keys, Pay(k)
  PROVE  BillingInv'
  <1> DEFINE r == [status |-> "active", cancels |-> FALSE, paidTo |-> now + 1,
                   ended |-> 1]
  <1>1. k = account.request /\ account.sub = NoKey /\ session[k] = "open"
    BY DEF Pay, BillingInv, KeyInv, OpenIsRequested
  <1>2. r \in Remotes BY MonthsTyped DEF BillingInv, Remotes, Live
  <1>3. /\ session' \in [Keys -> Sessions] /\ session'[k] = "complete"
        /\ \A j \in Keys \ {k} : session'[j] = session[j]
    BY DEF Pay, BillingInv, BillingTypeOK, Sessions
  <1>4. remote' = [remote EXCEPT ![k] = r] BY DEF Pay
  <1> HIDE DEF r
  <1>5. /\ remote' \in [Keys -> Remotes]
        /\ \A j \in Keys \ {k} : remote'[j] = remote[j]
    BY <1>2, <1>4 DEF BillingInv, BillingTypeOK
  <1>6. PICK invoice \in {Kept, now + 1} : Emit(k, invoice) BY DEF Pay
  <1>7. invoice \in Int BY <1>6, MonthsTyped DEF BillingInv, Kept
  <1>8. events' \subseteq Events /\ \A e \in events' : e \in events \/ e.of = k
    BY <1>6, <1>7, EmitTyped DEF BillingInv, BillingTypeOK
  <1>9. UNCHANGED <<now, broken, account, call, crossed>> BY DEF Pay
  <1>10. BillingTypeOK'
    BY <1>3, <1>5, <1>8, <1>9 DEF BillingInv, BillingTypeOK
  <1>11. account.session # NoKey => account.session = k
    BY <1>1 DEF BillingInv, KeyInv, SessionIsRequested
  <1>12. SessionIsRequested' /\ SubIsRequested'
    BY <1>1, <1>3, <1>9, <1>11 DEF BillingInv, KeyInv, SessionIsRequested, SubIsRequested
  <1>13. OpenIsRequested'
    BY <1>1, <1>3, <1>9 DEF BillingInv, KeyInv, OpenIsRequested
  <1>14. KeysAreHeld' BY <1>1, <1>3, <1>9 DEF BillingInv, KeyInv, KeysAreHeld
  <1>15. PaidIsRequested'
    BY <1>1, <1>3, <1>5, <1>9 DEF BillingInv, KeyInv, PaidIsRequested
  <1>16. EventsArePaid' BY <1>3, <1>8 DEF BillingInv, KeyInv, EventsArePaid
  <1>17. FetchedIsRequested'
    BY <1>3, <1>9 DEF BillingInv, KeyInv, FetchedIsRequested
  <1> QED BY <1>10, <1>12, <1>13, <1>14, <1>15, <1>16, <1>17 DEF BillingInv, KeyInv

LEMMA ExpiryKeeps ==
  ASSUME BillingInv, NEW k \in Keys, SessionExpires(k)
  PROVE  BillingInv'
  <1>1. /\ session' \in [Keys -> Sessions] /\ session'[k] = "expired"
        /\ session[k] \in {"created", "open"}
        /\ \A j \in Keys \ {k} : session'[j] = session[j]
    BY DEF SessionExpires, BillingInv, BillingTypeOK, Sessions
  <1>2. UNCHANGED <<now, broken, account, remote, events, call, crossed>>
    BY DEF SessionExpires
  <1>3. BillingTypeOK' BY <1>1, <1>2 DEF BillingInv, BillingTypeOK
  <1>4. account.session # NoKey => account.session \in Keys
    BY DEF BillingInv, BillingTypeOK, Accounts
  <1>5. account.sub # NoKey => account.sub \in Keys
    BY DEF BillingInv, BillingTypeOK, Accounts
  <1>6. SessionIsRequested'
    BY <1>1, <1>2, <1>4 DEF BillingInv, KeyInv, SessionIsRequested
  <1>7. SubIsRequested' BY <1>1, <1>2, <1>5 DEF BillingInv, KeyInv, SubIsRequested
  <1>8. OpenIsRequested' BY <1>1, <1>2 DEF BillingInv, KeyInv, OpenIsRequested
  <1>9. KeysAreHeld' BY <1>1, <1>2 DEF BillingInv, KeyInv, KeysAreHeld
  <1>10. PaidIsRequested' BY <1>1, <1>2 DEF BillingInv, KeyInv, PaidIsRequested
  <1>11. EventsArePaid' BY <1>1, <1>2 DEF BillingInv, KeyInv, EventsArePaid
  <1>12. FetchedIsRequested' BY <1>1, <1>2 DEF BillingInv, KeyInv, FetchedIsRequested
  <1> QED BY <1>3, <1>6, <1>7, <1>8, <1>9, <1>10, <1>11, <1>12 DEF BillingInv, KeyInv

-----------------------------------------------------------------------------
LEMMA BillingInitially == ASSUME BillingInit PROVE BillingInv
  <1>1. BillingTypeOK
    <2>1. account \in Accounts BY DEF BillingInit, Accounts
    <2>2. session \in [Keys -> Sessions] BY DEF BillingInit, Sessions
    <2>3. NoRemote \in Remotes BY DEF NoRemote, Remotes
    <2>4. remote \in [Keys -> Remotes] BY <2>3 DEF BillingInit
    <2>5. call \in [Calls -> CallStates] BY NoCallTyped DEF BillingInit
    <2> QED BY <2>1, <2>2, <2>4, <2>5 DEF BillingInit, BillingTypeOK
  <1>2. \A k \in Keys : remote[k].status = "none" BY DEF BillingInit, NoRemote
  <1>3. \A c \in Calls : call[c].at = "idle" BY DEF BillingInit, NoCall
  <1>4. KeyInv
    BY <1>2, <1>3 DEF BillingInit, KeyInv, SessionIsRequested, OpenIsRequested,
       SubIsRequested, KeysAreHeld, PaidIsRequested, EventsArePaid,
       FetchedIsRequested, Live
  <1> QED BY <1>1, <1>4 DEF BillingInv

LEMMA BillingStep == ASSUME BillingInv, [BillingNext]_billingVars PROVE BillingInv'
  <1>1. CASE \E c \in Calls : CallStarts(c)
    BY <1>1, CheckoutKeeps, GrantKeeps, DecideKeeps DEF CallStarts
  <1>2. CASE \E c \in Calls : CallGoesOn(c)
    BY <1>2, CreateKeeps, StoreKeeps, FetchKeeps, CommitKeeps, MarkKeeps, AskKeeps,
       ActivateKeeps, ExtendKeeps DEF CallGoesOn
  <1>3. CASE \E c \in Calls : Breaks(c) \/ \E e \in events : webhook(c, e)
    BY <1>3, BreaksKeeps, ReceiveKeeps
  <1>4. CASE StripeMoves
    BY <1>4, PayKeeps, ExpiryKeeps, RemoteMovesKeep, RestKeeps DEF StripeMoves
  <1>5. CASE MonthPasses \/ UNCHANGED billingVars BY <1>5, RestKeeps
  <1> QED BY <1>1, <1>2, <1>3, <1>4, <1>5 DEF BillingNext

(* The keys of the account, its session, its subscription, the calls in    *)
(* progress and Stripe stay consistent, for any number of calls.           *)
LEMMA BillingInvariant == BillingSpec => []BillingInv
  <1>1. BillingInit => BillingInv BY BillingInitially
  <1>2. BillingInv /\ [BillingNext]_billingVars => BillingInv' BY BillingStep
  <1> QED BY <1>1, <1>2, PTL DEF BillingSpec

(* The types of the billing state: rows, sessions, subscriptions, events   *)
(* and calls of checkout, webhook and the administrator are what they are. *)
THEOREM BillingTypeCorrect == BillingSpec => []BillingTypeOK
  <1>1. BillingInv => BillingTypeOK BY DEF BillingInv
  <1> QED BY <1>1, BillingInvariant, PTL

(* "One subscription per owner account": the only subscription Stripe      *)
(* charges is the one of the account, whatever calls of checkout and       *)
(* webhook overlap, fail or are repeated.                                  *)
THEOREM BillingOneLive == BillingSpec => []OneLiveSubscription
  <1>1. BillingInv => OneLiveSubscription
    BY DEF BillingInv, KeyInv, PaidIsRequested, SubIsRequested,
           OneLiveSubscription, Ours
  <1> QED BY <1>1, BillingInvariant, PTL

-----------------------------------------------------------------------------
(***************************************************************************)
(* What the account is told of its subscription, and given.                *)
(***************************************************************************)

(* The lock is held by one call; months count from one.                    *)
Exclusive ==
    /\ \A c, d \in Calls :
          call[c].at \in {"fetched", "asked"} /\ call[d].at \in {"fetched", "asked"}
             => c = d
    /\ now >= 1
    /\ \A k \in Keys : remote[k].paidTo >= 1

(* Something about the subscription is still on its way.                   *)
OnItsWay(k, E) == \E e \in E : e.of = k

(* A cancellation the row does not show is on its way; a webhook that      *)
(* fetched before it will not acknowledge it.                              *)
CancelShown ==
    \A k \in Keys : account.sub = k /\ "cancels" \notin crossed =>
        account.cancels = remote[k].cancels \/ OnItsWay(k, events)

CancelKnown(done) ==
    \/ done.cancels = remote[done.event.of].cancels
    \/ OnItsWay(done.event.of, events \ {done.event})

CancelFetched ==
    \A c \in Calls : call[c].at = "fetched" => CancelKnown(call[c])

CancelAsked ==
    \A c \in Calls : call[c].at = "asked" =>
        /\ call[c].key \in Keys /\ account.sub = call[c].key
        /\ OnItsWay(call[c].key, events)

(* An event whose fetch sees the last period that was paid.                *)
Told(k, E) ==
    \E e \in E : e.of = k /\ (e.invoice = Kept \/ e.invoice >= remote[k].paidTo)

(* The last period paid is given, or an event that tells of it remains; a  *)
(* webhook that read too early acknowledges another event than that one.   *)
Given(k) == "access" \in crossed \/ account.access >= remote[k].paidTo

PaidShown ==
    \A k \in Keys : remote[k].status = "active" =>
        Told(k, events) \/ (account.sub = k /\ Given(k))

PaidKnown(done) ==
    remote[done.event.of].status = "active" =>
        \/ Told(done.event.of, events \ {done.event})
        \/ /\ done.activates
           /\ done.until >= remote[done.event.of].paidTo \/ "access" \in crossed
        \/ ~done.activates /\ done.until = Kept /\ Given(done.event.of)

PaidFetched == \A c \in Calls : call[c].at = "fetched" => PaidKnown(call[c])

TellInv ==
    /\ Exclusive /\ CancelShown /\ CancelFetched /\ CancelAsked
    /\ PaidShown /\ PaidFetched

AccountInv == BillingInv /\ TellInv

-----------------------------------------------------------------------------
(* A step that stores nothing of Stripe's, and hears nothing of it.        *)
Apart ==
    /\ account'.sub = account.sub
    /\ crossed \subseteq crossed'
    /\ "cancels" \in crossed' \/ account'.cancels = account.cancels
    /\ "access" \in crossed' \/ account'.access = account.access
    /\ remote' = remote /\ events' = events /\ now' >= 1
    /\ \A c \in Calls : \/ call'[c] = call[c]
                         \/ call'[c].at \notin {"fetched", "asked"}

(* Such a step keeps the second invariant.                                 *)
LEMMA ApartKeepsTold ==
  ASSUME TellInv, Apart
  PROVE  TellInv'
  <1>1. Exclusive'
    BY DEF TellInv, Apart, Exclusive
  <1>2. CancelShown' BY DEF TellInv, Apart, CancelShown, OnItsWay
  <1>3. CancelFetched'
    <2> SUFFICES ASSUME NEW c \in Calls, call'[c].at = "fetched"
                 PROVE  CancelKnown(call[c])' BY DEF CancelFetched
    <2>1. call'[c] = call[c] BY DEF Apart
    <2> QED BY <2>1 DEF TellInv, Apart, CancelFetched, CancelKnown, OnItsWay
  <1>4. CancelAsked' BY DEF TellInv, Apart, CancelAsked, OnItsWay
  <1>5. PaidShown' BY DEF TellInv, Apart, PaidShown, Told, Given
  <1>6. PaidFetched'
    <2> SUFFICES ASSUME NEW c \in Calls, call'[c].at = "fetched"
                 PROVE  PaidKnown(call[c])' BY DEF PaidFetched
    <2>1. call'[c] = call[c] BY DEF Apart
    <2> QED BY <2>1 DEF TellInv, Apart, PaidFetched, PaidKnown, Given, Told
  <1> QED BY <1>1, <1>2, <1>3, <1>4, <1>5, <1>6 DEF TellInv

(* Stripe changes a subscription and emits an event that tells of it.      *)
TellsOf(k, new) ==
    /\ new.of = k /\ new \in events' /\ events \subseteq events'
    /\ \A c \in Calls : call[c].event # new
    /\ \A j \in Keys \ {k} : remote'[j] = remote[j]
    /\ remote'[k].paidTo >= 1
    /\ remote'[k].status = "active" =>
           \/ remote[k].status = "active" /\ remote'[k].paidTo = remote[k].paidTo
           \/ new.invoice = Kept \/ new.invoice >= remote'[k].paidTo
    /\ UNCHANGED <<now, account, crossed>>

(* The event Stripe emits is one no call has received.                     *)
LEMMA EmitIsNew ==
  ASSUME NEW k \in Keys, NEW invoice \in Int, Emit(k, invoice)
  PROVE  \E new \in [id : Nat, of : {k}, invoice : {invoice}] :
            /\ new \in events' /\ events \subseteq events'
            /\ \A c \in Calls : call[c].event # new
  <1>1. PICK i \in Lowest(EventIds \ InUse) :
            events' = events \cup {[id |-> i, of |-> k, invoice |-> invoice]}
    BY DEF Emit
  <1> DEFINE new == [id |-> i, of |-> k, invoice |-> invoice]
  <1>2. i \in Nat /\ i \notin InUse BY <1>1, Bounds DEF Lowest, EventIds
  <1>3. \A c \in Calls : call[c].event.id # i BY <1>2 DEF InUse
  <1>4. new.id = i OBVIOUS
  <1>5. new \in [id : Nat, of : {k}, invoice : {invoice}] BY <1>2
  <1>6. new \in events' /\ events \subseteq events' BY <1>1
  <1> HIDE DEF new
  <1> QED BY <1>3, <1>4, <1>5, <1>6

LEMMA TellsKeeps ==
  ASSUME BillingInv, TellInv, NEW k \in Keys, NEW new, TellsOf(k, new),
         \A c \in Calls : call'[c] = call[c] \/ call'[c].at # "fetched"
  PROVE  CancelShown' /\ CancelFetched' /\ PaidShown' /\ PaidFetched'
  <1>1. CancelShown'
    <2> SUFFICES ASSUME NEW j \in Keys, account'.sub = j, "cancels" \notin crossed'
                 PROVE  (account.cancels = remote[j].cancels \/ OnItsWay(j, events))'
      BY DEF CancelShown
    <2>1. CASE j = k BY <2>1 DEF TellsOf, OnItsWay
    <2>2. CASE j # k BY <2>2 DEF TellsOf, OnItsWay, TellInv, CancelShown
    <2> QED BY <2>1, <2>2
  <1>2. ASSUME NEW c \in Calls, call'[c].at = "fetched"
        PROVE  call'[c] = call[c] /\ call[c].at = "fetched" /\ call[c].event.of \in Keys
               /\ call[c].event # new
    BY <1>2 DEF BillingInv, KeyInv, FetchedIsRequested, TellsOf
  <1>3. CancelFetched'
    <2> SUFFICES ASSUME NEW c \in Calls, call'[c].at = "fetched"
                 PROVE  CancelKnown(call[c])' BY DEF CancelFetched
    <2>1. CancelKnown(call[c]) /\ call'[c] = call[c]
      BY <1>2 DEF TellInv, CancelFetched
    <2>2. CASE call[c].event.of = k
      BY <1>2, <2>1, <2>2 DEF CancelKnown, TellsOf, OnItsWay
    <2>3. CASE call[c].event.of # k
      BY <1>2, <2>1, <2>3 DEF CancelKnown, TellsOf, OnItsWay
    <2> QED BY <2>2, <2>3
  <1>4. PaidShown'
    <2> SUFFICES ASSUME NEW j \in Keys, remote'[j].status = "active"
                 PROVE  (Told(j, events) \/ (account.sub = j /\ Given(j)))'
      BY DEF PaidShown
    <2>1. CASE j = k /\ ~(remote[k].status = "active" /\ remote'[k].paidTo = remote[k].paidTo)
      BY <2>1 DEF TellsOf, Told
    <2>2. CASE remote[j].status = "active" /\ remote'[j].paidTo = remote[j].paidTo
      BY <2>2 DEF TellInv, PaidShown, Given, TellsOf, Told
    <2> QED BY <2>1, <2>2 DEF TellsOf
  <1>5. PaidFetched'
    <2> SUFFICES ASSUME NEW c \in Calls, call'[c].at = "fetched",
                        (remote[call[c].event.of].status = "active")'
                 PROVE  PaidKnown(call[c])' BY DEF PaidFetched, PaidKnown
    <2> DEFINE j == call[c].event.of
    <2>1. PaidKnown(call[c]) /\ call'[c] = call[c] /\ j \in Keys /\ call[c].event # new
      BY <1>2 DEF TellInv, PaidFetched
    <2>2. CASE j = k /\ ~(remote[k].status = "active" /\ remote'[k].paidTo = remote[k].paidTo)
      BY <2>1, <2>2 DEF TellsOf, Told, PaidKnown
    <2>3. CASE remote[j].status = "active" /\ remote'[j].paidTo = remote[j].paidTo
      BY <2>1, <2>3 DEF PaidKnown, Given, TellsOf, Told
    <2> QED BY <2>1, <2>2, <2>3 DEF TellsOf
  <1> QED BY <1>1, <1>3, <1>4, <1>5

(* A payment, a renewal, an end or a change at the dashboard keeps it.     *)
LEMMA StripeTellsKeeps ==
  ASSUME AccountInv, NEW k \in Keys, NEW invoice \in Int, Emit(k, invoice),
         \A j \in Keys \ {k} : remote'[j] = remote[j],
         remote'[k].paidTo >= 1,
         remote'[k].status = "active" =>
             \/ remote[k].status = "active" /\ remote'[k].paidTo = remote[k].paidTo
             \/ invoice = Kept \/ invoice >= remote'[k].paidTo,
         UNCHANGED <<now, account, crossed, call>>
  PROVE  TellInv'
  <1>1. PICK new \in [id : Nat, of : {k}, invoice : {invoice}] :
            /\ new \in events' /\ events \subseteq events'
            /\ \A c \in Calls : call[c].event # new
    BY EmitIsNew
  <1>2. TellsOf(k, new) BY <1>1 DEF TellsOf
  <1>3. CancelShown' /\ CancelFetched' /\ PaidShown' /\ PaidFetched'
    BY <1>2, TellsKeeps DEF AccountInv
  <1>4. CancelAsked' BY <1>1 DEF AccountInv, TellInv, CancelAsked, OnItsWay
  <1>5. Exclusive' BY DEF AccountInv, TellInv, Exclusive
  <1> QED BY <1>3, <1>4, <1>5 DEF TellInv

LEMMA BecomesTells ==
  ASSUME AccountInv, NEW k \in Keys, NEW r \in Remotes, NEW invoice \in Int,
         Becomes(k, r, invoice),  r.paidTo >= 1,
         r.status = "active" =>
             \/ remote[k].status = "active" /\ r.paidTo = remote[k].paidTo
             \/ invoice = Kept \/ invoice >= r.paidTo
  PROVE  TellInv'
  <1>1. remote'[k] = r /\ \A j \in Keys \ {k} : remote'[j] = remote[j]
    BY DEF Becomes, AccountInv, BillingInv, BillingTypeOK
  <1> QED BY <1>1, StripeTellsKeeps DEF Becomes

LEMMA RemoteMovesTell ==
  ASSUME AccountInv, NEW k \in Keys,
         \/ Renews(k) \/ PaysLate(k) \/ GoesUnpaid(k)
         \/ SubscriptionEnds(k) \/ DashboardCancels(k)
  PROVE  TellInv'
  <1> DEFINE r == remote[k]
             longer == [r EXCEPT !.paidTo = r.paidTo + 1]
             late == [r EXCEPT !.status = "past_due"]
             again == [r EXCEPT !.status = "active", !.paidTo = r.paidTo + 1]
             unpaid == [r EXCEPT !.status = "unpaid"]
             over == [r EXCEPT !.status = "canceled", !.ended = now]
             told == [r EXCEPT !.cancels = ~r.cancels]
  <1>1. r \in Remotes /\ now \in Int BY DEF AccountInv, BillingInv, BillingTypeOK
  <1>2. r.paidTo \in Int /\ r.paidTo >= 1 /\ Kept \in Int
    BY <1>1 DEF AccountInv, TellInv, Exclusive, Remotes, Kept
  <1> HIDE DEF r
  <1>3. longer \in Remotes /\ longer.paidTo = r.paidTo + 1
    BY <1>1, <1>2 DEF Remotes
  <1>4. late \in Remotes /\ late.paidTo = r.paidTo /\ late.status # "active"
    BY <1>1 DEF Remotes, Live
  <1>5. again \in Remotes /\ again.paidTo = r.paidTo + 1
    <2>1. r.paidTo + 1 \in Int BY <1>2
    <2> QED BY <1>1, <2>1 DEF Remotes, Live
  <1>6. unpaid \in Remotes /\ unpaid.paidTo = r.paidTo /\ unpaid.status # "active"
    BY <1>1 DEF Remotes, Live
  <1>7. over \in Remotes /\ over.paidTo = r.paidTo /\ over.status # "active"
    BY <1>1 DEF Remotes
  <1>8. told \in Remotes /\ told.paidTo = r.paidTo /\ told.status = r.status
    <2>1. (~r.cancels) \in BOOLEAN OBVIOUS
    <2> QED BY <1>1, <2>1 DEF Remotes
  <1>9. \/ Becomes(k, longer, r.paidTo + 1) \/ Becomes(k, late, Kept)
        \/ Becomes(k, again, r.paidTo + 1) \/ Becomes(k, unpaid, Kept)
        \/ Becomes(k, over, Kept) \/ Becomes(k, told, Kept)
    BY DEF Renews, PaysLate, GoesUnpaid, SubscriptionEnds, DashboardCancels, r
  <1> HIDE DEF longer, late, again, unpaid, over, told
  <1>10. r.paidTo + 1 \in Int /\ r.paidTo + 1 >= 1 BY <1>2
  <1> QED BY <1>2, <1>3, <1>4, <1>5, <1>6, <1>7, <1>8, <1>9, <1>10, BecomesTells

LEMMA PayTells ==
  ASSUME AccountInv, NEW k \in Keys, Pay(k)
  PROVE  TellInv'
  <1> DEFINE r == [status |-> "active", cancels |-> FALSE, paidTo |-> now + 1,
                   ended |-> 1]
  <1>1. now + 1 \in Int /\ now + 1 >= 1 /\ Kept \in Int
    BY DEF AccountInv, BillingInv, BillingTypeOK, TellInv, Exclusive, Kept
  <1>2. remote' = [remote EXCEPT ![k] = r] BY DEF Pay
  <1>3. r.paidTo = now + 1 OBVIOUS
  <1> HIDE DEF r
  <1>4. remote'[k] = r /\ \A j \in Keys \ {k} : remote'[j] = remote[j]
    BY <1>2 DEF AccountInv, BillingInv, BillingTypeOK
  <1>5. PICK invoice \in {Kept, now + 1} : Emit(k, invoice) BY DEF Pay
  <1>6. UNCHANGED <<now, account, crossed, call>> BY DEF Pay
  <1> QED BY <1>1, <1>3, <1>4, <1>5, <1>6, StripeTellsKeeps

-----------------------------------------------------------------------------
(* The calls.                                                              *)

LEMMA EndsApart ==
  ASSUME AccountInv, NEW c \in Calls, Ends(c), UNCHANGED <<remote, events>>,
         now' >= 1, account'.sub = account.sub, crossed \subseteq crossed',
         "cancels" \in crossed' \/ account'.cancels = account.cancels,
         "access" \in crossed' \/ account'.access = account.access
  PROVE  TellInv'
  <1>1. call'[c].at = "idle" /\ \A d \in Calls \ {c} : call'[d] = call[d]
    BY EndsTyped DEF AccountInv, BillingInv, BillingTypeOK
  <1>2. Apart BY <1>1 DEF Apart
  <1> QED BY <1>2, ApartKeepsTold DEF AccountInv

LEMMA DoesApart ==
  ASSUME AccountInv, NEW c \in Calls, NEW what \in CallStates, Does(c, what),
         what.at \notin {"fetched", "asked"}, UNCHANGED <<remote, events, crossed>>,
         now' = now, account'.sub = account.sub,
         account'.cancels = account.cancels, account'.access = account.access
  PROVE  TellInv'
  <1>1. call'[c] = what /\ \A d \in Calls \ {c} : call'[d] = call[d]
    BY DoesTyped DEF AccountInv, BillingInv, BillingTypeOK
  <1>2. Apart BY <1>1 DEF Apart, AccountInv, TellInv, Exclusive
  <1> QED BY <1>2, ApartKeepsTold DEF AccountInv

(* A late write by hand is remembered by crossed.                          *)
LEMMA HandTells ==
  ASSUME AccountInv, NEW c \in Calls, Mark(c) \/ Activate(c) \/ Extend(c)
  PROVE  TellInv'
  <1>1. account \in Accounts BY DEF AccountInv, BillingInv, BillingTypeOK
  <1>2. now' >= 1
    BY DEF Mark, Activate, Extend, AccountInv, TellInv, Exclusive
  <1>3. Ends(c) /\ UNCHANGED <<remote, events>>
    BY DEF Mark, Activate, Extend, stripeVars
  <1>4. account'.sub = account.sub
    BY <1>1 DEF Mark, Activate, Extend, Write, Accounts
  <1>5. /\ crossed \subseteq crossed'
        /\ "cancels" \in crossed' \/ account'.cancels = account.cancels
        /\ "access" \in crossed' \/ account'.access = account.access
    BY <1>1 DEF Mark, Activate, Extend, Write, Overwrites, Accounts
  <1> QED BY <1>2, <1>3, <1>4, <1>5, EndsApart

LEMMA LooksTell ==
  ASSUME AccountInv, NEW c \in Calls,
         \/ activateManually(c) \/ extendTrial(c) \/ (\E cancels \in BOOLEAN : Decide(c, cancels))
         \/ (\E e \in events : webhook(c, e)) \/ CreateSession(c)
  PROVE  TellInv'
  <1>1. /\ now' = now /\ UNCHANGED <<account, remote, events, crossed>>
    BY DEF activateManually, extendTrial, Decide, webhook, CreateSession, stripeVars
  <1>2. now \in Int /\ account.access \in Int /\ now + 1 \in Int /\ account.access + 1 \in Int
    BY MonthsTyped DEF AccountInv, BillingInv
  <1>3. \A e \in events : e \in Events BY DEF AccountInv, BillingInv, BillingTypeOK
  <1>4. PICK what : /\ Does(c, what) /\ what \in CallStates
                    /\ what.at \notin {"fetched", "asked"}
    <2>1. CASE activateManually(c)
      <3>1. PICK until \in Int :
                Does(c, [NoCall EXCEPT !.at = "activate", !.until = until])
        BY <1>2, <2>1 DEF activateManually
      <3> DEFINE what == [NoCall EXCEPT !.at = "activate", !.until = until]
      <3>2. Does(c, what) /\ what \in CallStates /\ what.at \notin {"fetched", "asked"}
        BY <3>1, NoCallTyped DEF CallStates
      <3> HIDE DEF what
      <3> QED BY <3>2
    <2>2. CASE extendTrial(c)
      <3>1. PICK until \in Int :
                Does(c, [NoCall EXCEPT !.at = "extend", !.until = until])
        BY <1>2, <2>2 DEF extendTrial
      <3> DEFINE what == [NoCall EXCEPT !.at = "extend", !.until = until]
      <3>2. Does(c, what) /\ what \in CallStates /\ what.at \notin {"fetched", "asked"}
        BY <3>1, NoCallTyped DEF CallStates
      <3> HIDE DEF what
      <3> QED BY <3>2
    <2>3. CASE \E cancels \in BOOLEAN : Decide(c, cancels)
      <3>1. PICK cancels \in BOOLEAN, at \in {"ask", "mark"} :
                Does(c, [NoCall EXCEPT !.cancels = cancels, !.at = at])
        BY <2>3 DEF Decide
      <3> DEFINE what == [NoCall EXCEPT !.cancels = cancels, !.at = at]
      <3>2. Does(c, what) /\ what \in CallStates /\ what.at \notin {"fetched", "asked"}
        BY <3>1, NoCallTyped DEF CallStates
      <3> HIDE DEF what
      <3> QED BY <3>2
    <2>4. CASE \E e \in events : webhook(c, e)
      <3>1. PICK e \in Events :
                Does(c, [NoCall EXCEPT !.at = "received", !.event = e])
        BY <1>3, <2>4 DEF webhook
      <3> DEFINE what == [NoCall EXCEPT !.at = "received", !.event = e]
      <3>2. Does(c, what) /\ what \in CallStates /\ what.at \notin {"fetched", "asked"}
        BY <3>1, NoCallTyped DEF CallStates
      <3> HIDE DEF what
      <3> QED BY <3>2
    <2>5. CASE CreateSession(c)
      <3>1. Does(c, [call[c] EXCEPT !.at = "store"])
        BY <2>5 DEF CreateSession, Goes
      <3>2. call[c] \in CallStates BY DEF AccountInv, BillingInv, BillingTypeOK
      <3> DEFINE what == [call[c] EXCEPT !.at = "store"]
      <3>3. what \in CallStates /\ what.at \notin {"fetched", "asked"}
        BY <3>2 DEF CallStates
      <3> HIDE DEF what
      <3> QED BY <3>1, <3>3 DEF what
    <2> QED BY <2>1, <2>2, <2>3, <2>4, <2>5
  <1> QED BY <1>1, <1>4, DoesApart

LEMMA StoreTells ==
  ASSUME AccountInv, NEW c \in Calls, StoreSession(c) \/ Breaks(c)
  PROVE  TellInv'
  <1>1. account'.sub = account.sub /\ account'.cancels = account.cancels
        /\ account'.access = account.access
    BY DEF StoreSession, Breaks, Write, AccountInv, BillingInv, BillingTypeOK, Accounts
  <1>2. Ends(c) /\ UNCHANGED <<remote, events, crossed>> /\ now' = now
    BY DEF StoreSession, Breaks, stripeVars
  <1>3. now' >= 1 BY <1>2 DEF AccountInv, TellInv, Exclusive
  <1> QED BY <1>1, <1>2, <1>3, EndsApart

LEMMA RestTells ==
  ASSUME AccountInv, MonthPasses \/ (\E k \in Keys : SessionExpires(k))
                     \/ UNCHANGED billingVars
  PROVE  TellInv'
  <1>1. now' >= 1
    BY DEF MonthPasses, SessionExpires, billingVars, AccountInv, BillingInv,
           BillingTypeOK, TellInv, Exclusive
  <1>2. UNCHANGED <<account, remote, events, call, crossed>>
    BY DEF MonthPasses, SessionExpires, billingVars, stripeVars
  <1>3. Apart BY <1>1, <1>2 DEF Apart
  <1> QED BY <1>3, ApartKeepsTold DEF AccountInv

(* A new checkout drops a subscription that is over, and finds no webhook  *)
(* under way that could bring it back.                                     *)
LEMMA CheckoutTells ==
  ASSUME AccountInv, NEW c \in Calls, checkout(c)
  PROVE  TellInv'
  <1>1. PICK k \in Keys :
            /\ account' = [account EXCEPT !.sub = NoKey, !.request = k, !.session = NoKey]
            /\ Does(c, [NoCall EXCEPT !.at = "create", !.key = k])
    BY CheckoutFindsNone DEF AccountInv
  <1>2. account'.sub = NoKey
    BY <1>1 DEF AccountInv, BillingInv, BillingTypeOK, Accounts
  <1>3. UNCHANGED <<now, remote, events, crossed>> BY DEF checkout, stripeVars
  <1>4. [NoCall EXCEPT !.at = "create", !.key = k] \in CallStates
    BY NoCallTyped DEF CallStates
  <1>5. call' = [call EXCEPT ![c] = [NoCall EXCEPT !.at = "create", !.key = k]]
    BY <1>1 DEF Does
  <1>6. \A d \in Calls : call'[d].at \notin {"fetched", "asked"}
    BY <1>5, NoCallTyped DEF checkout, lockOwner, Locked, CallStates,
       AccountInv, BillingInv, BillingTypeOK
  <1>7. NoKey \notin Keys BY DEF Keys, NoKey
  <1>8. Exclusive' /\ CancelFetched' /\ CancelAsked' /\ PaidFetched'
    BY <1>3, <1>6 DEF Exclusive, CancelFetched, CancelAsked, PaidFetched,
       AccountInv, TellInv
  <1>9. CancelShown' BY <1>2, <1>7 DEF CancelShown
  <1>10. PaidShown'
    <2>1. ASSUME NEW j \in Keys, remote[j].status = "active"
          PROVE  account.sub # j
      <3>1. account.sub # NoKey => remote[account.sub].status = "canceled"
        BY DEF checkout, MayPay, EndedAtStripe
      <3> QED BY <1>7, <2>1, <3>1
    <2> QED BY <1>3, <2>1 DEF AccountInv, TellInv, PaidShown, Told
  <1> QED BY <1>8, <1>9, <1>10 DEF TellInv

(* Under the lock a webhook reads what Stripe has now: what it stores later*)
(* is right, unless another event, still on its way, tells otherwise.      *)
LEMMA FetchTells ==
  ASSUME AccountInv, NEW c \in Calls, LockAndFetch(c)
  PROVE  TellInv'
  <1> DEFINE e == call[c].event
             k == e.of
             r == remote[e.of]
             buys == PaidTo(e) > account.access /\ r.status \in {"active", "past_due"}
             end == IF r.status = "canceled" THEN r.ended ELSE now
             ends == r.status \in {"canceled", "unpaid"}
             until == IF buys THEN PaidTo(e)
                      ELSE IF ~ends THEN Kept
                      ELSE IF end < account.access THEN end
                      ELSE account.access
             what == [call[c] EXCEPT !.at = "fetched", !.cancels = r.cancels,
                                     !.activates = buys, !.until = until]
  <1>1. UNCHANGED <<now, account, remote, events, crossed>> /\ ~Locked
    BY DEF LockAndFetch, stripeVars, lockOwner
  <1>2. CASE e \notin events \/ ~Ours(e.of)
    <2>1. Ends(c) BY <1>2 DEF LockAndFetch
    <2> HIDE DEF e, k
    <2>2. now' >= 1 BY <1>1 DEF AccountInv, TellInv, Exclusive
    <2> QED BY <1>1, <2>1, <2>2, EndsApart
  <1>3. CASE e \in events /\ Ours(e.of)
    <2>1. Does(c, what) BY <1>3 DEF LockAndFetch
    <2>2. call' = [call EXCEPT ![c] = what] BY <2>1 DEF Does
    <2>3. call[c] \in CallStates /\ k \in Keys /\ r \in Remotes /\ e \in Events
          /\ account.access \in Int
      BY <1>3 DEF AccountInv, BillingInv, KeyInv, EventsArePaid, BillingTypeOK, Accounts
    <2>4. /\ what.at = "fetched" /\ what.event = e /\ what.cancels = r.cancels
          /\ what.activates = buys /\ what.until = until
      BY <2>3 DEF CallStates
    <2> HIDE DEF what
    <2>5. /\ call'[c] = what
          /\ \A d \in Calls \ {c} :
                call'[d] = call[d] /\ call'[d].at \notin {"fetched", "asked"}
      BY <1>1, <2>2 DEF AccountInv, BillingInv, BillingTypeOK, Locked
    <2>6. Exclusive' BY <1>1, <2>5 DEF AccountInv, TellInv, Exclusive
    <2>7. CancelShown' BY <1>1 DEF AccountInv, TellInv, CancelShown, OnItsWay
    <2>8. CancelAsked' BY <2>4, <2>5 DEF CancelAsked
    <2>9. PaidShown' BY <1>1 DEF AccountInv, TellInv, PaidShown, Told, Given
    <2>10. CancelFetched'
      <3> SUFFICES CancelKnown(call[c])' BY <2>5 DEF CancelFetched
      <3> QED BY <1>1, <2>4, <2>5 DEF CancelKnown
    <2>11. PaidKnown(what)
      <3> SUFFICES ASSUME r.status = "active", ~Told(k, events \ {e})
                   PROVE  \/ /\ buys
                             /\ until >= r.paidTo \/ "access" \in crossed
                          \/ ~buys /\ until = Kept /\ Given(k)
        BY <2>4 DEF PaidKnown
      <3>1. r.paidTo \in Int /\ e.invoice \in Int BY <2>3 DEF Remotes, Events
      <3>2. PaidTo(e) = IF e.invoice # Kept THEN e.invoice ELSE r.paidTo BY DEF PaidTo
      <3>3. CASE e.invoice = Kept \/ e.invoice >= r.paidTo
        <4>1. PaidTo(e) >= r.paidTo /\ PaidTo(e) \in Int BY <3>1, <3>2, <3>3
        <4>2. CASE buys BY <4>1, <4>2
        <4>3. CASE ~buys
          <5>1. until = Kept BY <4>3
          <5>2. account.access >= r.paidTo BY <2>3, <3>1, <4>1, <4>3
          <5> QED BY <4>3, <5>1, <5>2 DEF Given
        <4> QED BY <4>2, <4>3
      <3>4. CASE ~(e.invoice = Kept \/ e.invoice >= r.paidTo)
        <4>1. ~Told(k, events) BY <3>4 DEF Told
        <4>2. Given(k) BY <2>3, <4>1 DEF AccountInv, TellInv, PaidShown
        <4>3. PaidTo(e) \in Int /\ PaidTo(e) < r.paidTo BY <3>1, <3>2, <3>4
        <4>4. CASE buys BY <2>3, <3>1, <4>2, <4>3, <4>4 DEF Given
        <4>5. CASE ~buys
          <5>1. until = Kept BY <4>5
          <5> QED BY <4>2, <4>5, <5>1
        <4> QED BY <4>4, <4>5
      <3> QED BY <3>3, <3>4
    <2>12. PaidFetched'
      <3> SUFFICES PaidKnown(call[c])' BY <2>5 DEF PaidFetched
      <3> QED BY <1>1, <2>5, <2>11 DEF PaidKnown, Told, Given
    <2> QED BY <2>6, <2>7, <2>8, <2>9, <2>10, <2>12 DEF TellInv
  <1> QED BY <1>2, <1>3

(* The row and the receipt are stored together: what the acknowledged event*)
(* told is in the row, or another event tells it.                          *)
LEMMA CommitTells ==
  ASSUME AccountInv, NEW c \in Calls, Commit(c)
  PROVE  TellInv'
  <1> DEFINE done == call[c]
             k == done.event.of
             row == [account EXCEPT !.sub = done.event.of, !.cancels = done.cancels,
                                    !.access = Access(done.until)]
  <1>1. k \in Keys /\ k = account.request /\ done \in CallStates /\ done.at = "fetched"
    BY DEF Commit, AccountInv, BillingInv, KeyInv, FetchedIsRequested, BillingTypeOK
  <1>2. account \in Accounts /\ remote[k] \in Remotes
    BY <1>1 DEF AccountInv, BillingInv, BillingTypeOK
  <1>3. row.sub = k /\ row.cancels = done.cancels /\ row.access = Access(done.until)
    BY <1>2 DEF Accounts
  <1>4. /\ account'.sub = k /\ account'.cancels = done.cancels
        /\ account'.access = Access(done.until)
    <2>1. row \in [sub : {k}, request : {row.request}, session : {row.session},
                   plan : {row.plan}, provider : {row.provider},
                   cancels : {done.cancels}, access : {Access(done.until)}]
      BY <1>2 DEF Accounts
    <2>2. account' = row \/ account' = [row EXCEPT !.plan = TRUE, !.provider = "STRIPE"]
      BY DEF Commit, Write
    <2> HIDE DEF row, k, done
    <2> QED BY <1>3, <2>1, <2>2
  <1>5. /\ events' = events \ {done.event} /\ UNCHANGED <<now, remote>>
        /\ crossed' = crossed \ Refreshed(done)
    BY DEF Commit, Unreceipted
  <1>6. call'[c].at = "idle" /\ \A d \in Calls \ {c} : call'[d] = call[d]
    BY EndsTyped DEF Commit, AccountInv, BillingInv, BillingTypeOK
  <1>7. \A d \in Calls : call'[d].at \notin {"fetched", "asked"}
    BY <1>1, <1>6 DEF AccountInv, TellInv, Exclusive
  <1>8. Exclusive' BY <1>5, <1>7 DEF AccountInv, TellInv, Exclusive
  <1>9. CancelFetched' /\ CancelAsked' /\ PaidFetched'
    BY <1>7 DEF CancelFetched, CancelAsked, PaidFetched
  <1>10. CancelKnown(done) /\ PaidKnown(done)
    BY <1>1 DEF AccountInv, TellInv, CancelFetched, PaidFetched
  <1>11. CancelShown'
    BY <1>4, <1>5, <1>10 DEF CancelKnown, CancelShown, OnItsWay
  <1>12. PaidShown'
    <2> SUFFICES ASSUME NEW j \in Keys, remote[j].status = "active"
                 PROVE  (Told(j, events) \/ (account.sub = j /\ Given(j)))'
      BY <1>5 DEF PaidShown
    <2>1. j = k
      BY <1>1 DEF AccountInv, BillingInv, KeyInv, PaidIsRequested, Live
    <2>2. remote[k].paidTo \in Int /\ remote[k].paidTo >= 1 /\ done.until \in Int
          /\ account.access \in Int
      BY <1>1, <1>2 DEF Remotes, CallStates, Accounts, AccountInv, TellInv, Exclusive
    <2> HIDE DEF done, k
    <2>3. CASE Told(k, events \ {done.event})
      BY <1>5, <2>1, <2>3 DEF Told
    <2>4. CASE done.activates /\ done.until >= remote[k].paidTo
      <3>1. account'.access >= remote[k].paidTo
        BY <1>4, <2>2, <2>4 DEF Access, Kept
      <3> QED BY <1>4, <1>5, <2>1, <3>1 DEF Given
    <2>5. CASE ~(done.until >= remote[k].paidTo) /\ "access" \in crossed
      <3>1. "access" \in crossed' BY <1>5, <2>5 DEF Refreshed, k
      <3> QED BY <1>4, <2>1, <3>1 DEF Given
    <2>6. CASE ~done.activates /\ done.until = Kept /\ Given(k)
      <3>1. account'.access = account.access BY <1>4, <2>6 DEF Access
      <3>2. "access" \in crossed => "access" \in crossed' BY <1>5, <2>6 DEF Refreshed
      <3> QED BY <1>4, <1>5, <2>1, <2>6, <3>1, <3>2 DEF Given
    <2> QED BY <1>10, <2>1, <2>3, <2>4, <2>5, <2>6 DEF PaidKnown, k
  <1> QED BY <1>8, <1>9, <1>11, <1>12 DEF TellInv

(* Stripe is told of a cancellation under the lock, and emits an event.    *)
LEMMA AskTells ==
  ASSUME AccountInv, NEW c \in Calls, setCancellation(c)
  PROVE  TellInv'
  <1> DEFINE k == account.sub
             what == [call[c] EXCEPT !.at = "asked", !.key = k]
  <1>1. UNCHANGED <<now, account, crossed>> /\ ~Locked
    BY DEF setCancellation, lockOwner
  <1>2. CASE Ends(c) /\ UNCHANGED <<remote, events>>
    <2>1. now' >= 1 BY <1>1 DEF AccountInv, TellInv, Exclusive
    <2> QED BY <1>1, <1>2, <2>1, EndsApart
  <1>3. CASE /\ k # NoKey
             /\ remote' = [remote EXCEPT ![k].cancels = call[c].cancels]
             /\ Emit(k, Kept) /\ Does(c, what)
    <2>1. k \in Keys BY <1>3 DEF AccountInv, BillingInv, BillingTypeOK, Accounts
    <2>2. call[c] \in CallStates /\ remote[k] \in Remotes /\ Kept \in Int
      BY <2>1 DEF AccountInv, BillingInv, BillingTypeOK, Kept
    <2>3. what.at = "asked" /\ what.key = k BY <2>2 DEF CallStates
    <2>4. call' = [call EXCEPT ![c] = what] BY <1>3 DEF Does
    <2> HIDE DEF what
    <2>5. /\ call'[c] = what
          /\ \A d \in Calls \ {c} :
                call'[d] = call[d] /\ call'[d].at \notin {"fetched", "asked"}
      BY <1>1, <2>4 DEF AccountInv, BillingInv, BillingTypeOK, Locked
    <2>6. /\ \A j \in Keys \ {k} : remote'[j] = remote[j]
          /\ remote'[k].status = remote[k].status
          /\ remote'[k].paidTo = remote[k].paidTo
      BY <1>3, <2>1, <2>2 DEF AccountInv, BillingInv, BillingTypeOK, Remotes
    <2> HIDE DEF k
    <2>7. PICK new \in [id : Nat, of : {k}, invoice : {Kept}] :
              /\ new \in events' /\ events \subseteq events'
              /\ \A d \in Calls : call[d].event # new
      BY <1>3, <2>1, <2>2, EmitIsNew
    <2>8. remote'[k].paidTo >= 1 BY <2>1, <2>6 DEF AccountInv, TellInv, Exclusive
    <2>9. TellsOf(k, new) BY <1>1, <2>6, <2>7, <2>8 DEF TellsOf
    <2>10. CancelShown' /\ CancelFetched' /\ PaidShown' /\ PaidFetched'
      BY <2>1, <2>3, <2>5, <2>9, TellsKeeps DEF AccountInv
    <2>11. CancelAsked'
      BY <1>1, <2>1, <2>3, <2>5, <2>7 DEF CancelAsked, OnItsWay, k
    <2>12. Exclusive'
      <3>1. \A j \in Keys : remote'[j].paidTo >= 1
        BY <2>6, <2>8 DEF AccountInv, TellInv, Exclusive
      <3> QED BY <1>1, <2>5, <3>1 DEF AccountInv, TellInv, Exclusive
    <2> QED BY <2>10, <2>11, <2>12 DEF TellInv
  <1> QED BY <1>2, <1>3 DEF setCancellation

(* What Stripe answered is stored while the event of it is on its way.     *)
LEMMA AnswerTells ==
  ASSUME AccountInv, NEW c \in Calls, StoreCancellation(c)
  PROVE  TellInv'
  <1>1. /\ account'.sub = account.sub /\ account'.access = account.access
        /\ UNCHANGED <<now, remote, events>> /\ crossed' = crossed \ {"cancels"}
    BY DEF StoreCancellation, stripeVars, Write, AccountInv, BillingInv,
           BillingTypeOK, Accounts
  <1>2. call[c].at = "asked" /\ account.sub \in Keys /\ OnItsWay(account.sub, events)
    BY DEF StoreCancellation, AccountInv, TellInv, CancelAsked
  <1>3. call'[c].at = "idle" /\ \A d \in Calls \ {c} : call'[d] = call[d]
    BY EndsTyped DEF StoreCancellation, AccountInv, BillingInv, BillingTypeOK
  <1>4. \A d \in Calls : call'[d].at \notin {"fetched", "asked"}
    BY <1>2, <1>3 DEF AccountInv, TellInv, Exclusive
  <1>5. Exclusive' BY <1>1, <1>4 DEF AccountInv, TellInv, Exclusive
  <1>6. CancelFetched' /\ CancelAsked' /\ PaidFetched'
    BY <1>4 DEF CancelFetched, CancelAsked, PaidFetched
  <1>7. CancelShown' BY <1>1, <1>2 DEF CancelShown, OnItsWay
  <1>8. PaidShown' BY <1>1 DEF AccountInv, TellInv, PaidShown, Told, Given
  <1> QED BY <1>5, <1>6, <1>7, <1>8 DEF TellInv

(* Stripe gives up only what tells of a subscription that is over, and is  *)
(* not the account's.                                                      *)
LEMMA GivesUpTells ==
  ASSUME AccountInv, NEW e \in events, GivesUp(e)
  PROVE  TellInv'
  <1>1. /\ events' = events \ {e} /\ remote[e.of].status = "canceled"
        /\ UNCHANGED <<now, account, remote, call, crossed>>
    BY DEF GivesUp
  <1>2. account.sub # e.of /\ (account.sub = NoKey => account.request # e.of)
    BY DEF GivesUp, Ours, AccountInv, BillingInv, KeyInv, EventsArePaid, Keys, NoKey
  <1>3. e.of # account.request
    BY <1>2 DEF AccountInv, BillingInv, KeyInv, SubIsRequested
  <1>4. ASSUME NEW c \in Calls, call[c].at = "fetched"
        PROVE  call[c].event.of # e.of
    BY <1>3, <1>4 DEF AccountInv, BillingInv, KeyInv, FetchedIsRequested
  <1>5. CancelShown' BY <1>1, <1>2 DEF AccountInv, TellInv, CancelShown, OnItsWay
  <1>6. CancelAsked' BY <1>1, <1>2 DEF AccountInv, TellInv, CancelAsked, OnItsWay
  <1>7. CancelFetched'
    <2> SUFFICES ASSUME NEW c \in Calls, call'[c].at = "fetched"
                 PROVE  CancelKnown(call[c])' BY DEF CancelFetched
    <2>1. CancelKnown(call[c]) /\ call[c].event.of # e.of
      BY <1>1, <1>4 DEF AccountInv, TellInv, CancelFetched
    <2> QED BY <1>1, <2>1 DEF CancelKnown, OnItsWay
  <1>8. PaidShown' BY <1>1 DEF AccountInv, TellInv, PaidShown, Told, Given
  <1>9. PaidFetched'
    <2> SUFFICES ASSUME NEW c \in Calls, call'[c].at = "fetched"
                 PROVE  PaidKnown(call[c])' BY DEF PaidFetched
    <2>1. PaidKnown(call[c]) /\ call[c].event.of # e.of
      BY <1>1, <1>4 DEF AccountInv, TellInv, PaidFetched
    <2> QED BY <1>1, <2>1 DEF PaidKnown, Told, Given
  <1>10. Exclusive' BY <1>1 DEF AccountInv, TellInv, Exclusive
  <1> QED BY <1>5, <1>6, <1>7, <1>8, <1>9, <1>10 DEF TellInv

-----------------------------------------------------------------------------
LEMMA TellsInitially == ASSUME BillingInit PROVE TellInv
  <1>1. \A k \in Keys : remote[k] = NoRemote BY DEF BillingInit
  <1>2. \A c \in Calls : call[c].at = "idle" BY DEF BillingInit, NoCall
  <1>3. account.sub = NoKey /\ NoKey \notin Keys BY DEF BillingInit, Keys, NoKey
  <1>4. Exclusive BY <1>1, <1>2 DEF BillingInit, Exclusive, NoRemote
  <1>5. CancelShown BY <1>3 DEF CancelShown
  <1>6. PaidShown BY <1>1 DEF PaidShown, NoRemote
  <1>7. CancelFetched /\ CancelAsked /\ PaidFetched
    BY <1>2 DEF CancelFetched, CancelAsked, PaidFetched
  <1> QED BY <1>4, <1>5, <1>6, <1>7 DEF TellInv

LEMMA TellStep == ASSUME AccountInv, [BillingNext]_billingVars PROVE TellInv'
  <1>1. CASE \E c \in Calls : CallStarts(c)
    BY <1>1, CheckoutTells, LooksTell DEF CallStarts
  <1>2. CASE \E c \in Calls : CallGoesOn(c)
    BY <1>2, LooksTell, StoreTells, FetchTells, CommitTells, HandTells, AskTells,
       AnswerTells DEF CallGoesOn
  <1>3. CASE \E c \in Calls : Breaks(c) \/ \E e \in events : webhook(c, e)
    BY <1>3, StoreTells, LooksTell
  <1>4. CASE StripeMoves
    BY <1>4, PayTells, RestTells, RemoteMovesTell, GivesUpTells DEF StripeMoves
  <1>5. CASE MonthPasses \/ UNCHANGED billingVars BY <1>5, RestTells
  <1> QED BY <1>1, <1>2, <1>3, <1>4, <1>5 DEF BillingNext

LEMMA AccountInvariant == BillingSpec => []AccountInv
  <1>1. BillingInit => AccountInv BY BillingInitially, TellsInitially DEF AccountInv
  <1>2. AccountInv /\ [BillingNext]_billingVars => AccountInv'
    <2> SUFFICES ASSUME AccountInv, [BillingNext]_billingVars PROVE AccountInv'
      OBVIOUS
    <2>1. BillingInv' BY BillingStep DEF AccountInv
    <2> QED BY <2>1, TellStep DEF AccountInv
  <1> QED BY <1>1, <1>2, PTL DEF BillingSpec

(* What the owner is told about her cancellation is what Stripe will do,   *)
(* once every event of her subscription was acknowledged by webhook and no *)
(* call without the lock wrote since; for any number of calls, keys,       *)
(* months and events, and wherever calls of setCancellation end.           *)
THEOREM BillingCancellationFollows == BillingSpec => []CancellationFollowsStripe
  <1>1. AccountInv => CancellationFollowsStripe
    BY DEF AccountInv, TellInv, CancelShown, OnItsWay, Settled,
           CancellationFollowsStripe
  <1> QED BY <1>1, AccountInvariant, PTL

(* A payment is never forgotten: when webhook has acknowledged the events  *)
(* of a subscription that is paid, the account has it, with access to the  *)
(* end of the last period paid unless a payment or a trial extension by    *)
(* hand wrote over it.                                                     *)
THEOREM BillingPaidTimeIsGiven == BillingSpec => []PaidTimeIsGiven
  <1>1. AccountInv => PaidTimeIsGiven
    BY DEF AccountInv, TellInv, PaidShown, Told, Given, PaidTimeIsGiven
  <1> QED BY <1>1, AccountInvariant, PTL
=============================================================================
