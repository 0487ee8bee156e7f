------------------------------ MODULE Dispatch ------------------------------
(***************************************************************************)
(* Sending the orders of a store to a courier, beside the review of        *)
(* duplicate orders:                                                       *)
(*   src/ecommerce/ecommerce.service.ts         dispatchOrder              *)
(*   src/customers/duplicate-orders.service.ts  cancel, keepGroup          *)
(*   src/shipping/forcelog-shipment.service.ts  deletion of a parcel       *)
(*                                                                         *)
(* A dispatch checks the order, claims it in a transaction under the       *)
(* store's duplicate-review lock, calls the courier outside any            *)
(* transaction, and confirms or fails the claim.  The courier's answer may *)
(* be lost after it accepted the parcel, and the process may die anywhere. *)
(* The orders are duplicates of each other: one customer, one product, one *)
(* window.                                                                 *)
(***************************************************************************)
EXTENDS Integers, FiniteSets

CONSTANTS
    Orders,     \* orders of the store
    Manual,     \* those entered in Zomaal; a platform owns the others
    Attempts,   \* dispatch requests in progress at a time
    MaxClaims   \* bound on the claims of an order

ASSUME DispatchAssumption ==
    /\ Orders # {} /\ Manual \subseteq Orders
    /\ MaxClaims \in Nat

VARIABLES
    cancelled,  \* orders whose status is CANCELLED
    review,     \* DuplicateOrderReview.decision
    dispatch,   \* EcommerceOrderDispatch.status
    linked,     \* orders whose parcel is stored as a shipment
    attempt,    \* what each dispatch request is doing
    claims,     \* number of claims of an order (history)
    parcels,    \* parcels the courier has for an order
    died        \* orders whose request died past its claim (history)

dispatchVars == <<cancelled, review, dispatch, linked, attempt, claims,
                  parcels, died>>

Decisions == {"none", "KEPT", "CANCELLED"}
DispatchStatus == {"none", "PENDING", "DISPATCHED", "FAILED", "CANCELLED"}
Idle == [stage |-> "idle", order |-> CHOOSE o \in Orders : TRUE]

InFlight(a) == attempt[a].stage \in {"claimed", "accepted", "failed"}
Go(a, stage) == attempt' = [attempt EXCEPT ![a].stage = stage]
Stop(a) == attempt' = [attempt EXCEPT ![a] = Idle]

DispatchInit ==
    /\ cancelled = {}
    /\ review = [o \in Orders |-> "none"]
    /\ dispatch = [o \in Orders |-> "none"]
    /\ linked = {}
    /\ attempt = [a \in Attempts |-> Idle]
    /\ claims = [o \in Orders |-> 0]
    /\ parcels = [o \in Orders |-> 0]
    /\ died = {}

-----------------------------------------------------------------------------
(* The checks before the claim; a request they refuse changes nothing.     *)
CheckOrder(a, o) ==
    /\ attempt[a].stage = "idle"
    /\ review[o] # "CANCELLED" /\ o \notin cancelled
    /\ dispatch[o] \in {"none", "FAILED"}
    /\ attempt' = [attempt EXCEPT ![a] = [stage |-> "checked", order |-> o]]
    /\ UNCHANGED <<cancelled, review, dispatch, linked, claims, parcels, died>>

(* A plausible slip: a claim left behind by another request is taken over. *)
ClaimPending(o) ==
    /\ review[o] # "CANCELLED" /\ o \notin cancelled
    /\ dispatch[o] \in {"none", "FAILED", "PENDING"}

(* What the claiming transaction checks again under the lock.              *)
Claimable(o) ==
    /\ review[o] # "CANCELLED" /\ o \notin cancelled
    /\ dispatch[o] \in {"none", "FAILED"}

Claim(a) ==
    LET o == attempt[a].order
    IN  /\ attempt[a].stage = "checked" /\ claims[o] < MaxClaims
        /\ IF Claimable(o)
           THEN /\ dispatch' = [dispatch EXCEPT ![o] = "PENDING"]
                /\ claims' = [claims EXCEPT ![o] = @ + 1]
                /\ Go(a, "claimed")
           ELSE /\ Stop(a)
                /\ UNCHANGED <<dispatch, claims>>
        /\ UNCHANGED <<cancelled, review, linked, parcels, died>>

-----------------------------------------------------------------------------
(* The courier accepts the parcel, and the shipment is stored with it.     *)
CourierAccepts(a) ==
    LET o == attempt[a].order
    IN  /\ attempt[a].stage = "claimed"
        /\ parcels' = [parcels EXCEPT ![o] = @ + 1]
        /\ linked' = linked \cup {o}
        /\ Go(a, "accepted")
        /\ UNCHANGED <<cancelled, review, dispatch, claims, died>>

(* It accepts the parcel, but its answer is lost, has no tracking number,  *)
(* or cannot be stored.                                                    *)
AnswerLost(a) ==
    LET o == attempt[a].order
    IN  /\ attempt[a].stage = "claimed"
        /\ parcels' = [parcels EXCEPT ![o] = @ + 1]
        /\ Go(a, "failed")
        /\ UNCHANGED <<cancelled, review, dispatch, linked, claims, died>>

CourierRefuses(a) ==
    /\ attempt[a].stage = "claimed"
    /\ Go(a, "failed")
    /\ UNCHANGED <<cancelled, review, dispatch, linked, claims, parcels, died>>

Confirm(a) ==
    /\ attempt[a].stage = "accepted"
    /\ dispatch' = [dispatch EXCEPT ![attempt[a].order] = "DISPATCHED"]
    /\ Stop(a)
    /\ UNCHANGED <<cancelled, review, linked, claims, parcels, died>>

(* The confirming transaction fails, although the courier has the parcel.  *)
ConfirmFails(a) ==
    /\ attempt[a].stage = "accepted"
    /\ Go(a, "failed")
    /\ UNCHANGED <<cancelled, review, dispatch, linked, claims, parcels,
                   died>>

(* A plausible slip: the error path forgets to free the claim.             *)
KeepClaim(a) ==
    /\ attempt[a].stage = "failed"
    /\ Stop(a)
    /\ UNCHANGED <<cancelled, review, dispatch, linked, claims, parcels, died>>

(* The catch block: only a claim that is still pending becomes FAILED.     *)
MarkFailed(a) ==
    LET o == attempt[a].order
    IN  /\ attempt[a].stage = "failed"
        /\ dispatch' = IF dispatch[o] = "PENDING"
                       THEN [dispatch EXCEPT ![o] = "FAILED"] ELSE dispatch
        /\ Stop(a)
        /\ UNCHANGED <<cancelled, review, linked, claims, parcels,
                       died>>

Crash(a) ==
    /\ attempt[a].stage # "idle"
    /\ died' = IF InFlight(a) THEN died \cup {attempt[a].order} ELSE died
    /\ Stop(a)
    /\ UNCHANGED <<cancelled, review, dispatch, linked, claims, parcels>>

-----------------------------------------------------------------------------
(* The group detect() computes: orders neither cancelled nor reviewed.     *)
Group == LET g == {o \in Orders : o \notin cancelled /\ review[o] = "none"}
         IN  IF Cardinality(g) > 1 THEN g ELSE {}

(* A plausible slip: the group is the one the screen showed.               *)
AnyOfThem(S) ==
    \A o \in S : review[o] = "none" /\ dispatch[o] \in {"none", "FAILED"}

(* A plausible slip: an order that is being dispatched can be cancelled.   *)
IgnoreDispatch(S) == S # {} /\ S \subseteq Group /\ S # Group

(* cancel() under the lock: the selected orders are of one group, one      *)
(* order of it remains, and none went to a courier.                        *)
Cancellable(S) ==
    /\ S # {} /\ S \subseteq Group /\ S # Group
    /\ \A o \in S : dispatch[o] \in {"none", "FAILED"}

CancelDuplicates(S) ==
    /\ Cancellable(S)
    /\ review' = [o \in Orders |-> IF o \in S THEN "CANCELLED" ELSE review[o]]
    /\ cancelled' = cancelled \cup (S \cap Manual)
    /\ UNCHANGED <<dispatch, linked, attempt, claims, parcels, died>>

(* The duplicates of a group are real orders; main is its oldest order.    *)
keepGroup(main) ==
    /\ main \in Group
    /\ review' = [o \in Orders |-> IF o \in Group \ {main} THEN "KEPT"
                                   ELSE review[o]]
    /\ UNCHANGED <<cancelled, dispatch, linked, attempt, claims, parcels, died>>

(* The platform cancels one of its orders, and a sync or webhook says so.  *)
PlatformCancels(o) ==
    /\ o \in Orders \ (Manual \cup cancelled)
    /\ cancelled' = cancelled \cup {o}
    /\ UNCHANGED <<review, dispatch, linked, attempt, claims, parcels, died>>

(* The merchant deletes the stored parcel at the courier.                  *)
ParcelDeleted(o) ==
    /\ o \in linked /\ parcels[o] > 0 /\ dispatch[o] # "CANCELLED"
    /\ dispatch' = [dispatch EXCEPT ![o] = "CANCELLED"]
    /\ UNCHANGED <<cancelled, review, linked, attempt, claims, parcels, died>>

AttemptStep(a) ==
    \/ Claim(a) \/ CourierAccepts(a) \/ AnswerLost(a) \/ CourierRefuses(a)
    \/ Confirm(a) \/ ConfirmFails(a) \/ MarkFailed(a)

DispatchNext ==
    \/ \E a \in Attempts : \/ \E o \in Orders : CheckOrder(a, o)
                           \/ AttemptStep(a)
                           \/ Crash(a)
    \/ \E S \in SUBSET Orders : CancelDuplicates(S)
    \/ \E o \in Orders : keepGroup(o) \/ PlatformCancels(o) \/ ParcelDeleted(o)

DispatchSpec == DispatchInit /\ [][DispatchNext]_dispatchVars

(* A request that started goes on: its awaits return or throw.             *)
FairDispatchSpec ==
    DispatchSpec /\ \A a \in Attempts : WF_dispatchVars(AttemptStep(a))

-----------------------------------------------------------------------------
(***************************************************************************)
(* Properties.                                                             *)
(***************************************************************************)

(* However many requests dispatch an order at the same time, at most one   *)
(* is past its claim: the claim and the failure path never let two of them *)
(* talk to the courier.                                                    *)
OneRequestPerOrder ==
    \A a, b \in Attempts :
        /\ InFlight(a) /\ InFlight(b)
        /\ attempt[a].order = attempt[b].order
        => a = b

(* An order cancelled as a duplicate is never handed to a courier: neither *)
(* by a request that checked it before the cancellation, nor by one whose  *)
(* claim the cancellation did not see.                                     *)
CancelledNotShipped ==
    [][\A o \in Orders : parcels'[o] > parcels[o]
                             => review[o] # "CANCELLED"]_dispatchVars

(* The surviving-order rule: however cancellations, reviews and platform   *)
(* updates follow each other, they never cancel all the duplicates.        *)
GroupKeepsOne == \E o \in Orders : review[o] # "CANCELLED"

(* No order stays "currently pending", unless the process died between its *)
(* claim and its confirmation: every path through dispatchOrder, lost      *)
(* answers and failed confirmations included, confirms or frees its claim. *)
PendingEnds ==
    \A o \in Orders :
        dispatch[o] = "PENDING" ~> dispatch[o] # "PENDING" \/ o \in died
=============================================================================
