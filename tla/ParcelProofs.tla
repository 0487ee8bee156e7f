---------------------------- MODULE ParcelProofs ----------------------------
(***************************************************************************)
(* A parcel's way out and back.                                            *)
(*                                                                         *)
(* Dispatch, for every set of orders and of requests: at most one request  *)
(* per order is past its claim, an order cancelled as a duplicate is never *)
(* handed to a courier, and the review of duplicates leaves one of them.   *)
(*                                                                         *)
(* Returns, for any lines, clerks, allocations, limits and any finite      *)
(* number of calls: no clerk overwrites a correction unseen, a line        *)
(* recorded in part keeps a return request open, and each return counts    *)
(* once against the customer.                                              *)
(***************************************************************************)
EXTENDS Dispatch, Returns, TLAPS, FiniteSetTheorems, SequenceTheorems

Stages == {"idle", "checked", "claimed", "accepted", "failed"}

DispatchTypes ==
    /\ review \in [Orders -> Decisions]
    /\ dispatch \in [Orders -> DispatchStatus]
    /\ attempt \in [Attempts -> [stage : Stages, order : Orders]]
    /\ parcels \in [Orders -> Nat]

(* The claim of a request in flight is still there, unless the merchant    *)
(* deleted the parcel meanwhile.                                           *)
ClaimHeld ==
    \A a \in Attempts :
        InFlight(a) => dispatch[attempt[a].order] \in {"PENDING", "CANCELLED"}

(* No request in flight is about an order that was cancelled as a          *)
(* duplicate.                                                              *)
FlightIsOpen ==
    \A a \in Attempts : InFlight(a) => review[attempt[a].order] # "CANCELLED"

(* One request per order does not follow from itself: a second claim is    *)
(* kept out because the first one's mark is still on the order.            *)
DispatchInv ==
    /\ DispatchTypes
    /\ ClaimHeld
    /\ OneRequestPerOrder
    /\ FlightIsOpen
    /\ GroupKeepsOne

-----------------------------------------------------------------------------
(* A request that does nothing points at some order, and is not in flight. *)
LEMMA IdleType == Idle \in [stage : Stages, order : Orders] /\ Idle.stage = "idle"
BY DispatchAssumption DEF Idle, Stages

LEMMA DispatchInvInit == DispatchInit => DispatchInv
<1> SUFFICES ASSUME DispatchInit PROVE DispatchInv
    OBVIOUS
<1>1. DispatchTypes
  BY IdleType DEF DispatchInit, DispatchTypes, Decisions, DispatchStatus
<1>2. \A a \in Attempts : ~InFlight(a)
  BY IdleType DEF DispatchInit, InFlight
<1>3. GroupKeepsOne
  BY DispatchAssumption DEF DispatchInit, GroupKeepsOne
<1> QED
  BY <1>1, <1>2, <1>3
  DEF DispatchInv, ClaimHeld, OneRequestPerOrder, FlightIsOpen

(* What a group computed by detect() consists of.                          *)
LEMMA GroupIsOpen == Group \subseteq Orders /\ \A o \in Group : review[o] = "none"
BY DEF Group

(* A request that stops leaves the requests in flight as they were,        *)
(* without itself.                                                         *)
LEMMA StopEffect ==
    ASSUME DispatchTypes, NEW a \in Attempts, Stop(a)
    PROVE  /\ attempt' \in [Attempts -> [stage : Stages, order : Orders]]
           /\ ~InFlight(a)'
           /\ \A b \in Attempts \ {a} : attempt'[b] = attempt[b]
BY IdleType DEF DispatchTypes, Stop, InFlight

(* Likewise for one that goes on to another stage.                         *)
LEMMA GoEffect ==
    ASSUME DispatchTypes, NEW a \in Attempts, NEW s \in Stages, Go(a, s)
    PROVE  /\ attempt' \in [Attempts -> [stage : Stages, order : Orders]]
           /\ attempt'[a].order = attempt[a].order
           /\ attempt'[a].stage = s
           /\ \A b \in Attempts \ {a} : attempt'[b] = attempt[b]
BY DEF DispatchTypes, Go

-----------------------------------------------------------------------------
(* The steps of one request.                                               *)
LEMMA CheckKeeps ==
    ASSUME DispatchInv, NEW a \in Attempts, NEW o \in Orders, CheckOrder(a, o)
    PROVE  DispatchInv'
<1>1. DispatchTypes'
  BY DEF DispatchInv, DispatchTypes, CheckOrder, Stages
<1>2. /\ ~InFlight(a)'
      /\ \A b \in Attempts \ {a} : attempt'[b] = attempt[b]
  BY DEF DispatchInv, DispatchTypes, CheckOrder, InFlight
<1>3. UNCHANGED <<review, dispatch>>
  BY DEF CheckOrder
<1> QED
  BY <1>1, <1>2, <1>3
  DEF DispatchInv, ClaimHeld, OneRequestPerOrder, FlightIsOpen,
      GroupKeepsOne, InFlight

LEMMA ClaimKeeps ==
    ASSUME DispatchInv, NEW a \in Attempts, Claim(a)
    PROVE  DispatchInv'
<1> DEFINE o == attempt[a].order
<1>0. o \in Orders /\ DispatchTypes
  BY DEF DispatchInv, DispatchTypes
<1>1. CASE Claimable(o)
  <2>1. dispatch' = [dispatch EXCEPT ![o] = "PENDING"] /\ Go(a, "claimed")
        /\ UNCHANGED <<review, parcels>>
    BY <1>1 DEF Claim
  <2>2. /\ attempt' \in [Attempts -> [stage : Stages, order : Orders]]
        /\ attempt'[a].order = o
        /\ \A b \in Attempts \ {a} : attempt'[b] = attempt[b]
    BY <1>0, <2>1, GoEffect DEF Stages
  <2>3. \A b \in Attempts \ {a} : InFlight(b)' => attempt[b].order # o
    (* a rival's mark would have made the claim fail                       *)
    BY <1>1, <2>2 DEF Claimable, DispatchInv, ClaimHeld, InFlight
  <2>4. DispatchTypes'
    BY <1>0, <2>1, <2>2 DEF DispatchTypes, DispatchStatus
  <2>5. ClaimHeld'
    BY <1>0, <2>1, <2>2, <2>3
    DEF DispatchInv, DispatchTypes, ClaimHeld, InFlight
  <2>6. OneRequestPerOrder'
    BY <2>2, <2>3 DEF DispatchInv, OneRequestPerOrder, InFlight
  <2>7. FlightIsOpen'
    BY <1>1, <2>1, <2>2 DEF Claimable, DispatchInv, FlightIsOpen, InFlight
  <2> QED
    BY <2>1, <2>4, <2>5, <2>6, <2>7 DEF DispatchInv, GroupKeepsOne
<1>2. CASE ~Claimable(o)
  <2>1. Stop(a) /\ UNCHANGED <<review, dispatch, parcels>>
    BY <1>2 DEF Claim
  <2>2. /\ attempt' \in [Attempts -> [stage : Stages, order : Orders]]
        /\ ~InFlight(a)'
        /\ \A b \in Attempts \ {a} : attempt'[b] = attempt[b]
    BY <1>0, <2>1, StopEffect
  <2> QED
    BY <2>1, <2>2
    DEF DispatchInv, DispatchTypes, ClaimHeld, OneRequestPerOrder,
        FlightIsOpen, GroupKeepsOne, InFlight
<1> QED
  BY <1>1, <1>2

(* The courier's answers: the request stays in flight with its order.      *)
LEMMA CourierKeeps ==
    ASSUME DispatchInv, NEW a \in Attempts,
           \/ CourierAccepts(a) \/ AnswerLost(a) \/ CourierRefuses(a)
           \/ ConfirmFails(a)
    PROVE  DispatchInv'
<1> DEFINE o == attempt[a].order
<1>0. o \in Orders /\ DispatchTypes /\ InFlight(a)
  BY DEF DispatchInv, DispatchTypes, CourierAccepts, AnswerLost,
         CourierRefuses, ConfirmFails, InFlight
<1>1. /\ Go(a, "accepted") \/ Go(a, "failed")
      /\ UNCHANGED <<review, dispatch>>
  BY DEF CourierAccepts, AnswerLost, CourierRefuses, ConfirmFails
<1>2. parcels' \in [Orders -> Nat]
  BY <1>0 DEF DispatchTypes, CourierAccepts, AnswerLost, CourierRefuses,
              ConfirmFails
<1>3. /\ attempt' \in [Attempts -> [stage : Stages, order : Orders]]
      /\ attempt'[a].order = o
      /\ \A b \in Attempts \ {a} : attempt'[b] = attempt[b]
  BY <1>0, <1>1, GoEffect DEF Stages
<1>4. \A b \in Attempts : /\ attempt'[b].order = attempt[b].order
                          /\ InFlight(b)' => InFlight(b)
  BY <1>0, <1>3 DEF InFlight
<1> QED
  BY <1>1, <1>2, <1>3, <1>4
  DEF DispatchInv, DispatchTypes, ClaimHeld, OneRequestPerOrder,
      FlightIsOpen, GroupKeepsOne

(* A request that ends, well or badly: whatever it writes, it writes on    *)
(* the order that it alone has in flight.                                  *)
LEMMA EndKeeps ==
    ASSUME DispatchInv, NEW a \in Attempts,
           Confirm(a) \/ MarkFailed(a) \/ Crash(a)
    PROVE  DispatchInv'
<1> DEFINE o == attempt[a].order
<1>0. o \in Orders /\ DispatchTypes
  BY DEF DispatchInv, DispatchTypes
<1>1. Stop(a) /\ UNCHANGED <<review, parcels>>
  BY DEF Confirm, MarkFailed, Crash
<1>2. /\ attempt' \in [Attempts -> [stage : Stages, order : Orders]]
      /\ ~InFlight(a)'
      /\ \A b \in Attempts \ {a} : attempt'[b] = attempt[b]
  BY <1>0, <1>1, StopEffect
<1>3. \/ dispatch' = dispatch
      \/ /\ InFlight(a)
         /\ \E s \in DispatchStatus : dispatch' = [dispatch EXCEPT ![o] = s]
  BY DEF Confirm, MarkFailed, Crash, InFlight, DispatchStatus
<1>4. DispatchTypes'
  BY <1>0, <1>1, <1>2, <1>3 DEF DispatchTypes
<1>5. ClaimHeld'
  <2>1. \A b \in Attempts \ {a} :
            InFlight(b) => dispatch'[attempt[b].order] = dispatch[attempt[b].order]
    BY <1>0, <1>3 DEF DispatchInv, DispatchTypes, OneRequestPerOrder
  <2> QED
    BY <1>2, <2>1 DEF DispatchInv, ClaimHeld, InFlight
<1> QED
  BY <1>1, <1>2, <1>4, <1>5
  DEF DispatchInv, OneRequestPerOrder, FlightIsOpen, GroupKeepsOne, InFlight

-----------------------------------------------------------------------------
(* The review, the platform and the merchant.                              *)
LEMMA CancelKeeps ==
    ASSUME DispatchInv, NEW S \in SUBSET Orders, CancelDuplicates(S)
    PROVE  DispatchInv'
<1>1. /\ review' = [o \in Orders |-> IF o \in S THEN "CANCELLED" ELSE review[o]]
      /\ UNCHANGED <<dispatch, attempt, parcels>>
  BY DEF CancelDuplicates
<1>2. DispatchTypes'
  BY <1>1 DEF DispatchInv, DispatchTypes, Decisions
<1>3. FlightIsOpen'
  <2>1. \A a \in Attempts : InFlight(a) => attempt[a].order \notin S
    BY DEF CancelDuplicates, Cancellable, DispatchInv, ClaimHeld
  <2> QED
    BY <1>1, <2>1 DEF DispatchInv, DispatchTypes, FlightIsOpen, InFlight
<1>4. GroupKeepsOne'
  <2>1. PICK o \in Group : o \notin S
    BY DEF CancelDuplicates, Cancellable
  <2> QED
    BY <1>1, <2>1, GroupIsOpen DEF GroupKeepsOne
<1> QED
  BY <1>1, <1>2, <1>3, <1>4
  DEF DispatchInv, ClaimHeld, OneRequestPerOrder, InFlight

LEMMA KeepGroupKeeps ==
    ASSUME DispatchInv, NEW main \in Orders, keepGroup(main)
    PROVE  DispatchInv'
<1>1. /\ review' = [o \in Orders |-> IF o \in Group \ {main} THEN "KEPT"
                                     ELSE review[o]]
      /\ UNCHANGED <<dispatch, attempt, parcels>>
  BY DEF keepGroup
<1>2. /\ review' \in [Orders -> Decisions]
      /\ \A o \in Orders : review'[o] = "CANCELLED" => review[o] = "CANCELLED"
  BY <1>1 DEF DispatchInv, DispatchTypes, Decisions
<1> QED
  BY <1>1, <1>2
  DEF DispatchInv, DispatchTypes, ClaimHeld, OneRequestPerOrder,
      FlightIsOpen, GroupKeepsOne, InFlight

LEMMA OutsideKeeps ==
    ASSUME DispatchInv, NEW o \in Orders,
           PlatformCancels(o) \/ ParcelDeleted(o)
    PROVE  DispatchInv'
<1>1. /\ \/ dispatch' = dispatch
         \/ dispatch' = [dispatch EXCEPT ![o] = "CANCELLED"]
      /\ UNCHANGED <<review, attempt, parcels>>
  BY DEF PlatformCancels, ParcelDeleted
<1>2. DispatchTypes'
  BY <1>1 DEF DispatchInv, DispatchTypes, DispatchStatus
<1>3. ClaimHeld'
  BY <1>1 DEF DispatchInv, DispatchTypes, ClaimHeld, InFlight
<1> QED
  BY <1>1, <1>2, <1>3
  DEF DispatchInv, OneRequestPerOrder, FlightIsOpen, GroupKeepsOne, InFlight

LEMMA DispatchInvNext ==
    ASSUME DispatchInv, [DispatchNext]_dispatchVars
    PROVE  DispatchInv'
<1>1. CASE UNCHANGED dispatchVars
  BY <1>1
  DEF dispatchVars, DispatchInv, DispatchTypes, ClaimHeld, FlightIsOpen,
      OneRequestPerOrder, GroupKeepsOne, InFlight
<1>2. ASSUME NEW a \in Attempts, NEW o \in Orders, CheckOrder(a, o)
      PROVE  DispatchInv'
  BY <1>2, CheckKeeps
<1>3. ASSUME NEW a \in Attempts, AttemptStep(a)
      PROVE  DispatchInv'
  BY <1>3, ClaimKeeps, CourierKeeps, EndKeeps DEF AttemptStep
<1>4. ASSUME NEW a \in Attempts, Crash(a)
      PROVE  DispatchInv'
  BY <1>4, EndKeeps
<1>5. ASSUME NEW S \in SUBSET Orders, CancelDuplicates(S)
      PROVE  DispatchInv'
  BY <1>5, CancelKeeps
<1>6. ASSUME NEW o \in Orders,
             keepGroup(o) \/ PlatformCancels(o) \/ ParcelDeleted(o)
      PROVE  DispatchInv'
  BY <1>6, KeepGroupKeeps, OutsideKeeps
<1> QED
  BY <1>1, <1>2, <1>3, <1>4, <1>5, <1>6 DEF DispatchNext

(* A parcel is made only by a request in flight, for its own order.        *)
LEMMA ParcelStep ==
    ASSUME DispatchInv, [DispatchNext]_dispatchVars,
           NEW o \in Orders, parcels'[o] > parcels[o]
    PROVE  review[o] # "CANCELLED"
<1>1. ASSUME NEW a \in Attempts, CourierAccepts(a) \/ AnswerLost(a)
      PROVE  review[o] # "CANCELLED"
  <2>1. parcels' = [parcels EXCEPT ![attempt[a].order] = @ + 1] /\ InFlight(a)
    BY <1>1 DEF CourierAccepts, AnswerLost, InFlight
  <2>2. attempt[a].order = o
    BY <2>1 DEF DispatchInv, DispatchTypes
  <2> QED
    BY <2>1, <2>2 DEF DispatchInv, FlightIsOpen
<1>2. ASSUME UNCHANGED parcels PROVE FALSE
  BY <1>2 DEF DispatchInv, DispatchTypes
<1> QED
  BY <1>1, <1>2
  DEF DispatchNext, AttemptStep, dispatchVars, CheckOrder, Claim,
      CourierRefuses, Confirm, ConfirmFails, MarkFailed, Crash,
      CancelDuplicates, keepGroup, PlatformCancels, ParcelDeleted

-----------------------------------------------------------------------------
(* The invariant of dispatchOrder beside the review of duplicates.         *)
THEOREM DispatchInvariant == DispatchSpec => []DispatchInv
<1>1. DispatchInv /\ [DispatchNext]_dispatchVars => DispatchInv'
  BY DispatchInvNext
<1> QED
  BY DispatchInvInit, <1>1, PTL DEF DispatchSpec

(* At most one request per order is past the claim of dispatchOrder, for   *)
(* any number of requests.                                                 *)
THEOREM DispatchOneRequest == DispatchSpec => []OneRequestPerOrder
<1>1. DispatchInv => OneRequestPerOrder
  BY DEF DispatchInv
<1> QED
  BY DispatchInvariant, <1>1, PTL

(* cancel() of the review never leaves a customer without an order.        *)
THEOREM DispatchKeepsOne == DispatchSpec => []GroupKeepsOne
<1>1. DispatchInv => GroupKeepsOne
  BY DEF DispatchInv
<1> QED
  BY DispatchInvariant, <1>1, PTL

(* No courier gets a parcel of an order the review cancelled, whatever was *)
(* checked before the cancellation.                                        *)
THEOREM DispatchCancelledNotShipped == DispatchSpec => CancelledNotShipped
<1>1. DispatchInv /\ [DispatchNext]_dispatchVars
      => [\A o \in Orders : parcels'[o] > parcels[o]
                                => review[o] # "CANCELLED"]_dispatchVars
  BY ParcelStep
<1> QED
  BY DispatchInvariant, <1>1, PTL DEF DispatchSpec, CancelledNotShipped

-----------------------------------------------------------------------------
(***************************************************************************)
(* Returns.                                                                *)
(***************************************************************************)

RequestStatus == {"NEED_VERIFICATION", "PROCESSED"}
Allocations == Snapshots \cup {None}
CallStates == [stage : {"idle", "creating", "counting", "crossed"},
               category : Counted]
Forms == [request : Nat, pinned : BOOLEAN,
          seen : [Lines -> Nat], shown : [Lines -> Allocations]]

ReturnsTypes ==
    /\ requests \in Seq(RequestStatus)
    /\ allocation \in [Lines -> Allocations]
    /\ revision \in [Lines -> Nat]
    /\ form \in [Clerks -> Forms]
    /\ call \in [Calls -> CallStates]
    /\ counted \in Nat /\ uncounted \in Nat

(* An open form is about a request of the order.                           *)
FormsOfRequests ==
    \A c \in Clerks : form[c] # NoForm => form[c].request \in DOMAIN requests

(* What a form shows of a line is what is recorded, unless the revision of *)
(* the line has grown since.                                               *)
FormsAreHonest ==
    \A c \in Clerks, l \in Lines :
        form[c].pinned =>
            \/ form[c].seen[l] < revision[l]
            \/ /\ form[c].seen[l] = revision[l]
               /\ form[c].shown[l] = allocation[l]

(* A call that is about to create a request is a detection.                *)
CreatorsDetect ==
    \A s \in Calls : call[s].stage = "creating" => call[s].category = "RETURNS"

ReturnsInv ==
    /\ ReturnsTypes
    /\ FormsOfRequests
    /\ FormsAreHonest
    /\ CreatorsDetect
    /\ IncompleteIsOpen
    /\ ReturnsCountedOnce

(* The calls that have yet to count a return.                              *)
Counting == {s \in Calls : call[s].stage = "counting"
                           /\ call[s].category = "RETURNS"}

LEMMA CountingIsFinite == IsFiniteSet(Counting) /\ Cardinality(Counting) \in Nat
<1>1. Counting \in SUBSET Calls /\ IsFiniteSet(Calls)
  BY ReturnsAssumption DEF Counting
<1> QED
  BY <1>1, FS_Subset, FS_CardinalityType

LEMMA ReturnsInvInit == ReturnsInit => ReturnsInv
<1> SUFFICES ASSUME ReturnsInit PROVE ReturnsInv
    OBVIOUS
<1>1. ReturnsTypes
  <2>1. NoForm \in Forms
    BY DEF NoForm, Forms, Allocations
  <2>2. Quiet \in CallStates
    BY DEF Quiet, CallStates, Counted
  <2>3. requests \in Seq(RequestStatus)
    BY DEF ReturnsInit
  <2> QED
    BY <2>1, <2>2, <2>3 DEF ReturnsInit, ReturnsTypes, Allocations
<1>2. FormsOfRequests /\ FormsAreHonest /\ CreatorsDetect
  BY DEF ReturnsInit, FormsOfRequests, FormsAreHonest, CreatorsDetect,
         NoForm, Quiet
<1>3. IncompleteIsOpen
  BY ReturnsAssumption DEF ReturnsInit, IncompleteIsOpen
<1>4. ReturnsCountedOnce
  <2>1. Counting = {}
    BY DEF Counting, ReturnsInit, Quiet
  <2>2. Cardinality(Counting) = 0
    BY <2>1, FS_EmptySet
  <2>3. counted = 0 /\ uncounted = 0 /\ Len(requests) = 0
    BY DEF ReturnsInit
  <2>4. Cardinality(Counting) + counted + uncounted = Len(requests)
    BY <2>2, <2>3
  <2> QED
    BY <2>4 DEF ReturnsCountedOnce, Counting
<1> QED
  BY <1>1, <1>2, <1>3, <1>4 DEF ReturnsInv

-----------------------------------------------------------------------------
(* A step that leaves the clerks' side alone, and at most adds a request.  *)
LEMMA ClerksUndisturbed ==
    ASSUME ReturnsInv, UNCHANGED <<conditionVars, form>>,
           requests' = requests \/ requests' = Append(requests, "NEED_VERIFICATION")
    PROVE  /\ requests' \in Seq(RequestStatus)
           /\ FormsOfRequests' /\ FormsAreHonest' /\ IncompleteIsOpen'
<1>0. requests \in Seq(RequestStatus)
  BY DEF ReturnsInv, ReturnsTypes
<1>1. /\ requests' \in Seq(RequestStatus)
      /\ DOMAIN requests \subseteq DOMAIN requests'
      /\ \A r \in DOMAIN requests : requests'[r] = requests[r]
  BY <1>0, AppendProperties, LenProperties DEF RequestStatus
<1>2. IncompleteIsOpen'
  BY <1>1 DEF ReturnsInv, IncompleteIsOpen, conditionVars, OpenRequests, Open
<1>3. FormsOfRequests' /\ FormsAreHonest'
  BY <1>1 DEF ReturnsInv, FormsOfRequests, FormsAreHonest, conditionVars
<1> QED
  BY <1>1, <1>2, <1>3

(* A call that comes to another stage, of another category or not.         *)
LEMMA CallsTyped ==
    ASSUME ReturnsInv, NEW s \in Calls, NEW state \in CallStates,
           call' = [call EXCEPT ![s] = state],
           state.stage = "creating" => state.category = "RETURNS"
    PROVE  call' \in [Calls -> CallStates] /\ CreatorsDetect'
BY DEF ReturnsInv, ReturnsTypes, CreatorsDetect

(* ... and what it does to the calls that have yet to count.               *)
LEMMA CountingAfter ==
    ASSUME ReturnsInv, NEW s \in Calls, NEW state \in CallStates,
           call' = [call EXCEPT ![s] = state]
    PROVE  Counting' = IF state.stage = "counting" /\ state.category = "RETURNS"
                       THEN Counting \cup {s} ELSE Counting \ {s}
BY DEF ReturnsInv, ReturnsTypes, Counting

(* The two steps that a call makes, as new states of the call.             *)
LEMMA BecomesState ==
    ASSUME ReturnsInv, NEW s \in Calls,
           NEW stage \in {"idle", "creating", "counting", "crossed"},
           Becomes(s, stage)
    PROVE  LET state == [stage |-> stage, category |-> call[s].category]
           IN  state \in CallStates /\ call' = [call EXCEPT ![s] = state]
<1>1. call[s] \in CallStates
  BY DEF ReturnsInv, ReturnsTypes
<1>2. [call[s] EXCEPT !.stage = stage]
        = [stage |-> stage, category |-> call[s].category]
  BY <1>1 DEF CallStates
<1>3. call' = [call EXCEPT ![s] = [call[s] EXCEPT !.stage = stage]]
  BY DEF Becomes
<1> QED
  BY <1>1, <1>2, <1>3 DEF CallStates

LEMMA EndsState ==
    ASSUME NEW s \in Calls, Ends(s)
    PROVE  Quiet \in CallStates /\ call' = [call EXCEPT ![s] = Quiet]
BY DEF Ends, Quiet, CallStates, Counted

-----------------------------------------------------------------------------
(* A step of a call that is not about counting a return.                   *)
LEMMA OtherCallKeeps ==
    ASSUME ReturnsInv, NEW s \in Calls, NEW state \in CallStates,
           call' = [call EXCEPT ![s] = state],
           state.stage = "creating" => state.category = "RETURNS",
           ~(state.stage = "counting" /\ state.category = "RETURNS"),
           s \notin Counting,
           UNCHANGED <<requests, conditionVars, form, counted, uncounted>>
    PROVE  ReturnsInv'
<1>1. Counting' = Counting
  BY CountingAfter
<1>2. ReturnsCountedOnce'
  BY <1>1 DEF ReturnsInv, ReturnsCountedOnce, Counting
<1>3. ReturnsTypes'
  BY CallsTyped DEF ReturnsInv, ReturnsTypes, conditionVars
<1> QED
  BY <1>2, <1>3, ClerksUndisturbed, CallsTyped DEF ReturnsInv

LEMMA FindKeeps ==
    ASSUME ReturnsInv, NEW s \in Calls, FindNoReturn(s)
    PROVE  ReturnsInv'
<1> DEFINE state == [stage |-> "creating", category |-> "RETURNS"]
<1>1. call[s].category = "RETURNS" /\ s \notin Counting
  BY DEF FindNoReturn, Quiet, Counting
<1>2. state \in CallStates /\ call' = [call EXCEPT ![s] = state]
  BY <1>1, BecomesState DEF FindNoReturn
<1> QED
  BY <1>1, <1>2, OtherCallKeeps DEF FindNoReturn, riskVars

(* The winner of the race owes one count for one request.                  *)
LEMMA CreateKeeps ==
    ASSUME ReturnsInv, NEW s \in Calls, CreateReturn(s)
    PROVE  ReturnsInv'
<1> DEFINE state == [stage |-> "counting", category |-> "RETURNS"]
<1>1. call[s].category = "RETURNS" /\ s \notin Counting
  BY DEF CreateReturn, ReturnsInv, CreatorsDetect, Counting
<1>2. state \in CallStates /\ call' = [call EXCEPT ![s] = state]
  BY <1>1, BecomesState DEF CreateReturn
<1>3. Cardinality(Counting') = Cardinality(Counting) + 1
  <2>1. Counting' = Counting \cup {s}
    BY <1>2, CountingAfter
  <2> QED
    BY <1>1, <2>1, CountingIsFinite, FS_AddElement
<1>4. Len(requests') = Len(requests) + 1
  BY AppendProperties DEF CreateReturn, ReturnsInv, ReturnsTypes, RequestStatus
<1>5. ReturnsCountedOnce'
  <2>1. /\ Cardinality(Counting) \in Nat /\ counted \in Nat /\ uncounted \in Nat
        /\ Len(requests) \in Nat
        /\ Cardinality(Counting) + counted + uncounted = Len(requests)
    BY CountingIsFinite, LenProperties
    DEF ReturnsInv, ReturnsTypes, ReturnsCountedOnce, Counting
  <2>2. counted' = counted /\ uncounted' = uncounted
    BY DEF CreateReturn, riskVars
  <2>3. Cardinality(Counting') + counted' + uncounted' = Len(requests')
    BY <1>3, <1>4, <2>1, <2>2
  <2> QED
    BY <2>3 DEF ReturnsCountedOnce, Counting
<1>6. UNCHANGED <<conditionVars, form, counted, uncounted>>
      /\ requests' = Append(requests, "NEED_VERIFICATION")
  BY DEF CreateReturn, riskVars
<1>7. ReturnsTypes'
  BY <1>2, <1>6, CallsTyped, ClerksUndisturbed
  DEF ReturnsInv, ReturnsTypes, conditionVars
<1> QED
  BY <1>2, <1>5, <1>6, <1>7, CallsTyped, ClerksUndisturbed DEF ReturnsInv

LEMMA JoinKeeps ==
    ASSUME ReturnsInv, NEW s \in Calls, JoinReturn(s)
    PROVE  ReturnsInv'
BY EndsState, OtherCallKeeps DEF JoinReturn, Counting, riskVars, Quiet

LEMMA ReportKeeps ==
    ASSUME ReturnsInv, NEW s \in Calls, NEW k \in Categories, ReportRisk(s, k)
    PROVE  ReturnsInv'
<1> DEFINE state == [stage |-> "counting", category |-> k]
<1>1. k # "RETURNS" /\ state \in CallStates
  BY ReturnsAssumption DEF CallStates, Counted
<1>2. call' = [call EXCEPT ![s] = state] /\ s \notin Counting
  BY DEF ReportRisk, Quiet, Counting
<1>3. UNCHANGED <<requests, conditionVars, form, counted, uncounted>>
  BY DEF ReportRisk, riskVars
<1> HIDE DEF state
<1>4. state.stage = "counting" /\ state.category = k
  BY DEF state
<1> QED
  BY <1>1, <1>2, <1>3, <1>4, OtherCallKeeps

(* A step of a call that counts a return, or will never count it: one call *)
(* that owes a count less, one count more.                                 *)
LEMMA SettledKeeps ==
    ASSUME ReturnsInv, NEW s \in Calls, NEW state \in CallStates,
           call' = [call EXCEPT ![s] = state],
           state.stage \in {"idle", "crossed"},
           UNCHANGED <<requests, conditionVars, form>>,
           \/ /\ s \in Counting
              /\ \/ counted' = counted + 1 /\ uncounted' = uncounted
                 \/ counted' = counted /\ uncounted' = uncounted + 1
           \/ s \notin Counting /\ UNCHANGED <<counted, uncounted>>
    PROVE  ReturnsInv'
<1>1. Counting' = Counting \ {s}
  BY CountingAfter
<1>2. Cardinality(Counting') = IF s \in Counting THEN Cardinality(Counting) - 1
                                                 ELSE Cardinality(Counting)
  BY <1>1, CountingIsFinite, FS_RemoveElement
<1>3. counted \in Nat /\ uncounted \in Nat /\ counted' \in Nat /\ uncounted' \in Nat
  BY DEF ReturnsInv, ReturnsTypes
<1>4. Cardinality(Counting) + counted + uncounted = Len(requests)
  BY DEF ReturnsInv, ReturnsCountedOnce, Counting
<1>5. Cardinality(Counting') + counted' + uncounted' = Len(requests')
  BY <1>2, <1>3, <1>4, CountingIsFinite
<1>6. ReturnsCountedOnce'
  BY <1>5 DEF ReturnsCountedOnce, Counting
<1>7. ReturnsTypes'
  BY <1>3, CallsTyped DEF ReturnsInv, ReturnsTypes, conditionVars
<1> QED
  BY <1>6, <1>7, ClerksUndisturbed, CallsTyped DEF ReturnsInv

LEMMA CountKeeps ==
    ASSUME ReturnsInv, NEW s \in Calls, Count(s)
    PROVE  ReturnsInv'
<1>1. /\ call[s].stage = "counting"
      /\ counted' = IF call[s].category = "RETURNS" THEN counted + 1 ELSE counted
      /\ Becomes(s, "crossed") \/ Ends(s)
      /\ UNCHANGED <<requests, conditionVars, form, uncounted>>
  BY DEF Count, Counts
<1>2. PICK state \in CallStates : /\ call' = [call EXCEPT ![s] = state]
                                  /\ state.stage \in {"idle", "crossed"}
  BY <1>1, BecomesState, EndsState DEF Quiet
<1>3. s \in Counting <=> call[s].category = "RETURNS"
  BY <1>1 DEF Counting
<1> QED
  BY <1>1, <1>2, <1>3, SettledKeeps

LEMMA BlacklistKeeps ==
    ASSUME ReturnsInv, NEW s \in Calls, Blacklist(s)
    PROVE  ReturnsInv'
<1>1. s \notin Counting
  BY DEF Blacklist, Counting
<1> QED
  BY <1>1, EndsState, SettledKeeps DEF Blacklist, Quiet

LEMMA EndEarlyKeeps ==
    ASSUME ReturnsInv, NEW s \in Calls, EndEarly(s)
    PROVE  ReturnsInv'
<1>1. /\ uncounted' = IF s \in Counting THEN uncounted + 1 ELSE uncounted
      /\ UNCHANGED <<requests, conditionVars, form, counted>>
  BY DEF EndEarly, Counting
<1>2. /\ Quiet \in CallStates /\ Quiet.stage = "idle"
      /\ call' = [call EXCEPT ![s] = Quiet]
  BY EndsState DEF EndEarly, Quiet
<1> QED
  BY <1>1, <1>2, SettledKeeps

-----------------------------------------------------------------------------
(* A step of a clerk, or of the order's own endpoint, leaves the count of  *)
(* requests and the calls alone.                                           *)
LEMMA CallsUndisturbed ==
    ASSUME ReturnsInv, UNCHANGED <<call, riskVars>>,
           Len(requests') = Len(requests)
    PROVE  /\ call' \in [Calls -> CallStates]
           /\ counted' \in Nat /\ uncounted' \in Nat
           /\ CreatorsDetect' /\ ReturnsCountedOnce'
BY DEF ReturnsInv, ReturnsTypes, CreatorsDetect, ReturnsCountedOnce, riskVars

(* The lines after a recording: a line that changed has a new revision.    *)
LEMMA RecordEffect ==
    ASSUME ReturnsInv, NEW entries, Record(entries),
           DOMAIN entries \subseteq Lines,
           \A l \in DOMAIN entries : entries[l] \in Snapshots
    PROVE  /\ allocation' \in [Lines -> Allocations]
           /\ revision' \in [Lines -> Nat]
           /\ \A l \in Lines :
                  \/ /\ allocation'[l] = allocation[l]
                     /\ revision'[l] = revision[l]
                  \/ /\ l \in Changed(entries)
                     /\ allocation'[l] = entries[l]
                     /\ revision'[l] = revision[l] + 1
<1>1. allocation \in [Lines -> Allocations] /\ revision \in [Lines -> Nat]
  BY DEF ReturnsInv, ReturnsTypes
<1>2. /\ allocation' = [l \in Lines |-> IF l \in DOMAIN entries THEN entries[l]
                                        ELSE allocation[l]]
      /\ revision' = [l \in Lines |-> IF l \in Changed(entries)
                                      THEN revision[l] + 1 ELSE revision[l]]
  BY DEF Record, After, RevisionAfter
<1> QED
  BY <1>1, <1>2 DEF Changed, Allocations

(* A form stays honest: a line it shows either did not change, or has a    *)
(* revision the form has not seen.                                         *)
LEMMA HonestAfterRecord ==
    ASSUME ReturnsInv, NEW entries, Record(entries),
           DOMAIN entries \subseteq Lines,
           \A l \in DOMAIN entries : entries[l] \in Snapshots,
           NEW c \in Clerks, NEW l \in Lines, form[c].pinned
    PROVE  \/ form[c].seen[l] < revision'[l]
           \/ /\ form[c].seen[l] = revision'[l]
              /\ form[c].shown[l] = allocation'[l]
<1>1. form[c].seen[l] \in Nat /\ revision[l] \in Nat
  BY DEF ReturnsInv, ReturnsTypes, Forms
<1>2. \/ form[c].seen[l] < revision[l]
      \/ form[c].seen[l] = revision[l] /\ form[c].shown[l] = allocation[l]
  BY DEF ReturnsInv, FormsAreHonest
<1> QED
  BY <1>1, <1>2, RecordEffect

LEMMA OpenFormKeeps ==
    ASSUME ReturnsInv, NEW c \in Clerks, NEW r \in DOMAIN requests,
           NEW pinned \in BOOLEAN, OpenForm(c, r, pinned)
    PROVE  ReturnsInv'
<1> DEFINE opened == [request |-> r, pinned |-> pinned,
                      seen |-> revision, shown |-> allocation]
<1>1. r \in Nat
  BY LenProperties DEF ReturnsInv, ReturnsTypes
<1>2. form' = [form EXCEPT ![c] = opened] /\ UNCHANGED <<requests, conditionVars>>
      /\ UNCHANGED <<call, riskVars>>
  BY DEF OpenForm
<1>3. opened \in Forms
  BY <1>1 DEF ReturnsInv, ReturnsTypes, Forms
<1>4. ReturnsTypes'
  BY <1>2, <1>3, CallsUndisturbed DEF ReturnsInv, ReturnsTypes, conditionVars
<1>5. FormsOfRequests' /\ FormsAreHonest'
  BY <1>2 DEF ReturnsInv, ReturnsTypes, FormsOfRequests, FormsAreHonest,
              conditionVars
<1> QED
  BY <1>2, <1>4, <1>5, CallsUndisturbed
  DEF ReturnsInv, IncompleteIsOpen, conditionVars, OpenRequests, Open

LEMMA CloseFormKeeps ==
    ASSUME ReturnsInv, NEW c \in Clerks, CloseForm(c)
    PROVE  ReturnsInv'
<1>1. form' = [form EXCEPT ![c] = NoForm] /\ UNCHANGED <<requests, conditionVars>>
      /\ UNCHANGED <<call, riskVars>>
  BY DEF CloseForm
<1>2. NoForm \in Forms /\ ~NoForm.pinned
  BY DEF NoForm, Forms, Allocations
<1>3. ReturnsTypes'
  BY <1>1, <1>2, CallsUndisturbed DEF ReturnsInv, ReturnsTypes, conditionVars
<1>4. FormsOfRequests' /\ FormsAreHonest'
  BY <1>1, <1>2 DEF ReturnsInv, ReturnsTypes, FormsOfRequests, FormsAreHonest,
                    conditionVars
<1> QED
  BY <1>1, <1>3, <1>4, CallsUndisturbed
  DEF ReturnsInv, IncompleteIsOpen, conditionVars, OpenRequests, Open

LEMMA VerifyKeeps ==
    ASSUME ReturnsInv, NEW c \in Clerks, NEW entries \in Entries,
           Verify(c, entries)
    PROVE  ReturnsInv'
<1> DEFINE r == form[c].request
           status == IF Complete(entries) THEN "PROCESSED"
                                          ELSE "NEED_VERIFICATION"
<1>0. /\ DOMAIN entries \subseteq Lines
      /\ \A l \in DOMAIN entries : entries[l] \in Snapshots
  BY DEF Entries
<1>1. requests \in Seq(RequestStatus) /\ r \in 1..Len(requests)
      /\ status \in RequestStatus
  BY LenProperties
  DEF ReturnsInv, ReturnsTypes, FormsOfRequests, Verify, RequestStatus
<1>2. requests' = [requests EXCEPT ![r] = status]
      /\ form' = [form EXCEPT ![c] = NoForm]
      /\ UNCHANGED <<call, riskVars>> /\ Record(entries)
  BY DEF Verify
<1> HIDE DEF r, status
<1>3. requests' \in Seq(RequestStatus) /\ Len(requests') = Len(requests)
      /\ DOMAIN requests' = DOMAIN requests /\ requests'[r] = status
  BY <1>1, <1>2, ExceptSeq, LenProperties
<1>4. NoForm \in Forms /\ ~NoForm.pinned
  BY DEF NoForm, Forms, Allocations
<1>5. ReturnsTypes'
  BY <1>0, <1>2, <1>3, <1>4, RecordEffect, CallsUndisturbed
  DEF ReturnsInv, ReturnsTypes
<1>6. FormsOfRequests'
  BY <1>2, <1>3 DEF ReturnsInv, ReturnsTypes, FormsOfRequests
<1>7. FormsAreHonest'
  BY <1>0, <1>2, <1>4, HonestAfterRecord
  DEF ReturnsInv, ReturnsTypes, FormsAreHonest
<1>8. IncompleteIsOpen'
  <2>1. CASE Complete(entries)
    BY <2>1, <1>2, ReturnsAssumption
    DEF Complete, Record, IncompleteIsOpen
  <2>2. CASE ~Complete(entries)
    BY <2>2, <1>1, <1>3, LenProperties
    DEF status, IncompleteIsOpen, OpenRequests, Open
  <2> QED
    BY <2>1, <2>2
<1> QED
  BY <1>2, <1>3, <1>5, <1>6, <1>7, <1>8, CallsUndisturbed DEF ReturnsInv

LEMMA RecordKeeps ==
    ASSUME ReturnsInv, NEW l \in Lines, NEW entry \in Full,
           RecordProductCondition(l, entry)
    PROVE  ReturnsInv'
<1> DEFINE entries == [k \in {l} |-> entry]
<1>1. Record(entries) /\ UNCHANGED <<requests, form, call, riskVars>>
  BY DEF RecordProductCondition
<1>2. /\ DOMAIN entries \subseteq Lines
      /\ \A k \in DOMAIN entries : entries[k] \in Snapshots /\ entries[k] \in Full
  BY DEF Snapshots
<1> HIDE DEF entries
<1>3. ReturnsTypes'
  BY <1>1, <1>2, RecordEffect, CallsUndisturbed DEF ReturnsInv, ReturnsTypes
<1>4. FormsOfRequests' /\ FormsAreHonest'
  BY <1>1, <1>2, HonestAfterRecord DEF ReturnsInv, FormsOfRequests, FormsAreHonest
<1>5. IncompleteIsOpen'
  <2>1. \A k \in Lines : allocation'[k] \in Part => allocation[k] \in Part
    BY <1>1, <1>2, RecordEffect, ReturnsAssumption DEF Changed
  <2> QED
    BY <1>1, <2>1 DEF ReturnsInv, IncompleteIsOpen, OpenRequests, Open
<1> QED
  BY <1>1, <1>3, <1>4, <1>5, CallsUndisturbed DEF ReturnsInv

LEMMA ReturnsInvNext ==
    ASSUME ReturnsInv, [ReturnsNext]_returnsVars
    PROVE  ReturnsInv'
<1>1. ASSUME NEW s \in Calls, CallStep(s) PROVE ReturnsInv'
  BY <1>1, FindKeeps, CreateKeeps, JoinKeeps, ReportKeeps, CountKeeps,
     BlacklistKeeps, EndEarlyKeeps DEF CallStep
<1>2. ASSUME NEW c \in Clerks, ClerkStep(c) PROVE ReturnsInv'
  BY <1>2, OpenFormKeeps, CloseFormKeeps, VerifyKeeps DEF ClerkStep
<1>3. ASSUME NEW l \in Lines, NEW entry \in Full, RecordProductCondition(l, entry)
      PROVE  ReturnsInv'
  BY <1>3, RecordKeeps
<1>4. CASE UNCHANGED returnsVars \/ AddToBlacklist \/ RemoveFromBlacklist
  <2>1. UNCHANGED <<requests, allocation, revision, form, call, counted, uncounted>>
    BY <1>4 DEF returnsVars, conditionVars, riskVars, AddToBlacklist,
                RemoveFromBlacklist
  <2> QED
    BY <2>1
    DEF ReturnsInv, ReturnsTypes, FormsOfRequests, FormsAreHonest,
        CreatorsDetect, IncompleteIsOpen, ReturnsCountedOnce, OpenRequests, Open
<1> QED
  BY <1>1, <1>2, <1>3, <1>4 DEF ReturnsNext

(* A pinned form that is posted replaces only what it showed.              *)
LEMMA PostedFormStep ==
    ASSUME ReturnsInv, [ReturnsNext]_returnsVars,
           NEW c \in Clerks, NEW l \in Lines,
           form[c].pinned, form'[c] = NoForm, allocation'[l] # allocation[l]
    PROVE  allocation[l] = form[c].shown[l]
<1>1. form' # form
  BY DEF NoForm
<1>2. PICK d \in Clerks, entries \in Entries : Verify(d, entries)
  BY <1>1
  DEF ReturnsNext, returnsVars, conditionVars, CallStep, ClerkStep,
      FindNoReturn, CreateReturn, JoinReturn, ReportRisk, Count, Counts,
      Blacklist, EndEarly, OpenForm, CloseForm, RecordProductCondition,
      AddToBlacklist, RemoveFromBlacklist
<1>3. d = c
  BY <1>2 DEF Verify, ReturnsInv, ReturnsTypes, NoForm
<1>4. l \in Changed(entries)
  BY <1>2, RecordEffect DEF Verify, Entries
<1>5. revision[l] = form[c].seen[l]
  BY <1>2, <1>3, <1>4 DEF Verify, ExpectedRevision
<1>6. form[c].seen[l] \in Nat
  BY DEF ReturnsInv, ReturnsTypes, Forms
<1> QED
  BY <1>5, <1>6 DEF ReturnsInv, FormsAreHonest

-----------------------------------------------------------------------------
(* The invariant of detect, verify, record and the risk counters.          *)
THEOREM ReturnsInvariant == ReturnsSpec => []ReturnsInv
<1>1. ReturnsInv /\ [ReturnsNext]_returnsVars => ReturnsInv'
  BY ReturnsInvNext
<1> QED
  BY ReturnsInvInit, <1>1, PTL DEF ReturnsSpec

(* verify closes a request only when no line of the order is left in part. *)
THEOREM ReturnsIncompleteIsOpen == ReturnsSpec => []IncompleteIsOpen
<1>1. ReturnsInv => IncompleteIsOpen
  BY DEF ReturnsInv
<1> QED
  BY ReturnsInvariant, <1>1, PTL

(* detect counts a return once, however many calls race to create it.      *)
THEOREM ReturnsEachCountedOnce == ReturnsSpec => []ReturnsCountedOnce
<1>1. ReturnsInv => ReturnsCountedOnce
  BY DEF ReturnsInv
<1> QED
  BY ReturnsInvariant, <1>1, PTL

(* expectedRevision protects a correction the clerk has not seen.          *)
THEOREM ReturnsNoLostCorrection == ReturnsSpec => NoLostCorrection
<1>1. ReturnsInv /\ [ReturnsNext]_returnsVars
      => [\A c \in Clerks, l \in Lines :
             form[c].pinned /\ form'[c] = NoForm /\ allocation'[l] # allocation[l]
             => allocation[l] = form[c].shown[l]]_returnsVars
  BY PostedFormStep
<1> QED
  BY ReturnsInvariant, <1>1, PTL DEF ReturnsSpec, NoLostCorrection
=============================================================================
