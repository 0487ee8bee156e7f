------------------------------ MODULE Returns ------------------------------
(***************************************************************************)
(* A parcel that comes back: its return requests, the conditions of its    *)
(* lines, and what the return does to the customer's risk:                 *)
(*   src/ecommerce/return-request.service.ts    detect, get, verify        *)
(*   src/ecommerce/order-condition.service.ts   record                     *)
(*   src/customers/customer-risk.service.ts     the counters, the blacklist*)
(*                                                                         *)
(* detect looks for an open request, creates one, and counts the return    *)
(* against the customer: three statements, and several scanners.  A partial*)
(* unique index allows one open request per order.  record is one order    *)
(* transaction; a clerk posts what was typed into a form that shows the    *)
(* lines as they were when it was opened.  The counters are also fed by    *)
(* couriers and by platforms.                                              *)
(***************************************************************************)
EXTENDS Integers, Sequences, FiniteSets

CONSTANTS
    Lines,        \* lines of the order
    Full,         \* allocations of conditions to every unit of a line
    Part,         \* allocations that leave units of the line out
    None,         \* no allocation recorded yet
    Calls,        \* requests that scan a parcel or report a risk, at a time
    Clerks,       \* forms open at a time
    Categories,   \* other risk categories than RETURNS
    Limit,        \* BlacklistSettings: the limit of a category, 0 is off
    CombinedLimit,\* the limit of their sum, 0 when limits are per category
    MaxReturns,   \* bound on the requests of the order
    MaxRevision,  \* bound on conditionRevision
    MaxCount      \* bound on the counters

Counted == Categories \cup {"RETURNS"}

ASSUME ReturnsAssumption ==
    /\ "RETURNS" \notin Categories /\ IsFiniteSet(Calls)
    /\ Limit \in [Counted -> Nat] /\ CombinedLimit \in Nat
    /\ Full \cap Part = {} /\ None \notin Full \cup Part
    /\ MaxReturns \in Nat /\ MaxRevision \in Nat /\ MaxCount \in Nat

VARIABLES
    requests,     \* status of the return requests, in the order of creation
    allocation,   \* conditionAllocations of a line
    revision,     \* conditionRevision of a line
    form,         \* what each clerk has on the screen
    call,         \* what each call of detect or of a risk report is doing
    counter,      \* the risk counters of the customer
    isBlacklisted,
    counted,      \* returns counted so far (history)
    uncounted,    \* requests created by calls that ended before counting (history)
    missed        \* a call crossed a limit and ended before blacklisting (history)

riskVars == <<counter, isBlacklisted, counted, uncounted, missed>>
conditionVars == <<allocation, revision>>
returnsVars == <<requests, conditionVars, form, call, riskVars>>

Snapshots == Full \cup Part
Open(r) == requests[r] = "NEED_VERIFICATION"
OpenRequests == {r \in DOMAIN requests : Open(r)}
Quiet == [stage |-> "idle", category |-> "RETURNS"]
NoForm == [request |-> 0, pinned |-> FALSE,
           seen |-> [l \in Lines |-> 0], shown |-> [l \in Lines |-> None]]

ReturnsInit ==
    /\ requests = <<>>
    /\ allocation = [l \in Lines |-> None]
    /\ revision = [l \in Lines |-> 0]
    /\ form = [c \in Clerks |-> NoForm]
    /\ call = [s \in Calls |-> Quiet]
    /\ counter = [k \in Counted |-> 0]
    /\ isBlacklisted = FALSE
    /\ counted = 0 /\ uncounted = 0 /\ missed = FALSE

Becomes(s, stage) == call' = [call EXCEPT ![s].stage = stage]
Ends(s) == call' = [call EXCEPT ![s] = Quiet]

-----------------------------------------------------------------------------
(* detect.  A scan that finds an open request changes nothing; this one    *)
(* finds none.                                                             *)
FindNoReturn(s) ==
    /\ call[s] = Quiet
    /\ OpenRequests = {} /\ Len(requests) < MaxReturns
    /\ Becomes(s, "creating")
    /\ UNCHANGED <<requests, conditionVars, form, riskVars>>

CreateReturn(s) ==
    /\ call[s].stage = "creating"
    /\ OpenRequests = {}
    /\ requests' = Append(requests, "NEED_VERIFICATION")
    /\ Becomes(s, "counting")
    /\ UNCHANGED <<conditionVars, form, riskVars>>

(* A plausible slip: the call that lost the race counts the return too.    *)
JoinAndCount(s) ==
    /\ call[s].stage = "creating"
    /\ OpenRequests # {}
    /\ Becomes(s, "counting")
    /\ UNCHANGED <<requests, conditionVars, form, riskVars>>

(* The index refuses the second open request: the loser reads the winner's *)
(* and does not count it.                                                  *)
JoinReturn(s) ==
    /\ call[s].stage = "creating"
    /\ OpenRequests # {}
    /\ Ends(s)
    /\ UNCHANGED <<requests, conditionVars, form, riskVars>>

-----------------------------------------------------------------------------
(* The risk engine.  A courier or a platform reports something else.       *)
ReportRisk(s, k) ==
    /\ call[s] = Quiet
    /\ counter[k] < MaxCount
    /\ call' = [call EXCEPT ![s] = [stage |-> "counting", category |-> k]]
    /\ UNCHANGED <<requests, conditionVars, form, riskVars>>

(* hasCrossedRiskLimit(computeRiskDistances(row, settings))                *)
Total(row) == LET sum[S \in SUBSET Counted] ==
                      IF S = {} THEN 0
                      ELSE LET k == CHOOSE k \in S : TRUE IN row[k] + sum[S \ {k}]
              IN sum[Counted]

HasCrossed(row) ==
    IF CombinedLimit > 0 THEN Total(row) >= CombinedLimit
    ELSE \E k \in Counted : Limit[k] > 0 /\ row[k] >= Limit[k]

Counts(s, row) ==
    /\ call[s].stage = "counting"
    /\ counter' = [counter EXCEPT ![call[s].category] = @ + 1]
    /\ counted' = IF call[s].category = "RETURNS" THEN counted + 1 ELSE counted
    /\ IF ~isBlacklisted /\ HasCrossed(row) THEN Becomes(s, "crossed")
                                            ELSE Ends(s)
    /\ UNCHANGED <<requests, conditionVars, form, isBlacklisted, uncounted, missed>>

(* incrementRiskCounter: one update returns the row it leaves; the limit is*)
(* checked on that row.                                                    *)
Count(s) == Counts(s, [counter EXCEPT ![call[s].category] = @ + 1])

Blacklist(s) ==
    /\ call[s].stage = "crossed"
    /\ isBlacklisted' = TRUE /\ missed' = FALSE
    /\ Ends(s)
    /\ UNCHANGED <<requests, conditionVars, form, counter, counted, uncounted>>

(* A call ends early: no customer is known, a statement fails (the error is*)
(* swallowed), or the process dies.                                        *)
EndEarly(s) ==
    /\ call[s] # Quiet
    /\ uncounted' = IF call[s].stage = "counting" /\ call[s].category = "RETURNS"
                    THEN uncounted + 1 ELSE uncounted
    /\ missed' = (missed \/ call[s].stage = "crossed")
    /\ Ends(s)
    /\ UNCHANGED <<requests, conditionVars, form, counter, isBlacklisted, counted>>

(* The merchant edits the blacklist.                                       *)
AddToBlacklist ==
    /\ isBlacklisted' = TRUE
    /\ UNCHANGED <<requests, conditionVars, form, call, counter, counted,
                   uncounted, missed>>

RemoveFromBlacklist ==
    /\ isBlacklisted' = FALSE /\ missed' = FALSE
    /\ counter' = [k \in Counted |-> 0]
    /\ UNCHANGED <<requests, conditionVars, form, call, counted, uncounted>>

-----------------------------------------------------------------------------
(* Verification.  A clerk opens a request; the form may send the revisions *)
(* it shows along (expectedRevision is optional).                          *)
OpenForm(c, r, pinned) ==
    /\ form[c] = NoForm
    /\ form' = [form EXCEPT ![c] = [request |-> r, pinned |-> pinned,
                                    seen |-> revision, shown |-> allocation]]
    /\ UNCHANGED <<requests, conditionVars, call, riskVars>>

CloseForm(c) ==
    /\ form[c] # NoForm
    /\ form' = [form EXCEPT ![c] = NoForm]
    /\ UNCHANGED <<requests, conditionVars, call, riskVars>>

(* The lines after entries are recorded, and those that really change: an  *)
(* identical retry leaves a line alone.                                    *)
After(entries) == [l \in Lines |-> IF l \in DOMAIN entries THEN entries[l]
                                                           ELSE allocation[l]]
Changed(entries) == {l \in DOMAIN entries : allocation[l] # entries[l]}

(* A plausible slip: what a line is first recorded as is not a revision.   *)
RevisionOfCorrections(l, entries) ==
    IF l \in Changed(entries) /\ allocation[l] # None THEN revision[l] + 1
                                                     ELSE revision[l]

RevisionAfter(l, entries) ==
    IF l \in Changed(entries) THEN revision[l] + 1 ELSE revision[l]

Record(entries) ==
    /\ \A l \in Changed(entries) : revision[l] < MaxRevision
    /\ revision' = [l \in Lines |-> RevisionAfter(l, entries)]
    /\ allocation' = After(entries)

(* A plausible slip: complete looks at the lines just posted.              *)
PostedComplete(entries) == \A l \in DOMAIN entries : entries[l] \in Full

Complete(entries) == \A l \in Lines : After(entries)[l] \in Full

MayStayOpen(r, entries) == Complete(entries) \/ OpenRequests \subseteq {r}

ExpectedRevision(c, entries) ==
    form[c].pinned => \A l \in Changed(entries) : revision[l] = form[c].seen[l]

(* verify: the order transaction of record with the request as its context.*)
Verify(c, entries) ==
    LET r == form[c].request IN
    /\ form[c] # NoForm
    /\ ExpectedRevision(c, entries) /\ MayStayOpen(r, entries)
    /\ Record(entries)
    /\ requests' = [requests EXCEPT
                      ![r] = IF Complete(entries) THEN "PROCESSED"
                                                  ELSE "NEED_VERIFICATION"]
    /\ form' = [form EXCEPT ![c] = NoForm]
    /\ UNCHANGED <<call, riskVars>>

(* The endpoints of the order itself: one line, all its units, no request. *)
RecordProductCondition(l, entry) ==
    /\ Record([k \in {l} |-> entry])
    /\ UNCHANGED <<requests, form, call, riskVars>>

-----------------------------------------------------------------------------
Entries == UNION {[S -> Snapshots] : S \in SUBSET Lines \ {{}}}

CallStep(s) ==
    \/ FindNoReturn(s) \/ CreateReturn(s) \/ JoinReturn(s)
    \/ \E k \in Categories : ReportRisk(s, k)
    \/ Count(s) \/ Blacklist(s) \/ EndEarly(s)

ClerkStep(c) ==
    \/ \E r \in DOMAIN requests, pinned \in BOOLEAN : OpenForm(c, r, pinned)
    \/ CloseForm(c)
    \/ \E entries \in Entries : Verify(c, entries)

ReturnsNext ==
    \/ \E s \in Calls : CallStep(s)
    \/ \E c \in Clerks : ClerkStep(c)
    \/ \E l \in Lines, entry \in Full : RecordProductCondition(l, entry)
    \/ AddToBlacklist \/ RemoveFromBlacklist

ReturnsSpec == ReturnsInit /\ [][ReturnsNext]_returnsVars

-----------------------------------------------------------------------------
(* Units nobody has looked at are on somebody's list: while a line has been*)
(* recorded in part, a return request of the order is open (verify closes a*)
(* request only when all its lines are complete, and may not reopen one    *)
(* beside another).                                                        *)
IncompleteIsOpen ==
    (\E l \in Lines : allocation[l] \in Part) => OpenRequests # {}

(* Each return counts once against the customer: the returns counted, about*)
(* to be counted, and never counted are the requests there are, whoever won*)
(* the race to create them.                                                *)
ReturnsCountedOnce ==
    Cardinality({s \in Calls : call[s].stage = "counting"
                               /\ call[s].category = "RETURNS"})
        + counted + uncounted = Len(requests)

(* Nobody's correction is overwritten unseen: a clerk who posts with the   *)
(* expected revisions replaces only what the form showed.                  *)
NoLostCorrection ==
    [][\A c \in Clerks, l \in Lines :
          form[c].pinned /\ form'[c] = NoForm /\ allocation'[l] # allocation[l]
          => allocation[l] = form[c].shown[l]]_returnsVars
=============================================================================
