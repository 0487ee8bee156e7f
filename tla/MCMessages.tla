----------------------------- MODULE MCMessages -----------------------------
(* Small instances of WhatsApp and OwnerAlerts for TLC, in one run.  The   *)
(* two share no state; each behaviour shows the calls of one scene: the    *)
(* messages to customers, overlapping evaluations of the owner's stock, or *)
(* one evaluation at a time with overlapping deliveries of her alerts.     *)
EXTENDS WhatsApp, OwnerAlerts

AddOrTake == {-1, 1}
OneType == <<"LOW_STOCK">>

VARIABLE scene      \* the calls that take part

vars == <<whatsAppVars, alertVars, scene>>

Customers == Runs \cup Hooks
OneEvaluation == {CHOOSE e \in Evaluations : TRUE}

MessagesInit ==
    /\ scene \in {Customers, Evaluations, OneEvaluation \cup Deliveries}
    /\ WhatsAppInit /\ AlertsInit
    /\ scene # Customers => price = OpeningBalance
    /\ scene # Evaluations => level = "OK"

OfCustomers(Step1) == scene = Customers /\ Step1 /\ UNCHANGED <<alertVars, scene>>
OfOwner(Step1) == scene # Customers /\ Step1 /\ UNCHANGED <<whatsAppVars, scene>>

MessagesNext ==
    \/ OfCustomers(WhatsAppNext)
    \/ OfOwner(\E to \in Levels : StockMoves(to))
    \/ OfOwner(\E e \in scene \cap Evaluations : EvaluationStep(e))
    \/ OfOwner(\E d \in scene \cap Deliveries : DeliveryStep(d) \/ DeliveryFails(d))
    \/ scene # Evaluations
       /\ OfOwner(\/ \E e \in OneEvaluation : EvaluationFails(e)
                  \/ \E n \in Notices : AlertGrowsOld(n))

(* KeepsRunning and KeepsAlerting, each in its scene.                      *)
KeepsWorking ==
    /\ \A m \in Messages : WF_vars(OfCustomers(GrowOld(m)))
    /\ \A r \in Runs :
           /\ WF_vars(OfCustomers(RunStep(r)))
           /\ SF_vars(OfCustomers(RecoverFinish(r)))
           /\ \A m \in Messages : SF_vars(OfCustomers(RecoverRefund(r, m)))
    /\ \A e \in Evaluations : WF_vars(OfOwner(e \in scene /\ EvaluationStep(e)))

FairMessagesSpec == MessagesInit /\ [][MessagesNext]_vars /\ KeepsWorking
=============================================================================
