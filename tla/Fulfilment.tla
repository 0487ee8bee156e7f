----------------------------- MODULE Fulfilment -----------------------------
(***************************************************************************)
(* A dispatched order from the courier's outcome to stock and ledger:      *)
(*   syncFromDispatchId and syncFromDispatchIdLocked in                    *)
(*   src/ecommerce/ecommerce-order-financial.service.ts, and record in     *)
(*   src/ecommerce/order-condition.service.ts                              *)
(* composing OrderStock and OrderLedger.  Courier calls store a new status *)
(* and then, in another transaction or never, a sync books whatever status *)
(* is stored by then: ledger first, then the lines' stock.  A scan of      *)
(* returned units moves stock and books the loss in one transaction.       *)
(***************************************************************************)
EXTENDS OrderStock, OrderLedger

CONSTANTS
    UnitCost,    \* purchase cost of a unit of an item
    Corrections  \* what may happen to a stored outcome: pairs of outcomes

ASSUME FulfilmentAssumption ==
    /\ LedgerOrders = Orders /\ LedgerLines = Lines
    /\ IsFiniteSet(Items) /\ IsFiniteSet(Lines)
    /\ UnitCost \in [Items -> Int]
    /\ Corrections \subseteq Outcomes \X Outcomes

VARIABLES
    ship,       \* the outcome the stored shipment of an order shows
    reinstated  \* orders whose last sync reinstated their revenue, and that
                \* no scan has touched since (history)

fulfilmentVars == <<stockVars, ledgerVars, ship, reinstated>>

FulfilmentInit ==
    /\ StockInit /\ LedgerInit
    /\ ship = [o \in Orders |-> "none"]
    /\ reinstated = {}

(* A webhook or page sync stores what the courier says.                    *)
StoreOutcome(o, s) ==
    /\ <<ship[o], s>> \in Corrections
    /\ ship' = [ship EXCEPT ![o] = s]
    /\ UNCHANGED <<stockVars, ledgerVars, reinstated>>

(* A plausible slip: the ledger follows the shipment, the stock only the   *)
(* first outcome.                                                          *)
StockOfFirstOutcome(o, price, fee) ==
    /\ Idle /\ UNCHANGED ship
    /\ \/ /\ ship[o] = "delivered"
          /\ BookDelivered(o, price, fee)
          /\ IF carrier[o] \in {"none", "delivered"} THEN Begin(o, "deliver", {})
             ELSE UNCHANGED stockVars
       \/ ship[o] = "cancelled" /\ BookCancelled(o) /\ Begin(o, "release", {})
       \/ ship[o] = "refused" /\ BookRefused(o, fee) /\ Begin(o, "release", {})
    /\ reinstated' = (IF reinstatements'[o] = reinstatements[o]
                      THEN reinstated \ {o} ELSE reinstated \cup {o})

(* syncFromDispatchIdLocked: the ledger first; then deliverOrder or        *)
(* releaseOrder goes through the lines (DeliverLine, ReleaseLine).         *)
SyncOrder(o, price, fee) ==
    /\ Idle /\ UNCHANGED ship
    /\ \/ ship[o] = "delivered" /\ BookDelivered(o, price, fee)
                                /\ Begin(o, "deliver", {})
       \/ ship[o] = "cancelled" /\ BookCancelled(o) /\ Begin(o, "release", {})
       \/ ship[o] = "refused" /\ BookRefused(o, fee) /\ Begin(o, "release", {})
    /\ reinstated' = (IF reinstatements'[o] = reinstatements[o]
                      THEN reinstated \ {o} ELSE reinstated \cup {o})

(* Damaged and lost units lose their purchase cost.                        *)
LossOf(a) ==
    SumFunctionOnSet([i \in Items |-> UnitCost[i] * (a[i].damaged + a[i].lost)], Items)

record(l, a) ==
    /\ RecordCondition(l, a)
    /\ setLineLoss(OrderOf[l], l, LossOf(a))
    /\ reinstated' = reinstated \ {OrderOf[l]}
    /\ UNCHANGED ship

StockStep ==
    /\ \/ \E l \in Lines : DeliverLine(l) \/ ReleaseLine(l)
       \/ \E o \in Orders : \/ LoadReservation(o)
                            \/ \E u \in resv[o].left : ReserveMove(o, u)
                            \/ \E l \in resv[o].todo : SetReserved(o, l)
                            \/ AbortReservation(o)
    /\ UNCHANGED <<ledgerVars, ship, reinstated>>

FulfilmentNext ==
    \/ \E o \in Orders, s \in Outcomes : StoreOutcome(o, s)
    \/ \E o \in Orders, price \in Prices, fee \in Fees : SyncOrder(o, price, fee)
    \/ \E l \in Scanned : \E a \in Allocations(recipe[l]) : record(l, a)
    \/ StockStep

FulfilmentSpec == FulfilmentInit /\ [][FulfilmentNext]_fulfilmentVars

-----------------------------------------------------------------------------
(***************************************************************************)
(* Properties.                                                             *)
(***************************************************************************)

Sold(l) == recognized[OrderOf[l]].booked

(* Between transactions a line's units have been deducted exactly when its *)
(* order's revenue has been recognized: no reordering of courier outcomes, *)
(* no repeated sync and no reservation that comes too late lets revenue    *)
(* and goods part.  (The instance has stock enough for every line.)        *)
SoldIffDeducted ==
    Idle => \A l \in Lines, i \in Items :
        journal[l][i].taken =
            IF Sold(l) THEN recipe[l][i].product + recipe[l][i].gift
                            + recipe[l][i].packaging
            ELSE 0

(* The damage booked for an order is the loss of what the latest scans of  *)
(* its lines recorded, whatever was recorded before and whatever the       *)
(* courier reported in between.                                            *)
DamageFollowsScans ==
    \A o \in Orders :
        book[o].damageCost =
            SumFunctionOnSet([l \in Lines |-> LossOf(alloc[l])], LinesOf(o))

(* What the comment of syncStock says: stock and ledger follow the same    *)
(* carrier outcome.  Once a delivery after a return has reinstated the     *)
(* revenue, the units are out of stock again too, also those that a scan   *)
(* had put back on the shelf.                                              *)
StockFollowsLedger ==
    Idle => \A l \in Lines, i \in Items :
        OrderOf[l] \in reinstated
            => journal[l][i].taken - journal[l][i].retOnHand
                   >= recipe[l][i].product
=============================================================================
