---------------------------- MODULE OrderLedger ----------------------------
(***************************************************************************)
(* The financial ledger of orders:                                         *)
(*   src/ecommerce/ecommerce-order-financial.service.ts                    *)
(*                                                                         *)
(* Financial events are only ever appended.  The code finds them again by  *)
(* idempotency key and by "latest of a type", so an order keeps: the       *)
(* recognition event, how many reversals and reinstatements there are      *)
(* (numbered in creation order), which reinstatement a reversal is keyed   *)
(* by (0: the fixed first key) and which reversal a reinstatement is keyed *)
(* by, the shipping loss, and the loss booked per line.  book is what      *)
(* getSummary adds up over all events of the order.                        *)
(*                                                                         *)
(* Every operation runs inside withOrderTransaction: one step.             *)
(***************************************************************************)
EXTENDS Integers, FiniteSetsExt

CONSTANTS
    LedgerOrders,   \* orders
    LedgerLines,    \* order lines
    Prices,         \* what a delivery may be worth and cost when it is booked
    Fees,           \* shipping costs: the courier's fee or the order's shipping
    Losses,         \* losses a scan may set for a line
    MaxCorrections  \* bound on the reversals of an order

Price == [revenue : Int, productCost : Int, giftCost : Int, packagingCost : Int]

ASSUME OrderLedgerAssumption ==
    /\ Prices \subseteq Price
    /\ Fees \subseteq Int /\ Losses \subseteq Int
    /\ MaxCorrections \in Nat

VARIABLES
    recognized,     \* the REVENUE_RECOGNIZED event, if there is one
    reversals,      \* number of REVENUE_REVERSED events
    reversedFor,    \* what they are keyed by
    reinstatements, \* number of REVENUE_REINSTATED events
    reinstatedFor,  \* the reversals they are keyed by
    shippingLoss,   \* the SHIPPING_LOSS event's cost, 0 without one
    lineLoss,       \* sum of the DAMAGE_LOSS events of a line
    book,           \* totals over the order's events (getSummary)
    carrier         \* the last carrier outcome booked (history)

ledgerVars == <<recognized, reversals, reversedFor, reinstatements,
                reinstatedFor, shippingLoss, lineLoss, book, carrier>>

None == [booked |-> FALSE, revenue |-> 0, productCost |-> 0, giftCost |-> 0,
         packagingCost |-> 0, shippingCost |-> 0]
Event == [booked : BOOLEAN, revenue : Int, productCost : Int, giftCost : Int,
          packagingCost : Int, shippingCost : Int]
Outcomes == {"none", "delivered", "cancelled", "refused"}

Book == [revenue : Int, productCost : Int, shippingCost : Int, damageCost : Int,
         giftCost : Int, packagingCost : Int, netProfit : Int]
EmptyBook == [revenue |-> 0, productCost |-> 0, shippingCost |-> 0,
              damageCost |-> 0, giftCost |-> 0, packagingCost |-> 0,
              netProfit |-> 0]

(* getSummary over one more event: what the event adds to each column.     *)
Add(b, e) ==
    [revenue       |-> b.revenue + e.revenue,
     productCost   |-> b.productCost + e.productCost,
     shippingCost  |-> b.shippingCost + e.shippingCost,
     damageCost    |-> b.damageCost + e.damageCost,
     giftCost      |-> b.giftCost + e.giftCost,
     packagingCost |-> b.packagingCost + e.packagingCost,
     netProfit     |-> b.netProfit + e.netProfit]

(* The rows of the two loss events.                                        *)
ShippingRow(fee) ==
    [revenue |-> 0, productCost |-> 0, shippingCost |-> fee, damageCost |-> 0,
     giftCost |-> 0, packagingCost |-> 0, netProfit |-> 0 - fee]
DamageRow(cost) ==
    [revenue |-> 0, productCost |-> 0, shippingCost |-> 0, damageCost |-> cost,
     giftCost |-> 0, packagingCost |-> 0, netProfit |-> 0 - cost]

LedgerInit ==
    /\ recognized = [o \in LedgerOrders |-> None]
    /\ reversals = [o \in LedgerOrders |-> 0]
    /\ reversedFor = [o \in LedgerOrders |-> {}]
    /\ reinstatements = [o \in LedgerOrders |-> 0]
    /\ reinstatedFor = [o \in LedgerOrders |-> {}]
    /\ shippingLoss = [o \in LedgerOrders |-> 0]
    /\ lineLoss = [o \in LedgerOrders |-> [l \in LedgerLines |-> 0]]
    /\ book = [o \in LedgerOrders |-> EmptyBook]
    /\ carrier = [o \in LedgerOrders |-> "none"]

-----------------------------------------------------------------------------
Recognition(o, price, fee) ==
    [booked |-> TRUE, revenue |-> price.revenue,
     productCost |-> price.productCost, giftCost |-> price.giftCost,
     packagingCost |-> price.packagingCost,
     shippingCost |-> IF shippingLoss[o] # 0 THEN 0 ELSE fee]

PostRecognition(o, e) ==
    /\ recognized' = [recognized EXCEPT ![o] = e]
    /\ book' = [book EXCEPT ![o] = Add(book[o],
           [revenue |-> e.revenue, productCost |-> e.productCost,
            shippingCost |-> e.shippingCost, damageCost |-> 0,
            giftCost |-> e.giftCost, packagingCost |-> e.packagingCost,
            netProfit |-> e.revenue - e.productCost - e.shippingCost
                          - e.giftCost - e.packagingCost])]
    /\ UNCHANGED <<reversals, reversedFor, reinstatements, reinstatedFor>>

PostReinstatement(o) ==
    /\ reinstatements' = [reinstatements EXCEPT ![o] = reinstatements[o] + 1]
    /\ reinstatedFor' = [reinstatedFor EXCEPT ![o] =
           reinstatedFor[o] \cup {reversals[o]}]
    /\ book' = [book EXCEPT ![o] = Add(book[o],
           [revenue |-> recognized[o].revenue,
            productCost |-> recognized[o].productCost,
            shippingCost |-> 0, damageCost |-> 0, giftCost |-> 0,
            packagingCost |-> 0,
            netProfit |-> recognized[o].revenue - recognized[o].productCost])]
    /\ UNCHANGED <<recognized, reversals, reversedFor>>

PostReversal(o, key) ==
    /\ reversals' = [reversals EXCEPT ![o] = reversals[o] + 1]
    /\ reversedFor' = [reversedFor EXCEPT ![o] = reversedFor[o] \cup {key}]
    /\ book' = [book EXCEPT ![o] = Add(book[o],
           [revenue |-> 0 - recognized[o].revenue,
            productCost |-> 0 - recognized[o].productCost,
            shippingCost |-> 0, damageCost |-> 0, giftCost |-> 0,
            packagingCost |-> 0,
            netProfit |-> recognized[o].productCost - recognized[o].revenue])]
    /\ UNCHANGED <<recognized, reinstatements, reinstatedFor>>

PostNothing ==
    UNCHANGED <<recognized, reversals, reversedFor, reinstatements,
                reinstatedFor, book>>

(* A plausible slip: any reversal in the past, reinstated or not, makes a  *)
(* repeated delivery reinstate the revenue.                                *)
ReinstateEachTime(o, price, fee) ==
    IF ~recognized[o].booked
    THEN PostRecognition(o, Recognition(o, price, fee))
    ELSE IF reversals[o] = 0 THEN PostNothing ELSE PostReinstatement(o)

(* The first delivery recognizes revenue and costs; a later one reinstates *)
(* what the latest reversal undid, once per reversal.                      *)
applyRevenueRecognition(o, price, fee) ==
    IF ~recognized[o].booked
    THEN PostRecognition(o, Recognition(o, price, fee))
    ELSE IF reversals[o] = 0 \/ reversals[o] \in reinstatedFor[o]
         THEN PostNothing
         ELSE PostReinstatement(o)

(* The first reversal has a fixed key, a later one the key of the latest   *)
(* reinstatement; nothing is reversed that was never recognized.           *)
applyRevenueReversal(o) ==
    LET key == IF 0 \notin reversedFor[o] THEN 0 ELSE reinstatements[o]
    IN  IF key \in reversedFor[o] \/ ~recognized[o].booked
        THEN PostNothing
        ELSE PostReversal(o, key)

-----------------------------------------------------------------------------
(* A carrier outcome, as syncFromDispatchIdLocked and                      *)
(* syncFromTimelineEvents book it.                                         *)
BookDelivered(o, price, fee) ==
    /\ applyRevenueRecognition(o, price, fee)
    /\ carrier' = [carrier EXCEPT ![o] = "delivered"]
    /\ UNCHANGED <<shippingLoss, lineLoss>>

BookCancelled(o) ==
    /\ reversals[o] < MaxCorrections
    /\ applyRevenueReversal(o)
    /\ carrier' = [carrier EXCEPT ![o] = "cancelled"]
    /\ UNCHANGED <<shippingLoss, lineLoss>>

(* A refused or returned parcel: the reversal, if there is something to    *)
(* reverse, and otherwise the shipping that was paid in vain, once.        *)
BookRefused(o, fee) ==
    /\ reversals[o] < MaxCorrections
    /\ carrier' = [carrier EXCEPT ![o] = "refused"]
    /\ UNCHANGED lineLoss
    /\ \/ /\ recognized[o].booked \/ shippingLoss[o] # 0 \/ fee <= 0
          /\ applyRevenueReversal(o)
          /\ UNCHANGED shippingLoss
       \/ /\ ~recognized[o].booked /\ shippingLoss[o] = 0 /\ fee > 0
          /\ shippingLoss' = [shippingLoss EXCEPT ![o] = fee]
          /\ book' = [book EXCEPT ![o] =
                 Add(book[o], ShippingRow(fee))]
          /\ UNCHANGED <<recognized, reversals, reversedFor, reinstatements,
                         reinstatedFor>>

(* A plausible slip: a correction books its loss on top of the earlier one. *)
StackLoss(o, l, target) ==
    /\ lineLoss' = [lineLoss EXCEPT ![o][l] = target]
    /\ book' = [book EXCEPT ![o] =
           Add(book[o], DamageRow(target))]
    /\ UNCHANGED <<recognized, reversals, reversedFor, reinstatements,
                   reinstatedFor, shippingLoss, carrier>>

(* A scan brings the booked loss of a line to its target by booking the    *)
(* difference.                                                             *)
setLineLoss(o, l, target) ==
    LET delta == target - lineLoss[o][l]
    IN  /\ lineLoss' = [lineLoss EXCEPT ![o][l] = lineLoss[o][l] + delta]
        /\ book' = [book EXCEPT ![o] =
               Add(book[o], DamageRow(delta))]
        /\ UNCHANGED <<recognized, reversals, reversedFor, reinstatements,
                       reinstatedFor, shippingLoss, carrier>>

LedgerNext ==
    \E o \in LedgerOrders :
        \/ \E price \in Prices, fee \in Fees : BookDelivered(o, price, fee)
        \/ BookCancelled(o)
        \/ \E fee \in Fees : BookRefused(o, fee)
        \/ \E l \in LedgerLines, target \in Losses : setLineLoss(o, l, target)

LedgerSpec == LedgerInit /\ [][LedgerNext]_ledgerVars

-----------------------------------------------------------------------------
(***************************************************************************)
(* Properties.                                                             *)
(***************************************************************************)

(* Type invariant.                                                         *)
LedgerTypeOK ==
    /\ recognized \in [LedgerOrders -> Event]
    /\ reversals \in [LedgerOrders -> Nat]
    /\ reversedFor \in [LedgerOrders -> SUBSET Nat]
    /\ reinstatements \in [LedgerOrders -> Nat]
    /\ reinstatedFor \in [LedgerOrders -> SUBSET Nat]
    /\ shippingLoss \in [LedgerOrders -> Nat]
    /\ lineLoss \in [LedgerOrders -> [LedgerLines -> Int]]
    /\ book \in [LedgerOrders -> Book]
    /\ carrier \in [LedgerOrders -> Outcomes]

(* Reversals and reinstatements alternate, starting with a reversal of     *)
(* something recognized: "latest of a type" and the keys built from it     *)
(* never let a repeated or reordered courier outcome book one twice.       *)
CorrectionsAlternate ==
    \A o \in LedgerOrders :
        /\ reinstatements[o] <= reversals[o]
        /\ reversals[o] <= reinstatements[o] + 1
        /\ reversals[o] > 0 => recognized[o].booked

(* The revenue and the product cost the summary shows are those of the     *)
(* last courier outcome booked, however often couriers changed their mind: *)
(* the recognized ones after a delivery, none after a failure.             *)
RevenueFollowsCarrier ==
    \A o \in LedgerOrders :
        LET delivered == carrier[o] = "delivered"
        IN  /\ delivered => recognized[o].booked
            /\ book[o].revenue =
                   IF delivered THEN recognized[o].revenue ELSE 0
            /\ book[o].productCost =
                   IF delivered THEN recognized[o].productCost ELSE 0

(* The columns of the summary add up to its net profit, although each      *)
(* event stores its own net impact and getSummary signs columns by type.   *)
ProfitAddsUp ==
    \A o \in LedgerOrders :
        LET b == book[o]
        IN  b.netProfit = b.revenue - b.productCost - b.shippingCost
                          - b.damageCost - b.giftCost - b.packagingCost

(* Shipping is charged once per parcel: as a loss when a failure was       *)
(* reported first, and otherwise with the recognition; a reversal and a    *)
(* reinstatement neither refund nor repeat it.  The same holds for gift    *)
(* and packaging.                                                          *)
CostsChargedOnce ==
    \A o \in LedgerOrders :
        /\ book[o].shippingCost = IF shippingLoss[o] # 0 THEN shippingLoss[o]
                                  ELSE recognized[o].shippingCost
        /\ book[o].giftCost = recognized[o].giftCost
        /\ book[o].packagingCost = recognized[o].packagingCost

(* The recognition of an order is booked once and never rewritten: not by  *)
(* a second delivery with other prices or another courier fee.             *)
RecognitionIsFinal ==
    [][\A o \in LedgerOrders : recognized[o].booked
            => recognized'[o] = recognized[o]]_ledgerVars
=============================================================================
