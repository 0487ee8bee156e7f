---------------------------- MODULE OrderStock ----------------------------
(***************************************************************************)
(* Order-driven stock: src/ecommerce/order-stock.service.ts, the stock     *)
(* half of src/ecommerce/order-condition.service.ts, and the manual stock  *)
(* operations of src/warehouse/inventory.service.ts that run beside them.  *)
(*                                                                         *)
(* A courier or timeline sync (deliver, release), an Ameex progress event  *)
(* (reserve) and a warehouse scan run inside withOrderTransaction: they    *)
(* lock the order, are Serializable, and leave nothing behind when they    *)
(* abort.  Such a transaction is a sequence of line steps during which     *)
(* nothing else moves (txn.todo is not empty).  The reservation made by a  *)
(* dispatch is NOT in a transaction: it loads the order once, and then     *)
(* every movement and every status update is a step of its own.            *)
(*                                                                         *)
(* An InventoryMovement is kept as what the code reads back of it: the     *)
(* sums per line and item that netReserved, netReturned and                *)
(* orphanReservations aggregate, and the idempotency keys already used.    *)
(***************************************************************************)
EXTENDS StockRules, FiniteSets

CONSTANTS
    Items,          \* inventory items
    Orders,         \* orders
    Lines,          \* order lines
    OrderOf,        \* the order of a line
    Recipes,        \* what a line may expand to: per item, units by role
    OpeningStock,   \* on-hand stock of each item at the start
    AdjustBuckets,  \* buckets merchants adjust by hand
    Deltas,         \* sizes of manual adjustments
    Counts,         \* quantities a merchant may count and set
    Reservers,      \* orders that are dispatched: reserved outside a transaction
    Scanned         \* lines whose returned units the warehouse scans

Roles == {"product", "gift", "packaging"}
Recipe == [Items -> [product : Nat, gift : Nat, packaging : Nat]]

(* A line that is not matched to a warehouse variant consumes nothing.     *)
Unmatched == [i \in Items |-> [product |-> 0, gift |-> 0, packaging |-> 0]]

ASSUME OrderStockAssumption ==
    /\ OrderOf \in [Lines -> Orders]
    /\ Recipes \subseteq Recipe
    /\ OpeningStock \in [Items -> 0 .. MaxQuantity]
    /\ AdjustBuckets \subseteq Buckets
    /\ Deltas \subseteq Int
    /\ Counts \subseteq Int
    /\ Reservers \subseteq Orders
    /\ Scanned \subseteq Lines

(* An inventory item belongs to a product variant or to a packaging        *)
(* material, never to both (InventoryItem.kind).                           *)
ASSUME ItemKindAssumption == \A i \in Items :
    \/ \A r \in Recipes : r[i].packaging = 0
    \/ \A r \in Recipes : r[i].product = 0 /\ r[i].gift = 0

VARIABLES
    bal,        \* InventoryBalance of each item
    journal,    \* what the movements of a line on an item add up to
    status,     \* EcommerceOrderLine.stockStatus
    recipe,     \* what expandOrderLine yields for the line now
    alloc,      \* conditionAllocations of a line: units per condition
    txn,        \* the open order transaction
    resv        \* the reservation a dispatch runs for an order

stockVars == <<bal, journal, status, recipe, alloc, txn, resv>>

LinesOf(o) == {l \in Lines : OrderOf[l] = o}

StockStatus == {"NULL", "RESERVED", "DELIVERED", "RELEASED"}
Keys == {"order-reserve", "order-deliver-release", "order-deliver",
         "order-packaging", "order-release"}
Entry == [res : Int, retOnHand : Int, retDamaged : Int, taken : Int,
          used : SUBSET Keys]
NoEntry == [res |-> 0, retOnHand |-> 0, retDamaged |-> 0, taken |-> 0,
            used |-> {}]
Allocation == [good : Nat, damaged : Nat, lost : Nat]
NoAllocation == [good |-> 0, damaged |-> 0, lost |-> 0]
Stages == {"none", "running", "done", "failed"}
NoReservation == [stage |-> "none", todo |-> {}, left |-> {},
                  snap |-> [l \in Lines |-> Unmatched]]
NoTxn == [op |-> "none", todo |-> {}, late |-> {}]

Idle == txn.todo = {}
Matched(l) == recipe[l] # Unmatched

-----------------------------------------------------------------------------
(***************************************************************************)
(* Movements.  A cell is the balance of an item with the journal entry of  *)
(* one line on it: every operation on a line is, item by item, a sequence  *)
(* of movements on such cells.                                             *)
(***************************************************************************)
Cell == [b : BalanceQuantities, e : Entry]
CellOf(l, i) == [b |-> bal[i], e |-> journal[l][i]]

(* The clamped part of delta, applied and recorded.                        *)
Apply(c, type, bucket, delta) ==
    LET a == clampDelta(c.b, bucket, delta)
        return == type = "RETURN"
    IN  [b |-> Shift(c.b, bucket, a),
         e |-> [res        |-> IF bucket = "reserved" THEN c.e.res + a
                               ELSE c.e.res,
                retOnHand  |-> IF return /\ bucket = "onHand"
                               THEN c.e.retOnHand + a ELSE c.e.retOnHand,
                retDamaged |-> IF return /\ bucket = "damaged"
                               THEN c.e.retDamaged + a ELSE c.e.retDamaged,
                taken      |-> IF ~return /\ bucket = "onHand"
                               THEN c.e.taken - a ELSE c.e.taken,
                used       |-> c.e.used]]

WithKey(c, key) == [b |-> c.b, e |-> [c.e EXCEPT !.used = @ \cup {key}]]

(* A plausible slip: a movement whose key exists already is applied again. *)
MoveAgain(c, type, bucket, delta, key) == Apply(c, type, bucket, delta)

(* move(): a movement whose key the item already has is skipped, and one   *)
(* whose clamped part is 0 leaves no row, hence no key, behind.            *)
move(c, type, bucket, delta, key) ==
    IF key \in c.e.used \/ clampDelta(c.b, bucket, delta) = 0
    THEN c
    ELSE WithKey(Apply(c, type, bucket, delta), key)

ReserveUnit(c, q) ==
    IF q > 0 THEN move(c, "ORDER", "reserved", q, "order-reserve") ELSE c

SettleReservation(c, key) ==
    IF c.e.res > 0 THEN move(c, "ORDER", "reserved", 0 - c.e.res, key) ELSE c

(* A plausible slip: the units are deducted before their reservation is    *)
(* settled, so they compete with it.                                       *)
DeductFirst(c, q) ==
    IF q > 0
    THEN SettleReservation(move(c, "ORDER", "onHand", 0 - q, "order-deliver"),
                           "order-deliver-release")
    ELSE c

(* One PRODUCT or GIFT unit of deliverOrder.                               *)
DeliverUnit(c, q) ==
    IF q > 0
    THEN move(SettleReservation(c, "order-deliver-release"),
              "ORDER", "onHand", 0 - q, "order-deliver")
    ELSE c

ConsumePackaging(c, q) ==
    IF q > 0 THEN move(c, "ORDER", "onHand", 0 - q, "order-packaging") ELSE c

(* An item still reserved for a RESERVED line but no longer one of its     *)
(* physical units.                                                         *)
Orphan(c, r, st) ==
    st = "RESERVED" /\ r.product = 0 /\ r.gift = 0 /\ c.e.res > 0

ReserveCell(c, r) == ReserveUnit(ReserveUnit(c, r.product), r.gift)

(* A plausible slip: reservations on items that left the product stay.     *)
DeliverCurrentOnly(c, r, st) ==
    ConsumePackaging(DeliverUnit(DeliverUnit(c, r.product), r.gift), r.packaging)

DeliverCell(c, r, st) ==
    LET d == ConsumePackaging(
                 DeliverUnit(DeliverUnit(c, r.product), r.gift), r.packaging)
    IN  IF Orphan(d, r, st) THEN DeliverUnit(d, d.e.res) ELSE d

ReleaseCell(c) == SettleReservation(c, "order-release")

(* A plausible slip: a correction moves on-hand stock before it lifts the  *)
(* damage.                                                                 *)
OnHandFirst(c, t) ==
    Apply(Apply(c, "RETURN", "onHand", t.onHand - c.e.retOnHand),
          "RETURN", "damaged", t.damaged - c.e.retDamaged)

(* reconcileReturnTargets on one item: less damage, then on-hand, then     *)
(* more damage.  Its keys carry the line's next revision, so none repeats. *)
ReconcileCell(c, t) ==
    LET dd == t.damaged - c.e.retDamaged
        less == IF dd < 0 THEN Apply(c, "RETURN", "damaged", dd) ELSE c
        moved == Apply(less, "RETURN", "onHand", t.onHand - c.e.retOnHand)
    IN  IF dd > 0 THEN Apply(moved, "RETURN", "damaged", dd) ELSE moved

(* The target record() computes for an item from the conditions of its     *)
(* units.                                                                  *)
Target(a, delivered) ==
    LET good == conditionEffects("good", delivered)
        damaged == conditionEffects("damaged", delivered)
        lost == conditionEffects("lost", delivered)
    IN  [onHand  |-> a.good * good.onHand + a.damaged * damaged.onHand
                     + a.lost * lost.onHand,
         damaged |-> a.good * good.damaged + a.damaged * damaged.damaged
                     + a.lost * lost.damaged]

-----------------------------------------------------------------------------
SetCells(l, f) ==
    /\ bal' = [i \in Items |-> f[i].b]
    /\ journal' = [journal EXCEPT ![l] = [i \in Items |-> f[i].e]]

InRange == \A i \in Items : bal'[i].onHand <= MaxQuantity

StockInit ==
    /\ bal = [i \in Items |-> [EmptyBalance EXCEPT !.onHand = OpeningStock[i]]]
    /\ journal = [l \in Lines |-> [i \in Items |-> NoEntry]]
    /\ status = [l \in Lines |-> "NULL"]
    /\ recipe \in [Lines -> Recipes]
    /\ alloc = [l \in Lines |-> [i \in Items |-> NoAllocation]]
    /\ txn = NoTxn
    /\ resv = [o \in Orders |-> NoReservation]

-----------------------------------------------------------------------------
(* Order transactions.                                                     *)

Begin(o, op, late) ==
    /\ Idle
    /\ txn' = [op |-> op, todo |-> LinesOf(o), late |-> late]
    /\ UNCHANGED <<bal, journal, status, recipe, alloc, resv>>

(* The courier reports progress of an Ameex parcel (reserveOrder inside    *)
(* the transaction).                                                       *)
BeginReserve(o) == Begin(o, "reserve", {})

(* deliverOrder.  late: the lines first synced after the delivery date a   *)
(* platform timeline reports; a courier sync passes no date.               *)
BeginDeliver(o) == \E late \in SUBSET LinesOf(o) : Begin(o, "deliver", late)

BeginRelease(o) == Begin(o, "release", {})

EndLine(l) == txn' = IF txn.todo = {l} THEN NoTxn
                     ELSE [txn EXCEPT !.todo = @ \ {l}]

SkipLine(l) ==
    /\ EndLine(l)
    /\ UNCHANGED <<bal, journal, status, recipe, alloc, resv>>

ReserveLine(l) ==
    /\ l \in txn.todo /\ txn.op = "reserve"
    /\ IF Matched(l) /\ status[l] = "NULL"
       THEN /\ SetCells(l, [i \in Items |-> ReserveCell(CellOf(l, i), recipe[l][i])])
            /\ status' = [status EXCEPT ![l] = "RESERVED"]
            /\ EndLine(l)
            /\ UNCHANGED <<recipe, alloc, resv>>
       ELSE SkipLine(l)

DeliverLine(l) ==
    /\ l \in txn.todo /\ txn.op = "deliver"
    /\ IF \/ ~Matched(l)
          \/ status[l] = "DELIVERED"
          \/ status[l] = "NULL" /\ l \in txn.late
       THEN SkipLine(l)
       ELSE /\ SetCells(l, [i \in Items |->
                   DeliverCell(CellOf(l, i), recipe[l][i], status[l])])
            /\ status' = [status EXCEPT ![l] = "DELIVERED"]
            /\ EndLine(l)
            /\ UNCHANGED <<recipe, alloc, resv>>

ReleaseLine(l) ==
    /\ l \in txn.todo /\ txn.op = "release"
    /\ IF status[l] = "RESERVED"
       THEN /\ SetCells(l, [i \in Items |-> ReleaseCell(CellOf(l, i))])
            /\ status' = [status EXCEPT ![l] = "RELEASED"]
            /\ EndLine(l)
            /\ UNCHANGED <<recipe, alloc, resv>>
       ELSE SkipLine(l)

-----------------------------------------------------------------------------
(* The reservation of a dispatched order, step by step.                    *)

PhysicalUnits(l, r) ==
    {u \in {l} \X {"product", "gift"} \X Items : r[u[3]][u[2]] > 0}

LoadReservation(o) ==
    LET load == {l \in LinesOf(o) : Matched(l) /\ status[l] = "NULL"}
    IN  /\ Idle /\ o \in Reservers /\ resv[o].stage = "none"
        /\ resv' = [resv EXCEPT ![o] =
               [stage |-> IF load = {} THEN "done" ELSE "running",
                todo  |-> load,
                left  |-> UNION {PhysicalUnits(l, recipe[l]) : l \in load},
                snap  |-> [l \in Lines |-> IF l \in load THEN recipe[l]
                                           ELSE Unmatched]]]
        /\ UNCHANGED <<bal, journal, status, recipe, alloc, txn>>

(* Lines are taken one after the other, product units before gift units.   *)
NextUnit(o, u) ==
    /\ u \in resv[o].left
    /\ \A m \in resv[o].todo \ {u[1]} :
           PhysicalUnits(m, resv[o].snap[m]) \subseteq resv[o].left
    /\ u[2] = "gift" =>
           ~ \E v \in resv[o].left : v[1] = u[1] /\ v[2] = "product"

ReserveMove(o, u) ==
    /\ Idle /\ resv[o].stage = "running" /\ NextUnit(o, u)
    /\ LET l == u[1]
           c == ReserveUnit(CellOf(l, u[3]), resv[o].snap[l][u[3]][u[2]])
       IN  /\ bal' = [bal EXCEPT ![u[3]] = c.b]
           /\ journal' = [journal EXCEPT ![l][u[3]] = c.e]
    /\ resv' = [resv EXCEPT ![o].left = @ \ {u}]
    /\ UNCHANGED <<status, recipe, alloc, txn>>

SetReserved(o, l) ==
    /\ Idle /\ resv[o].stage = "running" /\ l \in resv[o].todo
    /\ PhysicalUnits(l, resv[o].snap[l]) \cap resv[o].left = {}
    /\ status' = [status EXCEPT ![l] = "RESERVED"]
    /\ resv' = [resv EXCEPT ![o] =
           IF resv[o].todo = {l} THEN [NoReservation EXCEPT !.stage = "done"]
           ELSE [resv[o] EXCEPT !.todo = resv[o].todo \ {l}]]
    /\ UNCHANGED <<bal, journal, recipe, alloc, txn>>

(* A movement gave up after three write conflicts, or the process died;    *)
(* the dispatch logs the failure and nobody resumes the reservation.       *)
AbortReservation(o) ==
    /\ Idle /\ resv[o].stage = "running"
    /\ resv' = [resv EXCEPT ![o] = [NoReservation EXCEPT !.stage = "failed"]]
    /\ UNCHANGED <<bal, journal, status, recipe, alloc, txn>>

-----------------------------------------------------------------------------
(* A warehouse scan records the condition of a line's returned units.  An  *)
(* identical repeat changes nothing.  A balance beyond the column aborts.  *)
Splits(n) == {s \in [good : 0 .. n, damaged : 0 .. n, lost : 0 .. n] :
                 s.good + s.damaged + s.lost <= n}

Allocations(r) ==
    {a \in [Items -> UNION {Splits(r[i].product) : i \in Items}] :
        /\ \A i \in Items : a[i] \in Splits(r[i].product)
        /\ a # [i \in Items |-> NoAllocation]}

ReleasedCell(l, i) == IF status[l] = "RESERVED" THEN ReleaseCell(CellOf(l, i))
                      ELSE CellOf(l, i)

RecordCondition(l, a) ==
    /\ Idle /\ a # alloc[l]
    /\ SetCells(l, [i \in Items |->
           ReconcileCell(ReleasedCell(l, i),
                         Target(a[i], status[l] = "DELIVERED"))])
    /\ InRange
    /\ status' = [status EXCEPT ![l] = IF status[l] = "RESERVED"
                                       THEN "RELEASED" ELSE status[l]]
    /\ alloc' = [alloc EXCEPT ![l] = a]
    /\ UNCHANGED <<recipe, txn, resv>>

-----------------------------------------------------------------------------
(* Manual stock operations, and catalogue edits.                           *)

SetBalance(i, b) ==
    /\ Idle /\ ValidBalance(b)
    /\ bal' = [bal EXCEPT ![i] = b]
    /\ UNCHANGED <<journal, status, recipe, alloc, txn, resv>>

adjust(i, bucket, delta) == SetBalance(i, Shift(bal[i], bucket, delta))

setOnHand(i, q) ==
    SetBalance(i, Shift(bal[i], "onHand", q - bal[i].onHand))

(* The merchant edits the product, its gift or packaging, a bundle, or the *)
(* platform changes the line.                                              *)
EditRecipe(l, r) ==
    /\ Idle /\ recipe[l] # r
    /\ recipe' = [recipe EXCEPT ![l] = r]
    /\ UNCHANGED <<bal, journal, status, alloc, txn, resv>>

StockNext ==
    \/ \E o \in Orders : BeginReserve(o) \/ BeginDeliver(o) \/ BeginRelease(o)
    \/ \E l \in Lines : ReserveLine(l) \/ DeliverLine(l) \/ ReleaseLine(l)
    \/ \E o \in Orders : \/ LoadReservation(o)
                         \/ \E u \in resv[o].left : ReserveMove(o, u)
                         \/ \E l \in resv[o].todo : SetReserved(o, l)
                         \/ AbortReservation(o)
    \/ \E l \in Scanned : \E a \in Allocations(recipe[l]) : RecordCondition(l, a)
    \/ \E i \in Items, bucket \in AdjustBuckets, d \in Deltas : adjust(i, bucket, d)
    \/ \E i \in Items, q \in Counts : setOnHand(i, q)
    \/ \E l \in Lines, r \in Recipes : EditRecipe(l, r)

StockSpec == StockInit /\ [][StockNext]_stockVars

-----------------------------------------------------------------------------
(***************************************************************************)
(* Properties.                                                             *)
(***************************************************************************)

(* Type invariant.  No bucket of a balance and no net reservation of a     *)
(* line is ever negative, whatever order syncs, reservations, scans and    *)
(* manual adjustments come in.                                             *)
StockTypeOK ==
    /\ bal \in [Items -> [onHand : Nat, reserved : Nat, damaged : Nat]]
    /\ journal \in [Lines -> [Items -> [res : Nat, retOnHand : Int,
                        retDamaged : Int, taken : Nat, used : SUBSET Keys]]]
    /\ status \in [Lines -> StockStatus]
    /\ recipe \in [Lines -> Recipes]
    /\ alloc \in [Lines -> [Items -> Allocation]]
    /\ txn \in [op : {"none", "reserve", "deliver", "release"},
                todo : SUBSET Lines, late : SUBSET Lines]
    /\ resv \in [Orders -> [stage : Stages, todo : SUBSET Lines,
                            left : SUBSET (Lines \X Roles \X Items),
                            snap : [Lines -> Recipes \cup {Unmatched}]]]

(* Every balance passes validateBalance in every state: although order     *)
(* flows never call it and only clamp, no interleaving of them with        *)
(* manual adjustments over-commits an item.                                *)
BalanceValid == \A i \in Items : ValidBalance(bal[i])

(* A line that releaseOrder, deliverOrder or a scan has settled holds no   *)
(* reservation any more, also on items that left its product after the     *)
(* reservation (orphanReservations); unless a dispatch is still reserving  *)
(* for it or gave up doing so, and provided nobody adjusts the reserved    *)
(* bucket by hand.                                                         *)
SettledLineHoldsNothing ==
    \A l \in Lines, i \in Items :
        /\ status[l] \in {"DELIVERED", "RELEASED"}
        /\ resv[OrderOf[l]].stage \notin {"running", "failed"}
        => journal[l][i].res = 0

(* The reservation keys make a dispatch and an Ameex event that reserve    *)
(* the same line together claim no more than the line asks for once.       *)
NoDoubleReservation ==
    \A l \in Lines, i \in Items : \E r \in Recipes :
        journal[l][i].res <= r[i].product + r[i].gift

(* What deliverOrder took of an item for a line it never takes again, also *)
(* when a late reservation overwrote DELIVERED and the delivery runs a     *)
(* second time.                                                            *)
DeductedOnce ==
    [][\A l \in Lines, i \in Items : journal[l][i].taken > 0
            => journal'[l][i].taken = journal[l][i].taken]_stockVars

(* The promise of a reservation: the delivery of a line whose units are    *)
(* all reserved deducts all of them, even when every other unit in stock   *)
(* is reserved for others or damaged.                                      *)
ReservedDeliveryNeverShort ==
    [][\A l \in Lines, i \in Items :
        LET r == recipe[l][i] IN
            /\ status[l] # "DELIVERED" /\ status'[l] = "DELIVERED"
            /\ r.product > 0 /\ r.gift = 0 /\ r.packaging = 0
            /\ journal[l][i].res >= r.product /\ journal[l][i].taken = 0
            => journal'[l][i].taken = r.product]_stockVars

(* Where the balance a scan asks for is valid, the scan reaches its target. *)
AppliedInFull(l, i, t) ==
    LET c == ReleasedCell(l, i)
        wanted == Shift(Shift(c.b, "onHand", t.onHand - c.e.retOnHand),
                        "damaged", t.damaged - c.e.retDamaged)
    IN  ValidBalance(wanted) => /\ journal'[l][i].retOnHand = t.onHand
                                /\ journal'[l][i].retDamaged = t.damaged

(* A recorded condition, first or correction, is applied in full whenever  *)
(* the balance it asks for is valid: the order in which                    *)
(* reconcileReturnTargets moves the buckets never makes the clamp bite.    *)
CorrectionAppliedInFull ==
    [][\A l \in Lines, i \in Items : alloc'[l] # alloc[l] =>
           AppliedInFull(l, i, Target(alloc'[l][i], status[l] = "DELIVERED"))
      ]_stockVars
=============================================================================
