-------------------------- MODULE FulfilmentProofs ---------------------------
(***************************************************************************)
(* Theorems about orders from the reservation of their stock to the        *)
(* courier's outcome, in three parts.                                      *)
(*                                                                         *)
(* OrderStock, for every set of items, orders and lines: no bucket goes    *)
(* negative or is over-committed, nothing is reserved or deducted twice,   *)
(* settled lines hold nothing, and corrections are applied in full.        *)
(*                                                                         *)
(* OrderLedger, for every set of orders, prices and fees: corrections      *)
(* alternate, and the summary shows the last outcome.                      *)
(*                                                                         *)
(* Fulfilment, which composes them: all of that holds of the composition,  *)
(* and revenue, units and damage follow each other.                        *)
(***************************************************************************)
EXTENDS Fulfilment, SumTheorems, FiniteSetTheorems, TLAPS

NatBalance == [onHand : Nat, reserved : Nat, damaged : Nat]
NatEntry == [res : Nat, retOnHand : Int, retDamaged : Int, taken : Nat,
             used : SUBSET Keys]

(* A cell no movement may spoil.                                           *)
CellOK(c) ==
    /\ c \in [b : NatBalance, e : NatEntry]
    /\ c.b.reserved + c.b.damaged <= c.b.onHand

(* d differs from the good cell c by movements that add no on-hand stock.  *)
Lowered(c, d) == CellOK(d) /\ d.b.onHand <= c.b.onHand

-----------------------------------------------------------------------------
(* A movement keeps a cell good when it returns no more reservation than   *)
(* the line holds and, unless it is a return, adds nothing on hand.        *)
LEMMA ApplyOK ==
    ASSUME NEW c, CellOK(c), NEW type, NEW bucket \in Buckets, NEW delta \in Int,
           bucket = "reserved" => c.e.res + delta >= 0,
           bucket = "onHand" /\ type # "RETURN" => delta <= 0
    PROVE  /\ CellOK(Apply(c, type, bucket, delta))
           /\ bucket # "onHand" \/ delta <= 0
                => Apply(c, type, bucket, delta).b.onHand <= c.b.onHand
  <1> DEFINE a == clampDelta(c.b, bucket, delta)
  <1>1. /\ c.b.onHand \in Nat /\ c.b.reserved \in Nat /\ c.b.damaged \in Nat
        /\ c.e.res \in Nat /\ c.e.retOnHand \in Int /\ c.e.retDamaged \in Int
        /\ c.e.taken \in Nat /\ c.e.used \in SUBSET Keys
        /\ c.b.reserved + c.b.damaged <= c.b.onHand
    BY DEF CellOK, NatBalance, NatEntry
  <1>2. CASE bucket = "onHand"
    <2>1. /\ a \in Int /\ 0 - a <= c.b.onHand - c.b.reserved - c.b.damaged
          /\ delta <= 0 => a <= 0
      BY <1>1, <1>2 DEF clampDelta, reducible, availableQuantity, Smaller, Positive
    <2> HIDE DEF a
    <2>2. QED
      BY <1>1, <1>2, <2>1
      DEF CellOK, Apply, Shift, NatBalance, NatEntry, a
  <1>3. CASE bucket = "reserved"
    <2>1. /\ a \in Int /\ 0 - a <= c.b.reserved
          /\ a <= c.b.onHand - c.b.reserved - c.b.damaged
          /\ c.e.res + a >= 0
      BY <1>1, <1>3 DEF clampDelta, reducible, availableQuantity, Smaller, Positive
    <2> HIDE DEF a
    <2>2. QED
      BY <1>1, <1>3, <2>1
      DEF CellOK, Apply, Shift, NatBalance, NatEntry, a
  <1>4. CASE bucket = "damaged"
    <2>1. /\ a \in Int /\ 0 - a <= c.b.damaged
          /\ a <= c.b.onHand - c.b.reserved - c.b.damaged
      BY <1>1, <1>4 DEF clampDelta, reducible, availableQuantity, Smaller, Positive
    <2> HIDE DEF a
    <2>2. QED
      BY <1>1, <1>4, <2>1
      DEF CellOK, Apply, Shift, NatBalance, NatEntry, a
  <1>5. QED
    BY <1>2, <1>3, <1>4 DEF Buckets

(* The same of a keyed movement of an order, which lowers the cell.        *)
LEMMA MoveOK ==
    ASSUME NEW c, CellOK(c), NEW bucket \in Buckets, NEW delta \in Int,
           NEW key \in Keys,
           bucket = "reserved" => c.e.res + delta >= 0,
           bucket = "onHand" => delta <= 0
    PROVE  Lowered(c, move(c, "ORDER", bucket, delta, key))
  <1> DEFINE d == Apply(c, "ORDER", bucket, delta)
  <1>1. CellOK(d) /\ d.b.onHand <= c.b.onHand
    BY ApplyOK
  <1> HIDE DEF d
  <1>2. Lowered(c, WithKey(d, key))
    BY <1>1 DEF Lowered, CellOK, WithKey, NatBalance, NatEntry
  <1>3. Lowered(c, c)
    BY DEF Lowered, CellOK, NatBalance
  <1>4. QED
    BY <1>2, <1>3 DEF move, d

LEMMA LoweredTrans ==
    ASSUME NEW c, CellOK(c), NEW d, Lowered(c, d), NEW e, Lowered(d, e)
    PROVE  Lowered(c, e)
  BY DEF Lowered, CellOK, NatBalance

LEMMA LoweredRefl == ASSUME NEW c, CellOK(c) PROVE Lowered(c, c)
  BY DEF Lowered, CellOK, NatBalance

LEMMA ReserveUnitOK ==
    ASSUME NEW c, CellOK(c), NEW q \in Nat
    PROVE  Lowered(c, ReserveUnit(c, q))
  <1>1. c.e.res \in Nat
    BY DEF CellOK, NatEntry
  <1>2. Lowered(c, move(c, "ORDER", "reserved", q, "order-reserve"))
    BY <1>1, MoveOK DEF Buckets, Keys
  <1>3. QED
    BY <1>2, LoweredRefl DEF ReserveUnit

LEMMA SettleReservationOK ==
    ASSUME NEW c, CellOK(c), NEW key \in Keys
    PROVE  Lowered(c, SettleReservation(c, key))
  <1>1. c.e.res \in Nat
    BY DEF CellOK, NatEntry
  <1>2. Lowered(c, move(c, "ORDER", "reserved", 0 - c.e.res, key))
    BY <1>1, MoveOK DEF Buckets
  <1>3. QED
    BY <1>2, LoweredRefl DEF SettleReservation

LEMMA DeliverUnitOK ==
    ASSUME NEW c, CellOK(c), NEW q \in Nat
    PROVE  Lowered(c, DeliverUnit(c, q))
  <1> DEFINE s == SettleReservation(c, "order-deliver-release")
  <1>1. Lowered(c, s)
    BY SettleReservationOK DEF Keys
  <1> HIDE DEF s
  <1>2. Lowered(s, move(s, "ORDER", "onHand", 0 - q, "order-deliver"))
    BY <1>1, MoveOK DEF Buckets, Keys, Lowered
  <1>3. QED
    BY <1>1, <1>2, LoweredRefl, LoweredTrans DEF DeliverUnit, s

LEMMA ConsumePackagingOK ==
    ASSUME NEW c, CellOK(c), NEW q \in Nat
    PROVE  Lowered(c, ConsumePackaging(c, q))
  <1>1. Lowered(c, move(c, "ORDER", "onHand", 0 - q, "order-packaging"))
    BY MoveOK DEF Buckets, Keys
  <1>2. QED
    BY <1>1, LoweredRefl DEF ConsumePackaging

-----------------------------------------------------------------------------
(* The operations on a line keep every cell good.                          *)
UnitCounts == [product : Nat, gift : Nat, packaging : Nat]

LEMMA ReserveCellOK ==
    ASSUME NEW c, CellOK(c), NEW r \in UnitCounts
    PROVE  Lowered(c, ReserveCell(c, r))
  <1> DEFINE d == ReserveUnit(c, r.product)
  <1>1. Lowered(c, d)
    BY ReserveUnitOK DEF UnitCounts
  <1> HIDE DEF d
  <1>2. Lowered(d, ReserveUnit(d, r.gift))
    BY <1>1, ReserveUnitOK DEF UnitCounts, Lowered
  <1>3. QED
    BY <1>1, <1>2, LoweredTrans DEF ReserveCell, d

LEMMA DeliverCellOK ==
    ASSUME NEW c, CellOK(c), NEW r \in UnitCounts, NEW st
    PROVE  Lowered(c, DeliverCell(c, r, st))
  <1> DEFINE p == DeliverUnit(c, r.product)
             g == DeliverUnit(p, r.gift)
             d == ConsumePackaging(g, r.packaging)
  <1>1. Lowered(c, p)
    BY DeliverUnitOK DEF UnitCounts
  <1>2. Lowered(c, g)
    <2> HIDE DEF p
    <2>1. Lowered(p, DeliverUnit(p, r.gift))
      BY <1>1, DeliverUnitOK DEF UnitCounts, Lowered
    <2>2. QED
      BY <1>1, <2>1, LoweredTrans
  <1>3. Lowered(c, d)
    <2> HIDE DEF g
    <2>1. Lowered(g, ConsumePackaging(g, r.packaging))
      BY <1>2, ConsumePackagingOK DEF UnitCounts, Lowered
    <2>2. QED
      BY <1>2, <2>1, LoweredTrans
  <1>4. Lowered(c, DeliverUnit(d, d.e.res))
    <2> HIDE DEF d
    <2>1. CellOK(d) /\ d.e.res \in Nat
      BY <1>3 DEF Lowered, CellOK, NatEntry
    <2>2. QED
      BY <1>3, <2>1, DeliverUnitOK, LoweredTrans
  <1>5. QED
    BY <1>3, <1>4 DEF DeliverCell

LEMMA ReleaseCellOK ==
    ASSUME NEW c, CellOK(c)
    PROVE  Lowered(c, ReleaseCell(c))
  BY SettleReservationOK DEF ReleaseCell, Keys

LEMMA TargetType ==
    ASSUME NEW a \in Allocation, NEW delivered \in BOOLEAN
    PROVE  Target(a, delivered) \in [onHand : Int, damaged : Int]
  BY DEF Allocation, Target, conditionEffects

LEMMA ReconcileCellOK ==
    ASSUME NEW c, CellOK(c), NEW t \in [onHand : Int, damaged : Int]
    PROVE  CellOK(ReconcileCell(c, t))
  <1> DEFINE dd == t.damaged - c.e.retDamaged
             less == IF dd < 0 THEN Apply(c, "RETURN", "damaged", dd) ELSE c
             moved == Apply(less, "RETURN", "onHand", t.onHand - c.e.retOnHand)
  <1>1. dd \in Int /\ t.onHand - c.e.retOnHand \in Int
    BY DEF CellOK, NatEntry
  <1>2. CellOK(less)
    BY <1>1, ApplyOK DEF Buckets
  <1>3. CellOK(moved)
    <2> HIDE DEF less
    <2>1. QED
      BY <1>1, <1>2, ApplyOK DEF Buckets
  <1>4. CellOK(Apply(moved, "RETURN", "damaged", dd))
    <2> HIDE DEF moved, dd
    <2>1. QED
      BY <1>1, <1>3, ApplyOK DEF Buckets
  <1>5. QED
    BY <1>3, <1>4 DEF ReconcileCell

-----------------------------------------------------------------------------
(* The clamp keeps a balance valid only if it was valid before, and the    *)
(* net reservation of a line stays non-negative only because settlements   *)
(* move at most what is reserved.                                          *)
StockInv == StockTypeOK /\ BalanceValid

(* In a good state every cell of a line is good.                           *)
LEMMA CellsGood ==
    ASSUME StockInv, NEW l \in Lines, NEW i \in Items
    PROVE  /\ CellOK(CellOf(l, i))
           /\ CellOf(l, i).b = bal[i] /\ CellOf(l, i).e = journal[l][i]
           /\ bal[i].onHand <= MaxQuantity
  BY DEF StockInv, StockTypeOK, BalanceValid, ValidBalance, CellOf, CellOK,
         NatBalance, NatEntry

LEMMA RecipeUnits ==
    ASSUME StockInv, OrderStockAssumption, NEW l \in Lines, NEW i \in Items
    PROVE  recipe[l][i] \in UnitCounts
  BY DEF StockInv, StockTypeOK, OrderStockAssumption, Recipe, UnitCounts

(* Writing good cells that fit the column back keeps balance and journal.  *)
LEMMA SetCellsOK ==
    ASSUME StockInv, OrderStockAssumption, MaxQuantityAssumption,
           NEW l \in Lines, NEW f, SetCells(l, f),
           \A i \in Items : CellOK(f[i]) /\ f[i].b.onHand <= MaxQuantity
    PROVE  /\ bal' \in [Items -> NatBalance]
           /\ journal' \in [Lines -> [Items -> NatEntry]]
           /\ BalanceValid'
  <1>1. bal' \in [Items -> NatBalance]
    BY DEF SetCells, CellOK
  <1>2. journal' \in [Lines -> [Items -> NatEntry]]
    BY DEF SetCells, CellOK, StockInv, StockTypeOK, NatEntry
  <1>3. ASSUME NEW i \in Items PROVE ValidBalance(bal'[i])
    <2>1. /\ bal'[i] = f[i].b /\ f[i].b \in NatBalance
          /\ f[i].b.reserved + f[i].b.damaged <= f[i].b.onHand
          /\ f[i].b.onHand <= MaxQuantity
      BY DEF SetCells, CellOK
    <2>2. QED
      BY <2>1 DEF ValidBalance, NatBalance, MaxQuantityAssumption
  <1>4. QED
    BY <1>1, <1>2, <1>3 DEF BalanceValid

(* An operation that only lowers the cells of a line fits the column.      *)
LEMMA LoweredCellsOK ==
    ASSUME StockInv, OrderStockAssumption, MaxQuantityAssumption,
           NEW l \in Lines, NEW f, SetCells(l, f),
           \A i \in Items : Lowered(CellOf(l, i), f[i])
    PROVE  /\ bal' \in [Items -> NatBalance]
           /\ journal' \in [Lines -> [Items -> NatEntry]]
           /\ BalanceValid'
  <1>1. ASSUME NEW i \in Items
        PROVE  CellOK(f[i]) /\ f[i].b.onHand <= MaxQuantity
    <2>1. /\ CellOK(f[i]) /\ f[i].b.onHand <= CellOf(l, i).b.onHand
          /\ CellOf(l, i).b.onHand <= MaxQuantity
          /\ CellOf(l, i).b.onHand \in Nat
      BY CellsGood DEF Lowered, CellOK, NatBalance
    <2>2. f[i].b.onHand \in Nat
      BY <2>1 DEF CellOK, NatBalance
    <2>3. QED
      BY <2>1, <2>2 DEF MaxQuantityAssumption
  <1>2. QED
    BY <1>1, SetCellsOK

LEMMA StockInitInv ==
    ASSUME StockInit, OrderStockAssumption, MaxQuantityAssumption
    PROVE  StockInv
  <1>1. StockTypeOK
    <2>1. bal \in [Items -> NatBalance]
      BY DEF StockInit, NatBalance, EmptyBalance, OrderStockAssumption,
             MaxQuantityAssumption
    <2>2. journal \in [Lines -> [Items -> NatEntry]]
      BY DEF StockInit, NoEntry, NatEntry
    <2>3. status \in [Lines -> StockStatus] /\ recipe \in [Lines -> Recipes]
      BY DEF StockInit, StockStatus
    <2>4. alloc \in [Lines -> [Items -> Allocation]]
      BY DEF StockInit, NoAllocation, Allocation
    <2>5. /\ txn \in [op : {"none", "reserve", "deliver", "release"},
                      todo : SUBSET Lines, late : SUBSET Lines]
          /\ resv \in [Orders -> [stage : Stages, todo : SUBSET Lines,
                            left : SUBSET (Lines \X Roles \X Items),
                            snap : [Lines -> Recipes \cup {Unmatched}]]]
      BY DEF StockInit, NoTxn, NoReservation, Stages
    <2>6. QED
      BY <2>1, <2>2, <2>3, <2>4, <2>5 DEF StockTypeOK, NatBalance, NatEntry
  <1>2. BalanceValid
    BY DEF StockInit, BalanceValid, ValidBalance, EmptyBalance,
           OrderStockAssumption, MaxQuantityAssumption
  <1>3. QED
    BY <1>1, <1>2 DEF StockInv

(* The steps of an order transaction.                                      *)
LEMMA TransactionSteps ==
    ASSUME StockInv, OrderStockAssumption, MaxQuantityAssumption
    PROVE  /\ \A o \in Orders : BeginReserve(o) \/ BeginDeliver(o)
                                    \/ BeginRelease(o) => StockInv'
           /\ \A l \in Lines : ReserveLine(l) \/ DeliverLine(l)
                                    \/ ReleaseLine(l) => StockInv'
  <1>1. ASSUME NEW o \in Orders, NEW late \in SUBSET LinesOf(o),
               NEW op \in {"reserve", "deliver", "release"}, Begin(o, op, late)
        PROVE  StockInv'
    BY <1>1 DEF Begin, StockInv, StockTypeOK, BalanceValid, LinesOf
  <1>2. ASSUME NEW l \in Lines, SkipLine(l)
        PROVE  StockInv'
    BY <1>2 DEF SkipLine, EndLine, NoTxn, StockInv, StockTypeOK, BalanceValid
  <1>3. ASSUME NEW l \in Lines, NEW f, SetCells(l, f),
               \A i \in Items : Lowered(CellOf(l, i), f[i]),
               NEW st \in StockStatus, status' = [status EXCEPT ![l] = st],
               EndLine(l), UNCHANGED <<recipe, alloc, resv>>
        PROVE  StockInv'
    <2>1. /\ bal' \in [Items -> NatBalance]
          /\ journal' \in [Lines -> [Items -> NatEntry]]
          /\ BalanceValid'
      BY <1>3, LoweredCellsOK
    <2>2. txn' \in [op : {"none", "reserve", "deliver", "release"},
                    todo : SUBSET Lines, late : SUBSET Lines]
      BY <1>3 DEF EndLine, NoTxn, StockInv, StockTypeOK
    <2>3. status' \in [Lines -> StockStatus]
      BY <1>3 DEF StockInv, StockTypeOK
    <2>4. QED
      BY <1>3, <2>1, <2>2, <2>3
      DEF StockInv, StockTypeOK, NatBalance, NatEntry
  <1>4. ASSUME NEW l \in Lines, ReserveLine(l) PROVE StockInv'
    <2> DEFINE f == [i \in Items |-> ReserveCell(CellOf(l, i), recipe[l][i])]
    <2>1. \A i \in Items : Lowered(CellOf(l, i), f[i])
      BY CellsGood, RecipeUnits, ReserveCellOK
    <2>2. SkipLine(l) \/ /\ SetCells(l, f)
                         /\ status' = [status EXCEPT ![l] = "RESERVED"]
                         /\ EndLine(l) /\ UNCHANGED <<recipe, alloc, resv>>
      BY <1>4 DEF ReserveLine
    <2> HIDE DEF f
    <2>3. QED
      BY <2>1, <2>2, <1>2, <1>3 DEF StockStatus
  <1>5. ASSUME NEW l \in Lines, DeliverLine(l) PROVE StockInv'
    <2> DEFINE f == [i \in Items |->
                        DeliverCell(CellOf(l, i), recipe[l][i], status[l])]
    <2>1. \A i \in Items : Lowered(CellOf(l, i), f[i])
      BY CellsGood, RecipeUnits, DeliverCellOK
    <2>2. SkipLine(l) \/ /\ SetCells(l, f)
                         /\ status' = [status EXCEPT ![l] = "DELIVERED"]
                         /\ EndLine(l) /\ UNCHANGED <<recipe, alloc, resv>>
      BY <1>5 DEF DeliverLine
    <2> HIDE DEF f
    <2>3. QED
      BY <2>1, <2>2, <1>2, <1>3 DEF StockStatus
  <1>6. ASSUME NEW l \in Lines, ReleaseLine(l) PROVE StockInv'
    <2> DEFINE f == [i \in Items |-> ReleaseCell(CellOf(l, i))]
    <2>1. \A i \in Items : Lowered(CellOf(l, i), f[i])
      BY CellsGood, ReleaseCellOK
    <2>2. SkipLine(l) \/ /\ SetCells(l, f)
                         /\ status' = [status EXCEPT ![l] = "RELEASED"]
                         /\ EndLine(l) /\ UNCHANGED <<recipe, alloc, resv>>
      BY <1>6 DEF ReleaseLine
    <2> HIDE DEF f
    <2>3. QED
      BY <2>1, <2>2, <1>2, <1>3 DEF StockStatus
  <1>7. QED
    BY <1>1, <1>4, <1>5, <1>6 DEF BeginReserve, BeginDeliver, BeginRelease, LinesOf

(* The steps of a reservation outside a transaction.                       *)
LEMMA ReservationSteps ==
    ASSUME StockInv, OrderStockAssumption, MaxQuantityAssumption,
           NEW o \in Orders,
           \/ LoadReservation(o)
           \/ \E u \in resv[o].left : ReserveMove(o, u)
           \/ \E l \in resv[o].todo : SetReserved(o, l)
           \/ AbortReservation(o)
    PROVE  StockInv'
  <1> DEFINE ResvType == [stage : Stages, todo : SUBSET Lines,
                          left : SUBSET (Lines \X Roles \X Items),
                          snap : [Lines -> Recipes \cup {Unmatched}]]
  <1>1. resv \in [Orders -> ResvType]
    BY DEF StockInv, StockTypeOK
  <1>2. NoReservation \in ResvType
    BY DEF NoReservation, Stages
  <1>3. CASE LoadReservation(o)
    <2>1. resv' \in [Orders -> ResvType]
      BY <1>1, <1>3 DEF LoadReservation, LinesOf, PhysicalUnits, Roles, Stages,
                        StockInv, StockTypeOK
    <2>2. QED
      BY <1>3, <2>1 DEF LoadReservation, StockInv, StockTypeOK, BalanceValid
  <1>4. ASSUME NEW u \in resv[o].left, ReserveMove(o, u) PROVE StockInv'
    <2> DEFINE l == u[1]
               i == u[3]
               q == resv[o].snap[l][i][u[2]]
               c == ReserveUnit(CellOf(l, i), q)
    <2>1. l \in Lines /\ i \in Items /\ u[2] \in Roles
      BY <1>1
    <2>2. resv[o].snap[l][i] \in UnitCounts
      BY <1>1, <2>1 DEF OrderStockAssumption, Recipe, UnitCounts, Unmatched
    <2>3. q \in Nat
      BY <2>1, <2>2 DEF Roles, UnitCounts
    <2>4. Lowered(CellOf(l, i), c)
      <3> HIDE DEF q, l, i
      <3>1. QED
        BY <2>1, <2>3, CellsGood, ReserveUnitOK
    <2>5. bal' = [bal EXCEPT ![i] = c.b] /\ journal' = [journal EXCEPT ![l][i] = c.e]
      BY <1>4 DEF ReserveMove
    <2>6. resv' \in [Orders -> ResvType]
      BY <1>1, <1>4 DEF ReserveMove
    <2>7. /\ c.b \in NatBalance /\ c.e \in NatEntry
          /\ c.b.reserved + c.b.damaged <= c.b.onHand
          /\ c.b.onHand <= MaxQuantity
      <3> HIDE DEF c, l, i
      <3>1. /\ c.b \in NatBalance /\ c.e \in NatEntry
            /\ c.b.reserved + c.b.damaged <= c.b.onHand
            /\ c.b.onHand <= bal[i].onHand /\ bal[i].onHand <= MaxQuantity
        BY <2>1, <2>4, CellsGood DEF Lowered, CellOK
      <3>2. bal[i].onHand \in Nat
        BY <2>1 DEF StockInv, StockTypeOK
      <3>3. QED
        BY <3>1, <3>2 DEF NatBalance, MaxQuantityAssumption
    <2>8. UNCHANGED <<status, recipe, alloc, txn>>
      BY <1>4 DEF ReserveMove
    <2> HIDE DEF c, l, i
    <2>9. BalanceValid'
      BY <2>1, <2>5, <2>7
      DEF BalanceValid, ValidBalance, StockInv, StockTypeOK, NatBalance,
          MaxQuantityAssumption
    <2>10. /\ bal' \in [Items -> NatBalance]
           /\ journal' \in [Lines -> [Items -> NatEntry]]
      BY <2>1, <2>5, <2>7 DEF StockInv, StockTypeOK, NatBalance, NatEntry
    <2>11. QED
      BY <2>6, <2>8, <2>9, <2>10
      DEF StockInv, StockTypeOK, NatBalance, NatEntry
  <1>5. ASSUME NEW l \in resv[o].todo, SetReserved(o, l) PROVE StockInv'
    <2>1. resv' \in [Orders -> ResvType]
      BY <1>1, <1>2, <1>5 DEF SetReserved, Stages, NoReservation
    <2>2. status' \in [Lines -> StockStatus]
      BY <1>1, <1>5 DEF SetReserved, StockStatus, StockInv, StockTypeOK
    <2>3. QED
      BY <1>5, <2>1, <2>2 DEF SetReserved, StockInv, StockTypeOK, BalanceValid
  <1>6. CASE AbortReservation(o)
    <2>1. resv' \in [Orders -> ResvType]
      BY <1>1, <1>2, <1>6 DEF AbortReservation, Stages, NoReservation
    <2>2. QED
      BY <1>6, <2>1 DEF AbortReservation, StockInv, StockTypeOK, BalanceValid
  <1>7. QED
    BY <1>3, <1>4, <1>5, <1>6

(* A warehouse scan: the line is released first if it was reserved.        *)
LEMMA ReleasedCellOK ==
    ASSUME StockInv, NEW l \in Lines, NEW i \in Items
    PROVE  CellOK(ReleasedCell(l, i))
  BY CellsGood, ReleaseCellOK DEF ReleasedCell, Lowered

(* What record() may split a line's units into: three natural numbers.     *)
LEMMA AllocationsType ==
    ASSUME StockInv, OrderStockAssumption,
           NEW l \in Lines, NEW a \in Allocations(recipe[l])
    PROVE  a \in [Items -> Allocation]
  <1>1. ASSUME NEW i \in Items
        PROVE  a[i] \in Allocation
    <2>1. recipe[l][i].product \in Nat
      BY DEF StockInv, StockTypeOK, OrderStockAssumption, Recipe
    <2>2. \A n \in Nat : Splits(n) \subseteq Allocation
      BY DEF Splits, Allocation
    <2>3. a[i] \in Splits(recipe[l][i].product)
      BY DEF Allocations
    <2>4. QED
      BY <2>1, <2>2, <2>3
  <1>2. a = [i \in Items |-> a[i]]
    BY DEF Allocations
  <1>3. QED
    BY <1>1, <1>2

LEMMA ScanSteps ==
    ASSUME StockInv, OrderStockAssumption, MaxQuantityAssumption,
           NEW l \in Lines, NEW a \in Allocations(recipe[l]),
           RecordCondition(l, a)
    PROVE  StockInv'
  <1> DEFINE t(i) == Target(a[i], status[l] = "DELIVERED")
             f == [i \in Items |-> ReconcileCell(ReleasedCell(l, i), t(i))]
  <1>1. a \in [Items -> Allocation]
    BY AllocationsType
  <1>2. SetCells(l, f)
    BY DEF RecordCondition
  <1>3. ASSUME NEW i \in Items
        PROVE  CellOK(f[i]) /\ f[i].b.onHand <= MaxQuantity
    <2>1. t(i) \in [onHand : Int, damaged : Int]
      BY <1>1, TargetType
    <2>2. CellOK(f[i])
      <3> HIDE DEF t
      <3>1. QED
        BY <2>1, ReleasedCellOK, ReconcileCellOK
    <2>3. bal'[i] = f[i].b /\ bal'[i].onHand <= MaxQuantity
      BY <1>2 DEF SetCells, RecordCondition, InRange
    <2>4. QED
      BY <2>2, <2>3
  <1> HIDE DEF f
  <1>4. /\ bal' \in [Items -> NatBalance]
        /\ journal' \in [Lines -> [Items -> NatEntry]]
        /\ BalanceValid'
    BY <1>2, <1>3, SetCellsOK
  <1>5. /\ status' \in [Lines -> StockStatus]
        /\ alloc' \in [Lines -> [Items -> Allocation]]
    BY <1>1 DEF RecordCondition, StockStatus, StockInv, StockTypeOK
  <1>6. UNCHANGED <<recipe, txn, resv>>
    BY DEF RecordCondition
  <1>7. QED
    BY <1>4, <1>5, <1>6 DEF StockInv, StockTypeOK, NatBalance, NatEntry

(* Manual operations validate the balance they write.                      *)
LEMMA ManualSteps ==
    ASSUME StockInv, OrderStockAssumption, MaxQuantityAssumption
    PROVE  /\ \A i \in Items, bucket \in AdjustBuckets, d \in Deltas :
                  adjust(i, bucket, d) => StockInv'
           /\ \A i \in Items, q \in Counts : setOnHand(i, q) => StockInv'
           /\ \A l \in Lines, r \in Recipes : EditRecipe(l, r) => StockInv'
  <1>1. ASSUME NEW i \in Items, NEW b \in BalanceQuantities, SetBalance(i, b)
        PROVE  StockInv'
    <2>1. b \in NatBalance
      BY <1>1 DEF SetBalance, ValidBalance, BalanceQuantities, NatBalance
    <2>2. QED
      BY <1>1, <2>1
      DEF SetBalance, StockInv, StockTypeOK, BalanceValid, NatBalance
  <1>2. ASSUME NEW i \in Items, NEW bucket \in AdjustBuckets, NEW d \in Deltas
        PROVE  Shift(bal[i], bucket, d) \in BalanceQuantities
    BY DEF Shift, BalanceQuantities, OrderStockAssumption, StockInv, StockTypeOK
  <1>3. ASSUME NEW i \in Items, NEW q \in Counts
        PROVE  Shift(bal[i], "onHand", q - bal[i].onHand) \in BalanceQuantities
    BY DEF Shift, BalanceQuantities, OrderStockAssumption, StockInv, StockTypeOK
  <1>4. ASSUME NEW l \in Lines, NEW r \in Recipes, EditRecipe(l, r)
        PROVE  StockInv'
    BY <1>4 DEF EditRecipe, StockInv, StockTypeOK, BalanceValid
  <1>5. QED
    BY <1>1, <1>2, <1>3, <1>4 DEF adjust, setOnHand

LEMMA StockNextInv ==
    ASSUME StockInv, OrderStockAssumption, MaxQuantityAssumption,
           [StockNext]_stockVars
    PROVE  StockInv'
  <1>1. CASE UNCHANGED stockVars
    BY <1>1 DEF stockVars, StockInv, StockTypeOK, BalanceValid
  <1>2. CASE \/ \E o \in Orders : BeginReserve(o) \/ BeginDeliver(o)
                                                 \/ BeginRelease(o)
             \/ \E l \in Lines : ReserveLine(l) \/ DeliverLine(l)
                                                \/ ReleaseLine(l)
    BY <1>2, TransactionSteps
  <1>3. CASE \E o \in Orders : \/ LoadReservation(o)
                               \/ \E u \in resv[o].left : ReserveMove(o, u)
                               \/ \E l \in resv[o].todo : SetReserved(o, l)
                               \/ AbortReservation(o)
    BY <1>3, ReservationSteps
  <1>4. CASE \E l \in Scanned : \E a \in Allocations(recipe[l]) :
                 RecordCondition(l, a)
    BY <1>4, ScanSteps DEF OrderStockAssumption
  <1>5. CASE \/ \E i \in Items, bucket \in AdjustBuckets, d \in Deltas :
                    adjust(i, bucket, d)
             \/ \E i \in Items, q \in Counts : setOnHand(i, q)
             \/ \E l \in Lines, r \in Recipes : EditRecipe(l, r)
    BY <1>5, ManualSteps
  <1>6. QED
    BY <1>1, <1>2, <1>3, <1>4, <1>5 DEF StockNext

(* The state keeps its types: in particular no bucket of a balance and no  *)
(* net reservation of a line ever becomes negative.                        *)
THEOREM StockTypeCorrect == StockSpec => []StockTypeOK
  <1>1. StockInit => StockInv
    BY StockInitInv, OrderStockAssumption, MaxQuantityAssumption
  <1>2. StockInv /\ [StockNext]_stockVars => StockInv'
    BY StockNextInv, OrderStockAssumption, MaxQuantityAssumption
  <1>3. StockInv => StockTypeOK
    BY DEF StockInv
  <1>4. QED
    BY <1>1, <1>2, <1>3, PTL DEF StockSpec

(* Every balance passes validateBalance in every reachable state: clamped  *)
(* order movements and validated manual ones never over-commit an item.    *)
THEOREM StockBalanceValid == StockSpec => []BalanceValid
  <1>1. StockInit => StockInv
    BY StockInitInv, OrderStockAssumption, MaxQuantityAssumption
  <1>2. StockInv /\ [StockNext]_stockVars => StockInv'
    BY StockNextInv, OrderStockAssumption, MaxQuantityAssumption
  <1>3. StockInv => BalanceValid
    BY DEF StockInv
  <1>4. QED
    BY <1>1, <1>2, <1>3, PTL DEF StockSpec

-----------------------------------------------------------------------------
(* Reconciling a good cell to a target whose balance is valid reaches the  *)
(* target: lifting damage first and adding it last never meets the clamp.  *)
LEMMA ReconcileReaches ==
    ASSUME NEW c, CellOK(c), NEW t \in [onHand : Int, damaged : Int],
           ValidBalance(Shift(Shift(c.b, "onHand", t.onHand - c.e.retOnHand),
                              "damaged", t.damaged - c.e.retDamaged))
    PROVE  /\ ReconcileCell(c, t).e.retOnHand = t.onHand
           /\ ReconcileCell(c, t).e.retDamaged = t.damaged
  <1> DEFINE dd == t.damaged - c.e.retDamaged
             dh == t.onHand - c.e.retOnHand
             less == IF dd < 0 THEN Apply(c, "RETURN", "damaged", dd) ELSE c
             moved == Apply(less, "RETURN", "onHand", dh)
             more == IF dd > 0 THEN Apply(moved, "RETURN", "damaged", dd) ELSE moved
             down == IF dd < 0 THEN dd ELSE 0
  <1>1. /\ c.b.onHand \in Nat /\ c.b.reserved \in Nat /\ c.b.damaged \in Nat
        /\ c.e.retOnHand \in Int /\ c.e.retDamaged \in Int
        /\ t.onHand \in Int /\ t.damaged \in Int /\ dd \in Int /\ dh \in Int
        /\ down \in Int
    BY DEF CellOK, NatBalance, NatEntry
  <1>2. /\ c.b.damaged + dd >= 0 /\ c.b.onHand + dh >= 0
        /\ c.b.reserved + c.b.damaged + dd <= c.b.onHand + dh
        /\ c.b.reserved + c.b.damaged <= c.b.onHand
    BY <1>1 DEF ValidBalance, Shift, CellOK
  <1>3. /\ less.b.onHand = c.b.onHand /\ less.b.reserved = c.b.reserved
        /\ less.b.damaged = c.b.damaged + down
        /\ less.e.retOnHand = c.e.retOnHand
        /\ less.e.retDamaged = c.e.retDamaged + down
    <2>1. CASE dd < 0
      <3> HIDE DEF dd
      <3>1. clampDelta(c.b, "damaged", dd) = dd
        BY <1>1, <1>2, <2>1 DEF clampDelta, reducible, Smaller, Positive
      <3>2. QED
        BY <1>1, <2>1, <3>1 DEF Apply, Shift
    <2>2. CASE ~(dd < 0)
      BY <1>1, <2>2
    <2>3. QED
      BY <2>1, <2>2
  <1>4. /\ moved.b.onHand = c.b.onHand + dh /\ moved.b.reserved = c.b.reserved
        /\ moved.b.damaged = c.b.damaged + down
        /\ moved.e.retOnHand = c.e.retOnHand + dh
        /\ moved.e.retDamaged = c.e.retDamaged + down
    <2> HIDE DEF less, dh, dd
    <2>1. clampDelta(less.b, "onHand", dh) = dh
      BY <1>1, <1>2, <1>3
      DEF clampDelta, reducible, availableQuantity, Smaller, Positive
    <2>2. QED
      BY <1>1, <1>3, <2>1 DEF Apply, Shift
  <1>5. /\ more.e.retOnHand = c.e.retOnHand + dh
        /\ more.e.retDamaged = c.e.retDamaged + dd
    <2> HIDE DEF moved, dh, dd
    <2>1. dd > 0 => clampDelta(moved.b, "damaged", dd) = dd
      BY <1>1, <1>2, <1>4
      DEF clampDelta, reducible, availableQuantity, Smaller, Positive
    <2>2. QED
      BY <1>1, <1>4, <2>1 DEF Apply, Shift
  <1>6. ReconcileCell(c, t) = more
    BY DEF ReconcileCell
  <1>7. QED
    BY <1>1, <1>5, <1>6

(* Only a scan changes the conditions of a line.                           *)
LEMMA OnlyScansChangeAlloc ==
    ASSUME [StockNext]_stockVars, NEW l \in Lines, alloc'[l] # alloc[l],
           StockInv
    PROVE  \E a \in Allocations(recipe[l]) : alloc'[l] = a /\ RecordCondition(l, a)
  <1>1. PICK k \in Scanned : \E a \in Allocations(recipe[k]) : RecordCondition(k, a)
    BY DEF StockNext, stockVars, BeginReserve, BeginDeliver, BeginRelease, Begin,
           ReserveLine, DeliverLine, ReleaseLine, SkipLine, LoadReservation,
           ReserveMove, SetReserved, AbortReservation, adjust, setOnHand,
           SetBalance, EditRecipe
  <1>2. PICK a \in Allocations(recipe[k]) : RecordCondition(k, a)
    BY <1>1
  <1>3. k = l /\ alloc'[l] = a
    BY <1>2 DEF RecordCondition, StockInv, StockTypeOK
  <1>4. QED
    BY <1>2, <1>3

(* Every recorded condition, first or correction, is applied in full       *)
(* whenever the balance it asks for is valid.                              *)
THEOREM StockCorrectionAppliedInFull == StockSpec => CorrectionAppliedInFull
  <1> DEFINE Step == \A l \in Lines, i \in Items : alloc'[l] # alloc[l] =>
                AppliedInFull(l, i, Target(alloc'[l][i], status[l] = "DELIVERED"))
  <1>1. StockInit => StockInv
    BY StockInitInv, OrderStockAssumption, MaxQuantityAssumption
  <1>2. StockInv /\ [StockNext]_stockVars => StockInv'
    BY StockNextInv, OrderStockAssumption, MaxQuantityAssumption
  <1>3. ASSUME StockInv, [StockNext]_stockVars,
               NEW l \in Lines, NEW i \in Items, alloc'[l] # alloc[l]
        PROVE  AppliedInFull(l, i, Target(alloc'[l][i], status[l] = "DELIVERED"))
    <2>1. PICK a \in Allocations(recipe[l]) : alloc'[l] = a /\ RecordCondition(l, a)
      BY <1>3, OnlyScansChangeAlloc
    <2> DEFINE t == Target(a[i], status[l] = "DELIVERED")
    <2>2. t \in [onHand : Int, damaged : Int]
      <3>1. a[i] \in Allocation
        BY <1>3, <2>1, AllocationsType, OrderStockAssumption
      <3>2. QED
        BY <3>1, TargetType
    <2>3. journal'[l][i] = ReconcileCell(ReleasedCell(l, i), t).e
      BY <1>3, <2>1 DEF RecordCondition, SetCells, StockInv, StockTypeOK
    <2>4. CellOK(ReleasedCell(l, i))
      BY <1>3, ReleasedCellOK
    <2>5. alloc'[l][i] = a[i]
      BY <2>1
    <2> HIDE DEF t
    <2>6. AppliedInFull(l, i, t)
      BY <2>2, <2>3, <2>4, ReconcileReaches DEF AppliedInFull
    <2>7. QED
      BY <2>5, <2>6 DEF t
  <1>4. StockInv /\ [StockNext]_stockVars => [Step]_stockVars
    BY <1>3
  <1>5. QED
    BY <1>1, <1>2, <1>4, PTL DEF StockSpec, CorrectionAppliedInFull

-----------------------------------------------------------------------------
(***************************************************************************)
(* What the idempotency keys tell.  A movement that moved nothing leaves   *)
(* no key behind, so a key says that stock did move; it also says that the *)
(* movement is never repeated.                                             *)
(***************************************************************************)
SettleKeys == {"order-deliver-release", "order-release"}

(* What one unit's reservation, settlement and deduction do to a cell.     *)
LEMMA ReserveUnitEffect ==
    ASSUME NEW c, CellOK(c), NEW q \in Nat, NEW d, d = ReserveUnit(c, q)
    PROVE  \/ d = c
           \/ /\ "order-reserve" \notin c.e.used
              /\ d.e.res > c.e.res /\ d.e.res <= c.e.res + q
              /\ d.b.reserved - c.b.reserved = d.e.res - c.e.res
              /\ d.e.taken = c.e.taken
              /\ d.e.used = c.e.used \cup {"order-reserve"}
  <1> DEFINE a == clampDelta(c.b, "reserved", q)
  <1>1. /\ c.b.onHand \in Nat /\ c.b.reserved \in Nat /\ c.b.damaged \in Nat
        /\ c.e.res \in Nat
    BY DEF CellOK, NatBalance, NatEntry
  <1>2. a \in Nat /\ a <= q
    BY <1>1 DEF clampDelta, reducible, availableQuantity, Smaller, Positive,
                CellOK
  <1> HIDE DEF a
  <1>3. CASE q = 0 \/ "order-reserve" \in c.e.used \/ a = 0
    BY <1>3 DEF ReserveUnit, move, a
  <1>4. CASE q > 0 /\ "order-reserve" \notin c.e.used /\ a # 0
    <2>1. d = WithKey(Apply(c, "ORDER", "reserved", q), "order-reserve")
      BY <1>4 DEF ReserveUnit, move, a
    <2>2. /\ d.e.res = c.e.res + a /\ d.b.reserved = c.b.reserved + a
          /\ d.e.taken = c.e.taken
          /\ d.e.used = c.e.used \cup {"order-reserve"}
      BY <2>1 DEF WithKey, Apply, Shift, a
    <2>3. QED
      BY <1>1, <1>2, <1>4, <2>2
  <1>5. QED
    BY <1>3, <1>4

LEMMA SettleReservationEffect ==
    ASSUME NEW c, CellOK(c), NEW key \in SettleKeys,
           NEW d, d = SettleReservation(c, key)
    PROVE  /\ \/ d = c
              \/ /\ key \notin c.e.used /\ c.e.res > 0
                 /\ d.e.res < c.e.res
                 /\ d.b.reserved - c.b.reserved = d.e.res - c.e.res
                 /\ d.b.onHand = c.b.onHand /\ d.b.damaged = c.b.damaged
                 /\ d.e.taken = c.e.taken
                 /\ d.e.used = c.e.used \cup {key}
                 /\ c.e.res <= c.b.reserved => d.e.res = 0
           /\ key \notin c.e.used /\ c.e.res <= c.b.reserved => d.e.res = 0
  <1> DEFINE a == clampDelta(c.b, "reserved", 0 - c.e.res)
  <1>1. /\ c.b.onHand \in Nat /\ c.b.reserved \in Nat /\ c.b.damaged \in Nat
        /\ c.e.res \in Nat
    BY DEF CellOK, NatBalance, NatEntry
  <1>2. a \in Int /\ a <= 0 /\ c.e.res + a >= 0
        /\ (c.e.res <= c.b.reserved => a = 0 - c.e.res)
    BY <1>1 DEF clampDelta, reducible, Smaller, Positive
  <1> HIDE DEF a
  <1>3. CASE c.e.res = 0 \/ key \in c.e.used \/ a = 0
    BY <1>1, <1>2, <1>3 DEF SettleReservation, move, a
  <1>4. CASE c.e.res > 0 /\ key \notin c.e.used /\ a # 0
    <2>1. d = WithKey(Apply(c, "ORDER", "reserved", 0 - c.e.res), key)
      BY <1>4 DEF SettleReservation, move, a
    <2>2. /\ d.e.res = c.e.res + a /\ d.b.reserved = c.b.reserved + a
          /\ d.b.onHand = c.b.onHand /\ d.b.damaged = c.b.damaged
          /\ d.e.taken = c.e.taken /\ d.e.used = c.e.used \cup {key}
      BY <2>1 DEF WithKey, Apply, Shift, a
    <2>3. QED
      BY <1>1, <1>2, <1>4, <2>2
  <1>5. QED
    BY <1>1, <1>3, <1>4

(* A deduction under a key.                                                *)
LEMMA DeductionEffect ==
    ASSUME NEW c, CellOK(c), NEW delta \in Int, delta < 0, NEW key \in Keys,
           NEW d, d = move(c, "ORDER", "onHand", delta, key)
    PROVE  /\ \/ d = c
              \/ /\ key \notin c.e.used
                 /\ d.e.res = c.e.res /\ d.b.reserved = c.b.reserved
                 /\ d.e.taken > c.e.taken
                 /\ d.e.used = c.e.used \cup {key}
           /\ /\ key \notin c.e.used
              /\ c.b.onHand - c.b.reserved - c.b.damaged + delta >= 0
              => d.e.taken = c.e.taken - delta
  <1> DEFINE a == clampDelta(c.b, "onHand", delta)
  <1>1. /\ c.b.onHand \in Nat /\ c.b.reserved \in Nat /\ c.b.damaged \in Nat
        /\ c.e.res \in Nat /\ c.e.taken \in Nat
    BY DEF CellOK, NatBalance, NatEntry
  <1>2. a \in Int /\ a <= 0
        /\ (c.b.onHand - c.b.reserved - c.b.damaged + delta >= 0 => a = delta)
    BY <1>1 DEF clampDelta, reducible, availableQuantity, Smaller, Positive
  <1> HIDE DEF a
  <1>3. CASE key \in c.e.used \/ a = 0
    BY <1>1, <1>2, <1>3 DEF move, a
  <1>4. CASE key \notin c.e.used /\ a # 0
    <2>1. d = WithKey(Apply(c, "ORDER", "onHand", delta), key)
      BY <1>4 DEF move, a
    <2>2. /\ d.e.res = c.e.res /\ d.b.reserved = c.b.reserved
          /\ d.e.taken = c.e.taken - a /\ d.e.used = c.e.used \cup {key}
      BY <2>1 DEF WithKey, Apply, Shift, a
    <2>3. QED
      BY <1>1, <1>2, <1>4, <2>2
  <1>5. QED
    BY <1>1, <1>3, <1>4

(* A scan moves neither the reservation of a line nor what it took.        *)
LEMMA ReconcileKeeps ==
    ASSUME NEW c, NEW t
    PROVE  /\ ReconcileCell(c, t).e.res = c.e.res
           /\ ReconcileCell(c, t).e.taken = c.e.taken
           /\ ReconcileCell(c, t).e.used = c.e.used
           /\ ReconcileCell(c, t).b.reserved = c.b.reserved
  <1>1. ASSUME NEW x, NEW bucket \in {"onHand", "damaged"}, NEW delta
        PROVE  /\ Apply(x, "RETURN", bucket, delta).e.res = x.e.res
               /\ Apply(x, "RETURN", bucket, delta).e.taken = x.e.taken
               /\ Apply(x, "RETURN", bucket, delta).e.used = x.e.used
               /\ Apply(x, "RETURN", bucket, delta).b.reserved = x.b.reserved
    BY DEF Apply, Shift
  <1>2. QED
    BY <1>1 DEF ReconcileCell

-----------------------------------------------------------------------------
(***************************************************************************)
(* No unit is reserved or taken twice.  The inductive invariant is         *)
(* PledgeInv: a line's reservation never exceeds a recipe's units, it is   *)
(* empty until the reservation key is used, and what was taken of an item  *)
(* carries the one key under which that kind of item is taken.             *)
(***************************************************************************)
Goods(i) == \A r \in Recipes : r[i].packaging = 0

Bounded(i, e) == \E r \in Recipes : e.res <= r[i].product + r[i].gift

TakeKey(i) == IF Goods(i) THEN "order-deliver" ELSE "order-packaging"

EntryTells(i, e) ==
    /\ "order-reserve" \notin e.used => e.res = 0
    /\ "order-deliver" \in e.used => e.taken > 0
    /\ "order-packaging" \in e.used => e.taken > 0
    /\ e.taken > 0 => TakeKey(i) \in e.used

CellTells(i, c) == CellOK(c) /\ Bounded(i, c.e) /\ EntryTells(i, c.e)

(* d keeps what the cell c tells, and takes nothing where c took already.  *)
TakesOnce(i, c, d) ==
    CellTells(i, d) /\ (c.e.taken > 0 => d.e.taken = c.e.taken)

LEMMA TakesOnceRefl ==
    ASSUME NEW i, NEW c, CellTells(i, c) PROVE TakesOnce(i, c, c)
  BY DEF TakesOnce

LEMMA TakesOnceTrans ==
    ASSUME NEW i, NEW c, NEW d, NEW e, TakesOnce(i, c, d), TakesOnce(i, d, e)
    PROVE  TakesOnce(i, c, e)
  BY DEF TakesOnce

LEMMA RecipeItem ==
    ASSUME OrderStockAssumption, NEW r \in Recipes, NEW i \in Items
    PROVE  r[i] \in UnitCounts
  BY DEF OrderStockAssumption, Recipe, UnitCounts

(* A reservation that shrinks stays within what some recipe asks for.      *)
LEMMA BoundedShrinks ==
    ASSUME OrderStockAssumption, NEW i \in Items, NEW c, NEW d,
           CellOK(c), CellOK(d), d.e.res <= c.e.res, Bounded(i, c.e)
    PROVE  Bounded(i, d.e)
  <1>1. PICK r \in Recipes : c.e.res <= r[i].product + r[i].gift
    BY DEF Bounded
  <1>2. r[i] \in UnitCounts /\ c.e.res \in Nat /\ d.e.res \in Nat
    BY RecipeItem DEF CellOK, NatEntry
  <1>3. d.e.res <= r[i].product + r[i].gift
    BY <1>1, <1>2 DEF UnitCounts
  <1>4. QED
    BY <1>3 DEF Bounded

(* Packaging is never reserved.                                            *)
LEMMA PackagingUnreserved ==
    ASSUME OrderStockAssumption, ItemKindAssumption, NEW i \in Items,
           NEW c, CellTells(i, c), ~Goods(i)
    PROVE  c.e.res = 0
  <1>1. \A r \in Recipes : r[i].product = 0 /\ r[i].gift = 0
    BY DEF ItemKindAssumption, Goods
  <1>2. c.e.res <= 0 /\ c.e.res \in Nat
    BY <1>1 DEF CellTells, Bounded, CellOK, NatEntry
  <1>3. QED
    BY <1>2

LEMMA ReserveUnitTells ==
    ASSUME OrderStockAssumption, NEW i \in Items, NEW c, CellTells(i, c),
           NEW r \in Recipes, NEW q \in {r[i].product, r[i].gift}
    PROVE  TakesOnce(i, c, ReserveUnit(c, q))
  <1> DEFINE d == ReserveUnit(c, q)
  <1>1. r[i] \in UnitCounts /\ q \in Nat
    BY RecipeItem DEF UnitCounts
  <1>2. CellOK(c) /\ CellOK(d) /\ c.e.res \in Nat /\ d.e.res \in Nat
    BY <1>1, ReserveUnitOK DEF CellTells, Lowered, CellOK, NatEntry
  <1> HIDE DEF d
  <1>3. CASE d = c
    BY <1>3, TakesOnceRefl DEF d
  <1>4. CASE d # c
    <2>1. /\ "order-reserve" \notin c.e.used
          /\ d.e.res <= c.e.res + q /\ d.e.taken = c.e.taken
          /\ d.e.used = c.e.used \cup {"order-reserve"}
      BY <1>1, <1>2, <1>4, ReserveUnitEffect DEF d
    <2>2. c.e.res = 0
      BY <2>1 DEF CellTells, EntryTells
    <2>3. d.e.res <= r[i].product + r[i].gift
      BY <1>1, <1>2, <2>1, <2>2 DEF UnitCounts
    <2>4. Bounded(i, d.e)
      BY <2>3 DEF Bounded
    <2>5. EntryTells(i, d.e)
      BY <2>1 DEF CellTells, EntryTells
    <2>6. QED
      BY <1>2, <2>1, <2>4, <2>5 DEF TakesOnce, CellTells, d
  <1>5. QED
    BY <1>3, <1>4

LEMMA SettleReservationTells ==
    ASSUME OrderStockAssumption, NEW i \in Items, NEW c, CellTells(i, c),
           NEW key \in SettleKeys
    PROVE  TakesOnce(i, c, SettleReservation(c, key))
  <1> DEFINE d == SettleReservation(c, key)
  <1>1. CellOK(c) /\ CellOK(d) /\ c.e.res \in Nat /\ d.e.res \in Nat
    BY SettleReservationOK DEF CellTells, Lowered, CellOK, NatEntry,
                               SettleKeys, Keys
  <1> HIDE DEF d
  <1>2. CASE d = c
    BY <1>2, TakesOnceRefl DEF d
  <1>3. CASE d # c
    <2>1. /\ c.e.res > 0 /\ d.e.res < c.e.res /\ d.e.taken = c.e.taken
          /\ d.e.used = c.e.used \cup {key}
      BY <1>1, <1>3, SettleReservationEffect DEF d
    <2>2. Bounded(i, d.e)
      BY <1>1, <2>1, BoundedShrinks DEF CellTells
    <2>3. "order-reserve" \in c.e.used
      BY <2>1 DEF CellTells, EntryTells
    <2>4. EntryTells(i, d.e)
      BY <2>1, <2>3 DEF CellTells, EntryTells, SettleKeys
    <2>5. QED
      BY <1>1, <2>1, <2>2, <2>4 DEF TakesOnce, CellTells, d
  <1>4. QED
    BY <1>2, <1>3

(* A deduction under the key of the item's kind.                           *)
LEMMA DeductionTells ==
    ASSUME OrderStockAssumption, NEW i \in Items, NEW c, CellTells(i, c),
           NEW delta \in Int, delta < 0,
           NEW key \in Keys, key = TakeKey(i)
    PROVE  TakesOnce(i, c, move(c, "ORDER", "onHand", delta, key))
  <1> DEFINE d == move(c, "ORDER", "onHand", delta, key)
  <1>1. /\ CellOK(c) /\ CellOK(d) /\ c.e.res \in Nat /\ d.e.res \in Nat
        /\ c.e.taken \in Nat /\ d.e.taken \in Nat
    BY MoveOK DEF CellTells, Lowered, CellOK, NatEntry, Buckets
  <1> HIDE DEF d
  <1>2. CASE d = c
    BY <1>2, TakesOnceRefl DEF d
  <1>3. CASE d # c
    <2>1. /\ key \notin c.e.used /\ d.e.res = c.e.res
          /\ d.e.taken > c.e.taken /\ d.e.used = c.e.used \cup {key}
      BY <1>1, <1>3, DeductionEffect DEF d
    <2>2. c.e.taken = 0
      BY <1>1, <2>1 DEF CellTells, EntryTells
    <2>3. Bounded(i, d.e)
      BY <1>1, <2>1, BoundedShrinks DEF CellTells
    <2>4. EntryTells(i, d.e)
      BY <1>1, <2>1, <2>2 DEF CellTells, EntryTells
    <2>5. QED
      BY <1>1, <2>2, <2>3, <2>4 DEF TakesOnce, CellTells, d
  <1>4. QED
    BY <1>2, <1>3

LEMMA DeliverUnitTells ==
    ASSUME OrderStockAssumption, NEW i \in Items, NEW c, CellTells(i, c),
           NEW q \in Nat, q > 0 => Goods(i)
    PROVE  TakesOnce(i, c, DeliverUnit(c, q))
  <1> DEFINE s == SettleReservation(c, "order-deliver-release")
  <1>1. TakesOnce(i, c, s)
    BY SettleReservationTells DEF SettleKeys
  <1> HIDE DEF s
  <1>2. q > 0 => TakesOnce(i, s, move(s, "ORDER", "onHand", 0 - q, "order-deliver"))
    BY <1>1, DeductionTells DEF TakesOnce, TakeKey, Keys
  <1>3. QED
    BY <1>1, <1>2, TakesOnceRefl, TakesOnceTrans DEF DeliverUnit, s

LEMMA ConsumePackagingTells ==
    ASSUME OrderStockAssumption, NEW i \in Items, NEW c, CellTells(i, c),
           NEW q \in Nat, q > 0 => ~Goods(i)
    PROVE  TakesOnce(i, c, ConsumePackaging(c, q))
  <1>1. q > 0 => TakesOnce(i, c, move(c, "ORDER", "onHand", 0 - q, "order-packaging"))
    BY DeductionTells DEF TakeKey, Keys
  <1>2. QED
    BY <1>1, TakesOnceRefl DEF ConsumePackaging

LEMMA ReserveCellTells ==
    ASSUME OrderStockAssumption, NEW i \in Items, NEW c, CellTells(i, c),
           NEW r \in Recipes
    PROVE  TakesOnce(i, c, ReserveCell(c, r[i]))
  <1> DEFINE d == ReserveUnit(c, r[i].product)
  <1>1. TakesOnce(i, c, d)
    BY ReserveUnitTells
  <1> HIDE DEF d
  <1>2. TakesOnce(i, d, ReserveUnit(d, r[i].gift))
    BY <1>1, ReserveUnitTells DEF TakesOnce
  <1>3. QED
    BY <1>1, <1>2, TakesOnceTrans DEF ReserveCell, d

LEMMA DeliverCellTells ==
    ASSUME OrderStockAssumption, ItemKindAssumption,
           NEW i \in Items, NEW c, CellTells(i, c), NEW r \in Recipes, NEW st
    PROVE  TakesOnce(i, c, DeliverCell(c, r[i], st))
  <1> DEFINE p == DeliverUnit(c, r[i].product)
             g == DeliverUnit(p, r[i].gift)
             d == ConsumePackaging(g, r[i].packaging)
  <1>0. /\ r[i].product \in Nat /\ r[i].gift \in Nat /\ r[i].packaging \in Nat
        /\ r[i].product > 0 \/ r[i].gift > 0 => Goods(i)
        /\ r[i].packaging > 0 => ~Goods(i)
    <2>1. r[i] \in UnitCounts
      BY RecipeItem
    <2>2. QED
      BY <2>1 DEF UnitCounts, ItemKindAssumption, Goods
  <1>1. TakesOnce(i, c, p)
    BY <1>0, DeliverUnitTells
  <1>2. TakesOnce(i, c, g)
    <2> HIDE DEF p
    <2>1. TakesOnce(i, p, DeliverUnit(p, r[i].gift))
      BY <1>0, <1>1, DeliverUnitTells DEF TakesOnce
    <2>2. QED
      BY <1>1, <2>1, TakesOnceTrans
  <1>3. TakesOnce(i, c, d)
    <2> HIDE DEF g
    <2>1. TakesOnce(i, g, ConsumePackaging(g, r[i].packaging))
      BY <1>0, <1>2, ConsumePackagingTells DEF TakesOnce
    <2>2. QED
      BY <1>2, <2>1, TakesOnceTrans
  <1>4. Orphan(d, r[i], st) => TakesOnce(i, c, DeliverUnit(d, d.e.res))
    <2> HIDE DEF d
    <2>1. CellTells(i, d) /\ d.e.res \in Nat
      BY <1>3 DEF TakesOnce, CellTells, CellOK, NatEntry
    <2>2. d.e.res > 0 => Goods(i)
      BY <2>1, PackagingUnreserved
    <2>3. TakesOnce(i, d, DeliverUnit(d, d.e.res))
      BY <2>1, <2>2, DeliverUnitTells
    <2>4. QED
      BY <1>3, <2>3, TakesOnceTrans
  <1>5. QED
    BY <1>3, <1>4 DEF DeliverCell

LEMMA ReconcileCellTells ==
    ASSUME NEW i \in Items, NEW c, CellTells(i, c),
           NEW t \in [onHand : Int, damaged : Int]
    PROVE  TakesOnce(i, c, ReconcileCell(c, t))
  <1> DEFINE d == ReconcileCell(c, t)
  <1>1. CellOK(d)
    BY ReconcileCellOK DEF CellTells
  <1>2. d.e.res = c.e.res /\ d.e.taken = c.e.taken /\ d.e.used = c.e.used
    BY ReconcileKeeps
  <1> HIDE DEF d
  <1>3. QED
    BY <1>1, <1>2 DEF TakesOnce, CellTells, Bounded, EntryTells, d

-----------------------------------------------------------------------------
LeftUnits == \A o \in Orders : \A u \in resv[o].left : u[2] \in {"product", "gift"}

CellsTell == \A l \in Lines, i \in Items : CellTells(i, CellOf(l, i))

PledgeInv == StockInv /\ LeftUnits /\ CellsTell

(* What an action takes of a line and an item it has taken only once.      *)
TakenOnce == \A l \in Lines, i \in Items :
                 journal[l][i].taken > 0 => journal'[l][i].taken = journal[l][i].taken

(* An operation that rewrites the cells of one line.                       *)
LEMMA SetCellsTell ==
    ASSUME PledgeInv, NEW l \in Lines, NEW f, SetCells(l, f),
           \A i \in Items : TakesOnce(i, CellOf(l, i), f[i]),
           StockInv'
    PROVE  CellsTell' /\ TakenOnce
  <1>1. ASSUME NEW k \in Lines, NEW i \in Items, k # l
        PROVE  journal'[k][i] = journal[k][i]
    BY <1>1 DEF SetCells, PledgeInv, StockInv, StockTypeOK
  <1>2. ASSUME NEW i \in Items
        PROVE  journal'[l][i] = f[i].e
    BY DEF SetCells, PledgeInv, StockInv, StockTypeOK
  <1>3. ASSUME NEW k \in Lines, NEW i \in Items
        PROVE  /\ Bounded(i, journal'[k][i]) /\ EntryTells(i, journal'[k][i])
               /\ journal[k][i].taken > 0 => journal'[k][i].taken = journal[k][i].taken
    <2>1. CASE k = l
      BY <1>2, <2>1, CellsGood DEF TakesOnce, CellTells, PledgeInv
    <2>2. CASE k # l
      BY <1>1, <2>2, CellsGood DEF CellTells, CellsTell, PledgeInv
    <2>3. QED
      BY <2>1, <2>2
  <1>4. ASSUME NEW k \in Lines, NEW i \in Items
        PROVE  CellTells(i, CellOf(k, i)')
    <2>1. CellOK(CellOf(k, i)')
      BY DEF StockInv, StockTypeOK, BalanceValid, ValidBalance, CellOf, CellOK,
             NatBalance, NatEntry
    <2>2. CellOf(k, i)'.e = journal'[k][i]
      BY DEF CellOf
    <2>3. QED
      BY <1>3, <2>1, <2>2 DEF CellTells
  <1>5. QED
    BY <1>3, <1>4 DEF CellsTell, TakenOnce

(* A step that leaves the journal alone.                                   *)
LEMMA JournalKeptTells ==
    ASSUME PledgeInv, UNCHANGED journal, StockInv'
    PROVE  CellsTell' /\ TakenOnce
  <1>1. ASSUME NEW k \in Lines, NEW i \in Items
        PROVE  CellTells(i, CellOf(k, i)')
    <2>1. CellOK(CellOf(k, i)')
      BY DEF StockInv, StockTypeOK, BalanceValid, ValidBalance, CellOf, CellOK,
             NatBalance, NatEntry
    <2>2. CellOf(k, i)'.e = CellOf(k, i).e
      BY DEF CellOf
    <2>3. QED
      BY <2>1, <2>2 DEF CellTells, CellsTell, PledgeInv
  <1>2. QED
    BY <1>1 DEF CellsTell, TakenOnce

(* The single movement a reservation outside a transaction makes.          *)
LEMMA ReserveMoveTells ==
    ASSUME PledgeInv, OrderStockAssumption, StockInv',
           NEW o \in Orders, NEW u \in resv[o].left, ReserveMove(o, u)
    PROVE  CellsTell' /\ TakenOnce
  <1> DEFINE l == u[1]
             i == u[3]
             r == resv[o].snap[l]
             q == r[i][u[2]]
             c == ReserveUnit(CellOf(l, i), q)
  <1>1. l \in Lines /\ i \in Items /\ u[2] \in {"product", "gift"}
        /\ r \in Recipes \cup {Unmatched}
    BY DEF PledgeInv, LeftUnits, StockInv, StockTypeOK
  <1>2. journal' = [journal EXCEPT ![l][i] = c.e]
    BY DEF ReserveMove
  <1>3. CellTells(i, CellOf(l, i)) /\ CellOf(l, i).e = journal[l][i]
    BY <1>1, CellsGood DEF PledgeInv, CellsTell
  <1>4. TakesOnce(i, CellOf(l, i), c)
    <2>1. CASE r \in Recipes
      <3>1. q \in {r[i].product, r[i].gift}
        BY <1>1
      <3> HIDE DEF q, r, l, i
      <3>2. QED
        BY <1>1, <1>3, <2>1, <3>1, ReserveUnitTells
    <2>2. CASE r = Unmatched
      <3>1. q = 0
        BY <1>1, <2>2 DEF Unmatched
      <3>2. c = CellOf(l, i)
        BY <3>1 DEF ReserveUnit
      <3>3. QED
        BY <1>3, <3>2, TakesOnceRefl
    <2>3. QED
      BY <1>1, <2>1, <2>2
  <1> HIDE DEF c, r, q, l, i
  <1>5. ASSUME NEW k \in Lines, NEW j \in Items
        PROVE  /\ Bounded(j, journal'[k][j]) /\ EntryTells(j, journal'[k][j])
               /\ journal[k][j].taken > 0 => journal'[k][j].taken = journal[k][j].taken
    <2>1. CASE k = l /\ j = i
      <3>1. journal'[k][j] = c.e
        BY <1>1, <1>2, <2>1 DEF PledgeInv, StockInv, StockTypeOK
      <3>2. QED
        BY <1>3, <1>4, <2>1, <3>1 DEF TakesOnce, CellTells
    <2>2. CASE ~(k = l /\ j = i)
      <3>1. journal'[k][j] = journal[k][j]
        BY <1>1, <1>2, <2>2 DEF PledgeInv, StockInv, StockTypeOK
      <3>2. CellTells(j, CellOf(k, j)) /\ CellOf(k, j).e = journal[k][j]
        BY CellsGood DEF PledgeInv, CellsTell
      <3>3. QED
        BY <3>1, <3>2 DEF CellTells
    <2>3. QED
      BY <2>1, <2>2
  <1>6. ASSUME NEW k \in Lines, NEW j \in Items
        PROVE  CellTells(j, CellOf(k, j)')
    <2>1. CellOK(CellOf(k, j)')
      BY DEF StockInv, StockTypeOK, BalanceValid, ValidBalance, CellOf, CellOK,
             NatBalance, NatEntry
    <2>2. CellOf(k, j)'.e = journal'[k][j]
      BY DEF CellOf
    <2>3. QED
      BY <1>5, <2>1, <2>2 DEF CellTells
  <1>7. QED
    BY <1>5, <1>6 DEF CellsTell, TakenOnce

LEMMA ScanTells ==
    ASSUME PledgeInv, OrderStockAssumption, StockInv',
           NEW l \in Lines, NEW a \in Allocations(recipe[l]), RecordCondition(l, a)
    PROVE  CellsTell' /\ TakenOnce
  <1> DEFINE t(i) == Target(a[i], status[l] = "DELIVERED")
             f == [i \in Items |-> ReconcileCell(ReleasedCell(l, i), t(i))]
  <1>1. SetCells(l, f)
    BY DEF RecordCondition
  <1>2. ASSUME NEW i \in Items
        PROVE  TakesOnce(i, CellOf(l, i), f[i])
    <2>1. t(i) \in [onHand : Int, damaged : Int]
      BY AllocationsType, TargetType DEF PledgeInv
    <2>2. CellTells(i, CellOf(l, i))
      BY DEF PledgeInv, CellsTell
    <2>3. TakesOnce(i, CellOf(l, i), ReleasedCell(l, i))
      BY <2>2, SettleReservationTells, TakesOnceRefl
      DEF ReleasedCell, ReleaseCell, SettleKeys
    <2> HIDE DEF t
    <2>4. TakesOnce(i, ReleasedCell(l, i), ReconcileCell(ReleasedCell(l, i), t(i)))
      BY <2>1, <2>3, ReconcileCellTells DEF TakesOnce
    <2>5. QED
      BY <2>3, <2>4, TakesOnceTrans
  <1> HIDE DEF f
  <1>3. QED
    BY <1>1, <1>2, SetCellsTell

LEMMA TransactionTells ==
    ASSUME PledgeInv, OrderStockAssumption, ItemKindAssumption, StockInv',
           NEW l \in Lines, ReserveLine(l) \/ DeliverLine(l) \/ ReleaseLine(l)
    PROVE  CellsTell' /\ TakenOnce
  <1>1. recipe[l] \in Recipes /\ \A i \in Items : CellTells(i, CellOf(l, i))
    BY DEF PledgeInv, StockInv, StockTypeOK, CellsTell
  <1>2. SkipLine(l) => UNCHANGED journal
    BY DEF SkipLine
  <1>3. CASE ReserveLine(l)
    <2> DEFINE f == [i \in Items |-> ReserveCell(CellOf(l, i), recipe[l][i])]
    <2>1. \A i \in Items : TakesOnce(i, CellOf(l, i), f[i])
      BY <1>1, ReserveCellTells
    <2>2. SkipLine(l) \/ SetCells(l, f)
      BY <1>3 DEF ReserveLine
    <2> HIDE DEF f
    <2>3. QED
      BY <1>2, <2>1, <2>2, SetCellsTell, JournalKeptTells
  <1>4. CASE DeliverLine(l)
    <2> DEFINE f == [i \in Items |->
                        DeliverCell(CellOf(l, i), recipe[l][i], status[l])]
    <2>1. \A i \in Items : TakesOnce(i, CellOf(l, i), f[i])
      BY <1>1, DeliverCellTells
    <2>2. SkipLine(l) \/ SetCells(l, f)
      BY <1>4 DEF DeliverLine
    <2> HIDE DEF f
    <2>3. QED
      BY <1>2, <2>1, <2>2, SetCellsTell, JournalKeptTells
  <1>5. CASE ReleaseLine(l)
    <2> DEFINE f == [i \in Items |-> ReleaseCell(CellOf(l, i))]
    <2>1. \A i \in Items : TakesOnce(i, CellOf(l, i), f[i])
      BY <1>1, SettleReservationTells DEF ReleaseCell, SettleKeys
    <2>2. SkipLine(l) \/ SetCells(l, f)
      BY <1>5 DEF ReleaseLine
    <2> HIDE DEF f
    <2>3. QED
      BY <1>2, <2>1, <2>2, SetCellsTell, JournalKeptTells
  <1>6. QED
    BY <1>3, <1>4, <1>5

(* Only a loaded reservation adds units to reserve, and it adds no         *)
(* packaging.                                                              *)
LEMMA LeftUnitsKept ==
    ASSUME PledgeInv, [StockNext]_stockVars
    PROVE  LeftUnits'
  <1>0. resv \in [Orders -> [stage : Stages, todo : SUBSET Lines,
                            left : SUBSET (Lines \X Roles \X Items),
                            snap : [Lines -> Recipes \cup {Unmatched}]]]
        /\ LeftUnits
    BY DEF PledgeInv, StockInv, StockTypeOK
  <1>1. CASE UNCHANGED resv
    BY <1>0, <1>1 DEF LeftUnits
  <1>2. ASSUME NEW o \in Orders, LoadReservation(o)
        PROVE  LeftUnits'
    BY <1>0, <1>2 DEF LoadReservation, LeftUnits, PhysicalUnits
  <1>3. ASSUME NEW o \in Orders, NEW u \in resv[o].left, ReserveMove(o, u)
        PROVE  LeftUnits'
    BY <1>0, <1>3 DEF ReserveMove, LeftUnits
  <1>4. ASSUME NEW o \in Orders, NEW l \in resv[o].todo, SetReserved(o, l)
        PROVE  LeftUnits'
    BY <1>0, <1>4 DEF SetReserved, LeftUnits, NoReservation
  <1>5. ASSUME NEW o \in Orders, AbortReservation(o)
        PROVE  LeftUnits'
    BY <1>0, <1>5 DEF AbortReservation, LeftUnits, NoReservation
  <1>6. QED
    BY <1>1, <1>2, <1>3, <1>4, <1>5
    DEF StockNext, stockVars, BeginReserve, BeginDeliver, BeginRelease, Begin,
        ReserveLine, DeliverLine, ReleaseLine, SkipLine, RecordCondition, adjust,
        setOnHand, SetBalance, EditRecipe

LEMMA PledgeInitInv ==
    ASSUME StockInit, OrderStockAssumption, MaxQuantityAssumption
    PROVE  PledgeInv
  <1>1. StockInv
    BY StockInitInv
  <1>2. LeftUnits
    BY DEF StockInit, LeftUnits, NoReservation
  <1>3. ASSUME NEW l \in Lines, NEW i \in Items
        PROVE  CellTells(i, CellOf(l, i))
    <2>1. CellOK(CellOf(l, i)) /\ CellOf(l, i).e = NoEntry
      BY <1>1, CellsGood DEF StockInit
    <2>2. recipe[l] \in Recipes /\ recipe[l][i] \in UnitCounts
      BY <1>1, RecipeUnits DEF StockInv, StockTypeOK
    <2>3. Bounded(i, NoEntry)
      BY <2>2 DEF Bounded, NoEntry, UnitCounts
    <2>4. QED
      BY <2>1, <2>3 DEF CellTells, EntryTells, NoEntry
  <1>4. QED
    BY <1>1, <1>2, <1>3 DEF PledgeInv, CellsTell

LEMMA PledgeNextInv ==
    ASSUME PledgeInv, OrderStockAssumption, MaxQuantityAssumption,
           ItemKindAssumption, [StockNext]_stockVars
    PROVE  PledgeInv' /\ TakenOnce
  <1>1. StockInv' /\ LeftUnits'
    BY StockNextInv, LeftUnitsKept DEF PledgeInv
  <1>2. CASE \E l \in Lines : ReserveLine(l) \/ DeliverLine(l) \/ ReleaseLine(l)
    BY <1>1, <1>2, TransactionTells DEF PledgeInv
  <1>3. CASE \E o \in Orders : \E u \in resv[o].left : ReserveMove(o, u)
    BY <1>1, <1>3, ReserveMoveTells DEF PledgeInv
  <1>4. CASE \E l \in Scanned : \E a \in Allocations(recipe[l]) :
                 RecordCondition(l, a)
    BY <1>1, <1>4, ScanTells DEF PledgeInv, OrderStockAssumption
  <1>5. CASE UNCHANGED journal
    BY <1>1, <1>5, JournalKeptTells DEF PledgeInv
  <1>6. QED
    BY <1>2, <1>3, <1>4, <1>5
    DEF StockNext, stockVars, BeginReserve, BeginDeliver, BeginRelease, Begin,
        LoadReservation, SetReserved, AbortReservation, adjust, setOnHand,
        SetBalance, EditRecipe

(* However a dispatch and an Ameex event race to reserve a line, it holds  *)
(* no more of an item than one of its recipes asks for: the key of the     *)
(* first reservation stops the second.                                     *)
THEOREM StockNoDoubleReservation == StockSpec => []NoDoubleReservation
  <1>1. StockInit => PledgeInv
    BY PledgeInitInv, OrderStockAssumption, MaxQuantityAssumption
  <1>2. PledgeInv /\ [StockNext]_stockVars => PledgeInv'
    BY PledgeNextInv, OrderStockAssumption, MaxQuantityAssumption,
       ItemKindAssumption
  <1>3. PledgeInv => NoDoubleReservation
    BY CellsGood DEF PledgeInv, CellsTell, CellTells, Bounded, NoDoubleReservation
  <1>4. QED
    BY <1>1, <1>2, <1>3, PTL DEF StockSpec

(* What a delivery took of an item for a line no step takes again, although *)
(* a late reservation may reopen the line and run its delivery twice.      *)
THEOREM StockDeductedOnce == StockSpec => DeductedOnce
  <1>1. StockInit => PledgeInv
    BY PledgeInitInv, OrderStockAssumption, MaxQuantityAssumption
  <1>2. PledgeInv /\ [StockNext]_stockVars => PledgeInv' /\ [TakenOnce]_stockVars
    BY PledgeNextInv, OrderStockAssumption, MaxQuantityAssumption,
       ItemKindAssumption
  <1>3. QED
    BY <1>1, <1>2, PTL DEF StockSpec, DeductedOnce, TakenOnce

-----------------------------------------------------------------------------
(***************************************************************************)
(* What is reserved of an item is what the lines hold of it, as long as    *)
(* nobody adjusts the reserved bucket by hand; so a settlement always      *)
(* frees all a line holds.  The inductive invariant is HeldInv: besides    *)
(* that sum, a settlement key says that the line's reservation was made    *)
(* and is gone, a line that holds something is RESERVED or its dispatch is *)
(* still at it or gave up, and a dispatch reserves for its own lines only. *)
(***************************************************************************)
EntryHeld(e) ==
    /\ "order-reserve" \notin e.used => e.res = 0
    /\ \A key \in SettleKeys : key \in e.used =>
           e.res = 0 /\ "order-reserve" \in e.used

Held(c) == CellOK(c) /\ EntryHeld(c.e) /\ c.e.res <= c.b.reserved

(* The cell d holds what c held, plus what the balance reserved more.      *)
Keeps(c, d) ==
    Held(d) /\ d.b.reserved - c.b.reserved = d.e.res - c.e.res

LEMMA HeldNumbers ==
    ASSUME NEW c, CellOK(c)
    PROVE  /\ c.b.onHand \in Nat /\ c.b.reserved \in Nat /\ c.b.damaged \in Nat
           /\ c.e.res \in Nat /\ c.e.taken \in Nat
  BY DEF CellOK, NatBalance, NatEntry

LEMMA KeepsRefl == ASSUME NEW c, Held(c) PROVE Keeps(c, c)
  BY HeldNumbers DEF Keeps, Held

LEMMA KeepsTrans ==
    ASSUME NEW c, Held(c), NEW d, NEW e, Keeps(c, d), Keeps(d, e)
    PROVE  Keeps(c, e)
  BY HeldNumbers DEF Keeps, Held

LEMMA ReserveUnitKeeps ==
    ASSUME NEW c, Held(c), NEW q \in Nat
    PROVE  Keeps(c, ReserveUnit(c, q))
  <1> DEFINE d == ReserveUnit(c, q)
  <1>1. CellOK(c) /\ CellOK(d)
    BY ReserveUnitOK DEF Held, Lowered
  <1> HIDE DEF d
  <1>2. CASE d = c
    BY <1>2, KeepsRefl DEF d
  <1>3. CASE d # c
    <2>1. /\ "order-reserve" \notin c.e.used
          /\ d.b.reserved - c.b.reserved = d.e.res - c.e.res
          /\ d.e.used = c.e.used \cup {"order-reserve"}
      BY <1>1, <1>3, ReserveUnitEffect DEF d
    <2>2. EntryHeld(d.e)
      BY <2>1 DEF Held, EntryHeld, SettleKeys
    <2>3. d.e.res <= d.b.reserved
      BY <1>1, <2>1, HeldNumbers DEF Held
    <2>4. QED
      BY <1>1, <2>1, <2>2, <2>3 DEF Keeps, Held, d
  <1>4. QED
    BY <1>2, <1>3

(* A settlement leaves nothing reserved.                                   *)
LEMMA SettleReservationKeeps ==
    ASSUME NEW c, Held(c), NEW key \in SettleKeys
    PROVE  /\ Keeps(c, SettleReservation(c, key))
           /\ SettleReservation(c, key).e.res = 0
           /\ SettleReservation(c, key).e.taken = c.e.taken
           /\ SettleReservation(c, key).e.used \subseteq c.e.used \cup {key}
           /\ SettleReservation(c, key).b.onHand = c.b.onHand
           /\ SettleReservation(c, key).b.damaged = c.b.damaged
  <1> DEFINE d == SettleReservation(c, key)
  <1>1. CellOK(c) /\ CellOK(d) /\ c.e.res <= c.b.reserved
    BY SettleReservationOK DEF Held, Lowered, SettleKeys, Keys
  <1> HIDE DEF d
  <1>2. CASE d = c
    <2>1. key \notin c.e.used => d.e.res = 0
      BY <1>1, SettleReservationEffect DEF d
    <2>2. d.e.res = 0
      BY <1>2, <2>1 DEF Held, EntryHeld
    <2>3. QED
      BY <1>2, <2>2, KeepsRefl DEF d
  <1>3. CASE d # c
    <2>1. /\ key \notin c.e.used /\ c.e.res > 0 /\ d.e.res = 0
          /\ d.b.reserved - c.b.reserved = d.e.res - c.e.res
          /\ d.b.onHand = c.b.onHand /\ d.b.damaged = c.b.damaged
          /\ d.e.taken = c.e.taken /\ d.e.used = c.e.used \cup {key}
      BY <1>1, <1>3, SettleReservationEffect DEF d
    <2>2. "order-reserve" \in c.e.used
      BY <2>1 DEF Held, EntryHeld
    <2>3. EntryHeld(d.e)
      BY <2>1, <2>2 DEF EntryHeld
    <2>4. d.e.res <= d.b.reserved
      BY <1>1, <2>1, HeldNumbers
    <2>5. QED
      BY <1>1, <2>1, <2>3, <2>4 DEF Keeps, Held, d
  <1>4. QED
    BY <1>2, <1>3

(* A deduction leaves the reservation as it is.                            *)
LEMMA DeductionKeeps ==
    ASSUME NEW c, Held(c), NEW delta \in Int, delta < 0,
           NEW key \in Keys, key \notin SettleKeys
    PROVE  /\ Keeps(c, move(c, "ORDER", "onHand", delta, key))
           /\ move(c, "ORDER", "onHand", delta, key).e.res = c.e.res
  <1> DEFINE d == move(c, "ORDER", "onHand", delta, key)
  <1>1. CellOK(c) /\ CellOK(d)
    BY MoveOK DEF Held, Lowered, Buckets
  <1>0. d = move(c, "ORDER", "onHand", delta, key)
    OBVIOUS
  <1> HIDE DEF d
  <1>2. CASE d = c
    BY <1>2, KeepsRefl DEF d
  <1>3. CASE d # c
    <2>1. /\ d.e.res = c.e.res /\ d.b.reserved = c.b.reserved
          /\ d.e.used = c.e.used \cup {key}
      <3>1. \A x : x = move(c, "ORDER", "onHand", delta, key) =>
                       \/ x = c
                       \/ /\ x.e.res = c.e.res /\ x.b.reserved = c.b.reserved
                          /\ x.e.used = c.e.used \cup {key}
        BY <1>1, DeductionEffect
      <3>2. QED
        BY <1>0, <1>3, <3>1
    <2>2. EntryHeld(d.e) /\ d.e.res <= d.b.reserved
      BY <2>1 DEF Held, EntryHeld, SettleKeys
    <2>3. d.b.reserved - c.b.reserved = d.e.res - c.e.res
      BY <1>1, <2>1, HeldNumbers
    <2>4. QED
      BY <1>1, <2>1, <2>2, <2>3 DEF Keeps, Held, d
  <1>4. QED
    BY <1>2, <1>3

LEMMA DeliverUnitKeeps ==
    ASSUME NEW c, Held(c), NEW q \in Nat
    PROVE  /\ Keeps(c, DeliverUnit(c, q))
           /\ DeliverUnit(c, q).e.res = IF q > 0 THEN 0 ELSE c.e.res
  <1> DEFINE s == SettleReservation(c, "order-deliver-release")
  <1>1. Keeps(c, s) /\ s.e.res = 0
    BY SettleReservationKeeps DEF SettleKeys
  <1> HIDE DEF s
  <1>2. Held(s)
    BY <1>1 DEF Keeps
  <1>3. CASE q > 0
    <2> DEFINE d == move(s, "ORDER", "onHand", 0 - q, "order-deliver")
    <2>1. Keeps(s, d) /\ d.e.res = 0
      BY <1>1, <1>2, <1>3, DeductionKeeps DEF Keys, SettleKeys
    <2>2. DeliverUnit(c, q) = d
      BY <1>3 DEF DeliverUnit, s
    <2> HIDE DEF d
    <2>3. QED
      BY <1>1, <1>3, <2>1, <2>2, KeepsTrans
  <1>4. CASE ~(q > 0)
    BY <1>4, KeepsRefl DEF DeliverUnit
  <1>5. QED
    BY <1>3, <1>4

LEMMA ConsumePackagingKeeps ==
    ASSUME NEW c, Held(c), NEW q \in Nat
    PROVE  /\ Keeps(c, ConsumePackaging(c, q))
           /\ ConsumePackaging(c, q).e.res = c.e.res
  <1>1. CASE q > 0
    BY <1>1, DeductionKeeps DEF ConsumePackaging, Keys, SettleKeys
  <1>2. CASE ~(q > 0)
    BY <1>2, KeepsRefl DEF ConsumePackaging
  <1>3. QED
    BY <1>1, <1>2

LEMMA ReserveCellKeeps ==
    ASSUME NEW c, Held(c), NEW r \in UnitCounts
    PROVE  Keeps(c, ReserveCell(c, r))
  <1> DEFINE d == ReserveUnit(c, r.product)
  <1>1. Keeps(c, d)
    BY ReserveUnitKeeps DEF UnitCounts
  <1> HIDE DEF d
  <1>2. Keeps(d, ReserveUnit(d, r.gift))
    BY <1>1, ReserveUnitKeeps DEF UnitCounts, Keeps
  <1>3. QED
    BY <1>1, <1>2, KeepsTrans DEF ReserveCell, d

(* A delivery never adds to what the line holds, and settles all that a    *)
(* RESERVED line holds: on its own units, and on orphaned ones.            *)
LEMMA DeliverCellKeeps ==
    ASSUME NEW c, Held(c), NEW r \in UnitCounts, NEW st
    PROVE  /\ Keeps(c, DeliverCell(c, r, st))
           /\ DeliverCell(c, r, st).e.res \in {0, c.e.res}
           /\ st = "RESERVED" => DeliverCell(c, r, st).e.res = 0
  <1> DEFINE p == DeliverUnit(c, r.product)
             g == DeliverUnit(p, r.gift)
             d == ConsumePackaging(g, r.packaging)
             x == DeliverUnit(d, d.e.res)
  <1>0. r.product \in Nat /\ r.gift \in Nat /\ r.packaging \in Nat
    BY DEF UnitCounts
  <1>1. Keeps(c, p) /\ p.e.res = IF r.product > 0 THEN 0 ELSE c.e.res
    BY <1>0, DeliverUnitKeeps
  <1>2. Keeps(c, g) /\ g.e.res = IF r.gift > 0 THEN 0 ELSE p.e.res
    <2> HIDE DEF p
    <2>1. Keeps(p, g) /\ g.e.res = IF r.gift > 0 THEN 0 ELSE p.e.res
      BY <1>0, <1>1, DeliverUnitKeeps DEF Keeps
    <2> HIDE DEF g
    <2>2. QED
      BY <1>1, <2>1, KeepsTrans
  <1>3. Keeps(c, d) /\ d.e.res = g.e.res
    <2> HIDE DEF g
    <2>1. Keeps(g, d) /\ d.e.res = g.e.res
      BY <1>0, <1>2, ConsumePackagingKeeps DEF Keeps
    <2> HIDE DEF d
    <2>2. QED
      BY <1>2, <2>1, KeepsTrans
  <1>4. Keeps(c, x) /\ x.e.res = 0
    <2> HIDE DEF d
    <2>1. Held(d) /\ d.e.res \in Nat
      BY <1>3, HeldNumbers DEF Keeps, Held
    <2>2. Keeps(d, x) /\ x.e.res = IF d.e.res > 0 THEN 0 ELSE d.e.res
      BY <2>1, DeliverUnitKeeps
    <2> HIDE DEF x
    <2>3. QED
      BY <1>3, <2>1, <2>2, KeepsTrans
  <1>5. DeliverCell(c, r, st) = IF Orphan(d, r, st) THEN x ELSE d
    BY DEF DeliverCell
  <1>6. d.e.res \in {0, c.e.res}
    BY <1>1, <1>2, <1>3
  <1>7. st = "RESERVED" /\ ~Orphan(d, r, st) => d.e.res = 0
    <2> HIDE DEF p, g, d
    <2>1. d.e.res \in Nat
      BY <1>3, HeldNumbers DEF Keeps, Held
    <2>2. QED
      BY <1>0, <1>1, <1>2, <1>3, <2>1 DEF Orphan
  <1> HIDE DEF p, g, d, x
  <1>8. QED
    BY <1>3, <1>4, <1>5, <1>6, <1>7

LEMMA ReconcileCellKeeps ==
    ASSUME NEW c, Held(c), NEW t \in [onHand : Int, damaged : Int]
    PROVE  Keeps(c, ReconcileCell(c, t)) /\ ReconcileCell(c, t).e.res = c.e.res
  <1> DEFINE d == ReconcileCell(c, t)
  <1>1. CellOK(d)
    BY ReconcileCellOK DEF Held
  <1>2. d.e.res = c.e.res /\ d.e.used = c.e.used /\ d.b.reserved = c.b.reserved
    BY ReconcileKeeps
  <1> HIDE DEF d
  <1>3. EntryHeld(d.e) /\ d.e.res <= d.b.reserved
    BY <1>2 DEF Held, EntryHeld
  <1>4. d.b.reserved - c.b.reserved = d.e.res - c.e.res
    BY <1>1, <1>2, HeldNumbers
  <1>5. QED
    BY <1>1, <1>2, <1>3, <1>4 DEF Keeps, Held, d

-----------------------------------------------------------------------------
(***************************************************************************)
(* Sums without recursion: the units stacked on the members of a set are   *)
(* pairs, and there are as many of them as the function adds up to.        *)
(***************************************************************************)
Stack(x, n) == {x} \X (1 .. n)
Stacked(f, S) == {p \in S \X Nat : 0 < p[2] /\ p[2] <= f[p[1]]}

LEMMA StackSize ==
    ASSUME NEW x, NEW n \in Nat
    PROVE  IsFiniteSet(Stack(x, n)) /\ Cardinality(Stack(x, n)) = n
  <1> DEFINE h == [k \in 1 .. n |-> <<x, k>>]
  <1>1. h \in Bijection(1 .. n, Stack(x, n))
    <2>1. h \in [1 .. n -> Stack(x, n)]
      BY DEF Stack
    <2>2. \A p \in Stack(x, n) : \E k \in 1 .. n : h[k] = p
      BY DEF Stack
    <2>3. \A k \in 1 .. n, m \in 1 .. n : h[k] = h[m] => k = m
      OBVIOUS
    <2> HIDE DEF h
    <2>4. QED
      BY <2>1, <2>2, <2>3 DEF Bijection, Injection, Surjection, IsInjective
  <1>2. ExistsBijection(1 .. n, Stack(x, n))
    BY <1>1 DEF ExistsBijection
  <1>3. IsFiniteSet(1 .. n) /\ Cardinality(1 .. n) = n
    BY FS_Interval
  <1>4. QED
    BY <1>2, <1>3, FS_Bijection

LEMMA StackedCovers ==
    ASSUME NEW S, NEW f \in [S -> Nat], NEW x \in S, IsFiniteSet(Stacked(f, S))
    PROVE  f[x] <= Cardinality(Stacked(f, S))
  <1>1. Stack(x, f[x]) \in SUBSET Stacked(f, S)
    BY DEF Stack, Stacked
  <1>2. QED
    BY <1>1, StackSize, FS_Subset

LEMMA StackedUpdate ==
    ASSUME NEW S, NEW f \in [S -> Nat], NEW g \in [S -> Nat], NEW x \in S,
           \A y \in S \ {x} : g[y] = f[y], IsFiniteSet(Stacked(f, S))
    PROVE  /\ IsFiniteSet(Stacked(g, S))
           /\ Cardinality(Stacked(g, S)) = Cardinality(Stacked(f, S)) - f[x] + g[x]
  <1> DEFINE old == Stack(x, f[x])
             new == Stack(x, g[x])
             rest == Stacked(f, S) \ old
  <1>1. /\ IsFiniteSet(old) /\ Cardinality(old) = f[x]
        /\ IsFiniteSet(new) /\ Cardinality(new) = g[x]
    BY StackSize
  <1>2. Stacked(f, S) \cap old = old
    BY DEF Stack, Stacked
  <1>3. Stacked(g, S) = rest \cup new
    <2>1. ASSUME NEW p \in Stacked(g, S) PROVE p \in rest \cup new
      <3>1. p[1] \in S /\ p[2] \in Nat /\ p = <<p[1], p[2]>>
        BY <2>1 DEF Stacked
      <3>2. CASE p[1] = x
        BY <2>1, <3>1, <3>2 DEF Stack, Stacked
      <3>3. CASE p[1] # x
        BY <2>1, <3>1, <3>3 DEF Stack, Stacked
      <3>4. QED
        BY <3>2, <3>3
    <2>2. ASSUME NEW p \in rest PROVE p \in Stacked(g, S)
      <3>1. p[1] \in S /\ p[2] \in Nat /\ p = <<p[1], p[2]>>
            /\ 0 < p[2] /\ p[2] <= f[p[1]]
        BY <2>2 DEF Stacked
      <3>2. p[1] # x
        BY <2>2, <3>1 DEF Stack
      <3>3. QED
        BY <3>1, <3>2 DEF Stacked
    <2>3. ASSUME NEW p \in new PROVE p \in Stacked(g, S)
      BY <2>3 DEF Stack, Stacked
    <2>4. QED
      BY <2>1, <2>2, <2>3
  <1>4. rest \cap new = {}
    <2>1. ASSUME NEW p \in rest, p \in new PROVE FALSE
      <3>1. p[1] = x /\ p[2] \in Nat /\ p = <<p[1], p[2]>> /\ 1 <= p[2]
            /\ p[2] <= f[x] /\ f[x] \in Nat
        BY <2>1 DEF Stack, Stacked
      <3>2. QED
        BY <2>1, <3>1 DEF Stack
    <2>2. QED
      BY <2>1
  <1>5. /\ IsFiniteSet(rest)
        /\ Cardinality(rest) = Cardinality(Stacked(f, S)) - f[x]
    <2> HIDE DEF old
    <2>1. Cardinality(Stacked(f, S) \cap old) = f[x]
      BY <1>1, <1>2
    <2>2. QED
      BY <2>1, FS_Difference
  <1>6. Cardinality(rest \cap new) = 0
    BY <1>4, FS_EmptySet
  <1> HIDE DEF old, new, rest
  <1>7. /\ IsFiniteSet(rest \cup new)
        /\ Cardinality(rest \cup new) = Cardinality(rest) + Cardinality(new) - 0
    BY <1>1, <1>5, <1>6, FS_Union
  <1>8. Cardinality(Stacked(f, S)) \in Nat /\ f[x] \in Nat /\ g[x] \in Nat
    BY FS_CardinalityType
  <1>9. QED
    BY <1>1, <1>3, <1>5, <1>7, <1>8

LEMMA StackedEmpty ==
    ASSUME NEW S, NEW f \in [S -> Nat], \A y \in S : f[y] = 0
    PROVE  IsFiniteSet(Stacked(f, S)) /\ Cardinality(Stacked(f, S)) = 0
  <1>1. Stacked(f, S) = {}
    BY DEF Stacked
  <1>2. QED
    BY <1>1, FS_EmptySet

-----------------------------------------------------------------------------
Holding(i) == [l \in Lines |-> journal[l][i].res]

(* The reserved units of an item are those its lines hold.                 *)
ReservedExplained == \A i \in Items :
    /\ IsFiniteSet(Stacked(Holding(i), Lines))
    /\ Cardinality(Stacked(Holding(i), Lines)) = bal[i].reserved

EntriesHeld == \A l \in Lines, i \in Items : EntryHeld(journal[l][i])

(* A dispatch plans units of its own lines, those it has yet to set.       *)
Planned == \A o \in Orders :
    /\ resv[o].todo \subseteq LinesOf(o)
    /\ \A u \in resv[o].left :
           /\ u[1] \in resv[o].todo
           /\ u \in PhysicalUnits(u[1], resv[o].snap[u[1]])

Claims(l) ==
    \/ status[l] = "RESERVED"
    \/ resv[OrderOf[l]].stage = "running" /\ l \in resv[OrderOf[l]].todo
    \/ resv[OrderOf[l]].stage = "failed"

Claimed == \A l \in Lines, i \in Items : journal[l][i].res > 0 => Claims(l)

HeldInv == PledgeInv /\ EntriesHeld /\ ReservedExplained /\ Planned /\ Claimed

(* The parts of the state's type these proofs use.                         *)
LEMMA HeldTypes ==
    ASSUME StockInv
    PROVE  /\ bal \in [Items -> NatBalance]
           /\ journal \in [Lines -> [Items -> NatEntry]]
           /\ status \in [Lines -> StockStatus]
           /\ resv \in [Orders -> [stage : Stages, todo : SUBSET Lines,
                             left : SUBSET (Lines \X Roles \X Items),
                             snap : [Lines -> Recipes \cup {Unmatched}]]]
  BY DEF StockInv, StockTypeOK, NatBalance, NatEntry

LEMMA CellsHeld ==
    ASSUME HeldInv, NEW l \in Lines, NEW i \in Items
    PROVE  /\ Held(CellOf(l, i))
           /\ CellOf(l, i).b = bal[i] /\ CellOf(l, i).e = journal[l][i]
  <1>1. /\ CellOK(CellOf(l, i))
        /\ CellOf(l, i).b = bal[i] /\ CellOf(l, i).e = journal[l][i]
    BY CellsGood DEF HeldInv, PledgeInv
  <1>2. EntryHeld(journal[l][i])
    BY DEF HeldInv, EntriesHeld
  <1>3. Holding(i) \in [Lines -> Nat]
    BY HeldTypes DEF HeldInv, PledgeInv, Holding, NatEntry
  <1>4. /\ IsFiniteSet(Stacked(Holding(i), Lines))
        /\ Cardinality(Stacked(Holding(i), Lines)) = bal[i].reserved
    BY DEF HeldInv, ReservedExplained
  <1>5. Holding(i)[l] <= bal[i].reserved
    BY <1>3, <1>4, StackedCovers
  <1>6. Holding(i)[l] = journal[l][i].res
    BY DEF Holding
  <1>7. QED
    BY <1>1, <1>2, <1>5, <1>6 DEF Held

(* A step on the cells of one line that keeps what it holds in balance.    *)
LEMMA OneLineHeld ==
    ASSUME HeldInv, StockInv', NEW l \in Lines,
           \A k \in Lines \ {l} : journal'[k] = journal[k],
           \A i \in Items :
               /\ EntryHeld(journal'[l][i])
               /\ bal'[i].reserved - bal[i].reserved
                      = journal'[l][i].res - journal[l][i].res
    PROVE  EntriesHeld' /\ ReservedExplained'
  <1>1. EntriesHeld'
    BY DEF HeldInv, EntriesHeld
  <1>2. ASSUME NEW i \in Items
        PROVE  /\ IsFiniteSet(Stacked(Holding(i)', Lines))
               /\ Cardinality(Stacked(Holding(i)', Lines)) = bal'[i].reserved
    <2> DEFINE f == Holding(i)
               g == Holding(i)'
    <2>1. f \in [Lines -> Nat] /\ g \in [Lines -> Nat]
      BY HeldTypes DEF HeldInv, PledgeInv, StockInv, StockTypeOK, Holding, NatEntry
    <2>2. \A k \in Lines \ {l} : g[k] = f[k]
      BY DEF Holding
    <2>3. f[l] = journal[l][i].res /\ g[l] = journal'[l][i].res
      BY DEF Holding
    <2>4. /\ IsFiniteSet(Stacked(f, Lines))
          /\ Cardinality(Stacked(f, Lines)) = bal[i].reserved
      BY DEF HeldInv, ReservedExplained
    <2> HIDE DEF f, g
    <2>5. /\ IsFiniteSet(Stacked(g, Lines))
          /\ Cardinality(Stacked(g, Lines)) = bal[i].reserved - f[l] + g[l]
      BY <2>1, <2>2, <2>4, StackedUpdate
    <2>6. bal[i].reserved \in Nat /\ bal'[i].reserved \in Nat
          /\ f[l] \in Nat /\ g[l] \in Nat
      BY <2>1, HeldTypes DEF HeldInv, PledgeInv, StockInv, StockTypeOK, NatBalance
    <2>7. Cardinality(Stacked(g, Lines)) = bal'[i].reserved
      BY <2>3, <2>5, <2>6
    <2>8. QED
      BY <2>5, <2>7 DEF g
  <1>3. QED
    BY <1>1, <1>2 DEF ReservedExplained

(* The same of an operation that rewrites the cells of a line.             *)
LEMMA SetCellsHeld ==
    ASSUME HeldInv, StockInv', NEW l \in Lines, NEW f, SetCells(l, f),
           \A i \in Items : Keeps(CellOf(l, i), f[i])
    PROVE  /\ EntriesHeld' /\ ReservedExplained'
           /\ \A k \in Lines \ {l} : journal'[k] = journal[k]
           /\ \A i \in Items : journal'[l][i] = f[i].e
  <1>1. /\ \A k \in Lines \ {l} : journal'[k] = journal[k]
        /\ \A i \in Items : journal'[l][i] = f[i].e /\ bal'[i] = f[i].b
    BY HeldTypes DEF SetCells, HeldInv, PledgeInv
  <1>2. ASSUME NEW i \in Items
        PROVE  /\ EntryHeld(journal'[l][i])
               /\ bal'[i].reserved - bal[i].reserved
                      = journal'[l][i].res - journal[l][i].res
    BY <1>1, CellsHeld DEF Keeps, Held
  <1>3. QED
    BY <1>1, <1>2, OneLineHeld

(* A step that moves no reservation.                                       *)
LEMMA UnmovedHeld ==
    ASSUME HeldInv, UNCHANGED journal,
           \A i \in Items : bal'[i].reserved = bal[i].reserved
    PROVE  EntriesHeld' /\ ReservedExplained'
  <1>1. \A i \in Items : Holding(i)' = Holding(i)
    BY DEF Holding
  <1>2. QED
    BY <1>1 DEF HeldInv, EntriesHeld, ReservedExplained

(* The steps that touch neither statuses nor dispatches keep the claims.   *)
LEMMA SameClaims ==
    ASSUME HeldInv, UNCHANGED <<status, resv>>,
           \A l \in Lines, i \in Items : journal'[l][i].res = journal[l][i].res
    PROVE  Planned' /\ Claimed'
  BY DEF HeldInv, Planned, Claimed, Claims, LinesOf, PhysicalUnits

(* A step that gives the line the status st leaves it holding nothing, or  *)
(* what it held under a status that claims no less.                        *)
Resolves(l, st) == \A i \in Items :
    \/ st = "RESERVED"
    \/ journal'[l][i].res = 0
    \/ /\ journal'[l][i].res = journal[l][i].res
       /\ status[l] = "RESERVED" => st = "RESERVED"

(* A step that settles or claims one line.                                 *)
LEMMA LineClaims ==
    ASSUME HeldInv, UNCHANGED resv, NEW l \in Lines, NEW st \in StockStatus,
           status' = [status EXCEPT ![l] = st],
           \A k \in Lines \ {l} : journal'[k] = journal[k],
           Resolves(l, st)
    PROVE  Planned' /\ Claimed'
  <1>1. Planned'
    BY DEF HeldInv, Planned, LinesOf, PhysicalUnits
  <1>2. status \in [Lines -> StockStatus]
    BY HeldTypes DEF HeldInv, PledgeInv
  <1>3. ASSUME NEW k \in Lines, NEW i \in Items, journal'[k][i].res > 0
        PROVE  Claims(k)'
    <2>1. CASE k # l
      BY <1>2, <1>3, <2>1 DEF HeldInv, Claimed, Claims
    <2>2. CASE k = l
      <3>1. status'[l] = st
        BY <1>2
      <3>2. journal[l][i].res > 0 => Claims(l)
        BY DEF HeldInv, Claimed
      <3>3. QED
        BY <1>3, <2>2, <3>1, <3>2 DEF Claims, Resolves
    <2>3. QED
      BY <2>1, <2>2
  <1>4. QED
    BY <1>1, <1>3 DEF Claimed

LEMMA TransactionHeld ==
    ASSUME HeldInv, OrderStockAssumption, StockInv',
           NEW l \in Lines, ReserveLine(l) \/ DeliverLine(l) \/ ReleaseLine(l)
    PROVE  EntriesHeld' /\ ReservedExplained' /\ Planned' /\ Claimed'
  <1>1. /\ \A i \in Items : recipe[l][i] \in UnitCounts
        /\ \A i \in Items : Held(CellOf(l, i)) /\ CellOf(l, i).e = journal[l][i]
        /\ StockInv
    BY RecipeUnits, CellsHeld DEF HeldInv, PledgeInv
  <1>2. CASE SkipLine(l)
    <2>1. UNCHANGED <<bal, journal, status, resv>>
      BY <1>2 DEF SkipLine
    <2>2. QED
      BY <2>1, UnmovedHeld, SameClaims
  <1>3. CASE ReserveLine(l) /\ ~SkipLine(l)
    <2> DEFINE f == [i \in Items |-> ReserveCell(CellOf(l, i), recipe[l][i])]
    <2>1. \A i \in Items : Keeps(CellOf(l, i), f[i])
      BY <1>1, ReserveCellKeeps
    <2>2. SetCells(l, f) /\ UNCHANGED resv
          /\ status' = [status EXCEPT ![l] = "RESERVED"]
      BY <1>3 DEF ReserveLine
    <2> HIDE DEF f
    <2>3. /\ EntriesHeld' /\ ReservedExplained'
          /\ \A k \in Lines \ {l} : journal'[k] = journal[k]
      BY <2>1, <2>2, SetCellsHeld
    <2>4. Resolves(l, "RESERVED")
      BY DEF Resolves
    <2>5. QED
      BY <2>2, <2>3, <2>4, LineClaims DEF StockStatus
  <1>4. CASE DeliverLine(l) /\ ~SkipLine(l)
    <2> DEFINE f == [i \in Items |->
                        DeliverCell(CellOf(l, i), recipe[l][i], status[l])]
    <2>1. \A i \in Items : Keeps(CellOf(l, i), f[i])
      BY <1>1, DeliverCellKeeps
    <2>2. \A i \in Items : /\ f[i].e.res \in {0, journal[l][i].res}
                           /\ status[l] = "RESERVED" => f[i].e.res = 0
      BY <1>1, DeliverCellKeeps
    <2>3. SetCells(l, f) /\ UNCHANGED resv
          /\ status' = [status EXCEPT ![l] = "DELIVERED"]
      BY <1>4 DEF DeliverLine
    <2> HIDE DEF f
    <2>4. /\ EntriesHeld' /\ ReservedExplained'
          /\ \A k \in Lines \ {l} : journal'[k] = journal[k]
          /\ \A i \in Items : journal'[l][i] = f[i].e
      BY <2>1, <2>3, SetCellsHeld
    <2>5. Resolves(l, "DELIVERED")
      BY <2>2, <2>4 DEF Resolves
    <2>6. Planned' /\ Claimed'
      BY <2>3, <2>4, <2>5, LineClaims DEF StockStatus
    <2>7. QED
      BY <2>4, <2>6
  <1>5. CASE ReleaseLine(l) /\ ~SkipLine(l)
    <2> DEFINE f == [i \in Items |-> ReleaseCell(CellOf(l, i))]
    <2>1. \A i \in Items : Keeps(CellOf(l, i), f[i]) /\ f[i].e.res = 0
      BY <1>1, SettleReservationKeeps DEF ReleaseCell, SettleKeys
    <2>2. SetCells(l, f) /\ UNCHANGED resv
          /\ status' = [status EXCEPT ![l] = "RELEASED"]
      BY <1>5 DEF ReleaseLine
    <2> HIDE DEF f
    <2>3. /\ EntriesHeld' /\ ReservedExplained'
          /\ \A k \in Lines \ {l} : journal'[k] = journal[k]
          /\ \A i \in Items : journal'[l][i] = f[i].e
      BY <2>1, <2>2, SetCellsHeld
    <2>4. Resolves(l, "RELEASED")
      BY <2>1, <2>3 DEF Resolves
    <2>5. Planned' /\ Claimed'
      BY <2>2, <2>3, <2>4, LineClaims DEF StockStatus
    <2>6. QED
      BY <2>3, <2>5
  <1>6. QED
    BY <1>2, <1>3, <1>4, <1>5

LEMMA ScanHeld ==
    ASSUME HeldInv, OrderStockAssumption, StockInv',
           NEW l \in Lines, NEW a \in Allocations(recipe[l]), RecordCondition(l, a)
    PROVE  EntriesHeld' /\ ReservedExplained' /\ Planned' /\ Claimed'
  <1> DEFINE t(i) == Target(a[i], status[l] = "DELIVERED")
             f == [i \in Items |-> ReconcileCell(ReleasedCell(l, i), t(i))]
             st == IF status[l] = "RESERVED" THEN "RELEASED" ELSE status[l]
  <1>1. SetCells(l, f) /\ UNCHANGED resv /\ status' = [status EXCEPT ![l] = st]
    BY DEF RecordCondition
  <1>2. ASSUME NEW i \in Items
        PROVE  /\ Keeps(CellOf(l, i), f[i])
               /\ f[i].e.res = IF status[l] = "RESERVED" THEN 0
                               ELSE journal[l][i].res
    <2>1. t(i) \in [onHand : Int, damaged : Int]
      BY AllocationsType, TargetType DEF HeldInv, PledgeInv
    <2>2. Held(CellOf(l, i)) /\ CellOf(l, i).e = journal[l][i]
      BY CellsHeld
    <2>3. /\ Keeps(CellOf(l, i), ReleasedCell(l, i))
          /\ ReleasedCell(l, i).e.res = IF status[l] = "RESERVED" THEN 0
                                        ELSE journal[l][i].res
      BY <2>2, SettleReservationKeeps, KeepsRefl
      DEF ReleasedCell, ReleaseCell, SettleKeys
    <2> HIDE DEF t
    <2>4. /\ Keeps(ReleasedCell(l, i), f[i])
          /\ f[i].e.res = ReleasedCell(l, i).e.res
      BY <2>1, <2>3, ReconcileCellKeeps DEF Keeps
    <2> HIDE DEF f
    <2>5. QED
      BY <2>2, <2>3, <2>4, KeepsTrans
  <1> HIDE DEF f
  <1>3. /\ EntriesHeld' /\ ReservedExplained'
        /\ \A k \in Lines \ {l} : journal'[k] = journal[k]
        /\ \A i \in Items : journal'[l][i] = f[i].e
    BY <1>1, <1>2, SetCellsHeld
  <1>4. st \in StockStatus
    BY HeldTypes DEF HeldInv, PledgeInv, StockStatus
  <1>5. Resolves(l, st)
    <2>1. CASE status[l] = "RESERVED"
      BY <1>2, <1>3, <2>1 DEF Resolves
    <2>2. CASE status[l] # "RESERVED"
      BY <1>2, <1>3, <2>2 DEF Resolves
    <2>3. QED
      BY <2>1, <2>2
  <1> HIDE DEF st
  <1>6. Planned' /\ Claimed'
    BY <1>1, <1>3, <1>4, <1>5, LineClaims
  <1>7. QED
    BY <1>3, <1>6

LEMMA ReserveMoveHeld ==
    ASSUME HeldInv, OrderStockAssumption, StockInv',
           NEW o \in Orders, NEW u \in resv[o].left, ReserveMove(o, u)
    PROVE  EntriesHeld' /\ ReservedExplained' /\ Planned' /\ Claimed'
  <1> DEFINE l == u[1]
             i == u[3]
             q == resv[o].snap[l][i][u[2]]
             c == ReserveUnit(CellOf(l, i), q)
  <1>1. /\ l \in Lines /\ i \in Items /\ u[2] \in Roles
        /\ resv[o].snap[l] \in Recipes \cup {Unmatched}
        /\ l \in resv[o].todo /\ OrderOf[l] = o
    BY HeldTypes DEF HeldInv, PledgeInv, Planned, LinesOf
  <1>2. /\ bal' = [bal EXCEPT ![i] = c.b] /\ journal' = [journal EXCEPT ![l][i] = c.e]
        /\ resv' = [resv EXCEPT ![o].left = @ \ {u}] /\ UNCHANGED status
        /\ resv[o].stage = "running"
    BY DEF ReserveMove
  <1>3. q \in Nat
    <2>1. resv[o].snap[l][i] \in UnitCounts
      BY <1>1 DEF OrderStockAssumption, Recipe, UnitCounts, Unmatched
    <2>2. QED
      BY <1>1, <2>1 DEF Roles, UnitCounts
  <1> HIDE DEF q
  <1>4. Keeps(CellOf(l, i), c)
    BY <1>1, <1>3, CellsHeld, ReserveUnitKeeps
  <1> HIDE DEF c, l, i
  <1>5. /\ bal \in [Items -> NatBalance] /\ journal \in [Lines -> [Items -> NatEntry]]
        /\ resv \in [Orders -> [stage : Stages, todo : SUBSET Lines,
                          left : SUBSET (Lines \X Roles \X Items),
                          snap : [Lines -> Recipes \cup {Unmatched}]]]
    BY HeldTypes DEF HeldInv, PledgeInv
  <1>6. \A k \in Lines \ {l} : journal'[k] = journal[k]
    BY <1>2, <1>5
  <1>7. ASSUME NEW j \in Items
        PROVE  /\ EntryHeld(journal'[l][j])
               /\ bal'[j].reserved - bal[j].reserved
                      = journal'[l][j].res - journal[l][j].res
    <2>1. CASE j = i
      <3>1. journal'[l][j] = c.e /\ bal'[j] = c.b
        BY <1>1, <1>2, <1>5, <2>1
      <3>2. QED
        BY <1>1, <1>4, <2>1, <3>1, CellsHeld DEF Keeps, Held
    <2>2. CASE j # i
      <3>1. journal'[l][j] = journal[l][j] /\ bal'[j] = bal[j]
        BY <1>1, <1>2, <1>5, <2>2
      <3>2. /\ bal[j].reserved \in Nat /\ journal[l][j].res \in Nat
            /\ EntryHeld(journal[l][j])
        BY <1>1, <1>5 DEF NatBalance, NatEntry, HeldInv, EntriesHeld
      <3>3. QED
        BY <3>1, <3>2
    <2>3. QED
      BY <2>1, <2>2
  <1>8. EntriesHeld' /\ ReservedExplained'
    BY <1>1, <1>6, <1>7, OneLineHeld
  <1>9. Planned'
    BY <1>2, <1>5 DEF HeldInv, Planned, LinesOf, PhysicalUnits
  <1>10. ASSUME NEW k \in Lines, NEW j \in Items, journal'[k][j].res > 0
         PROVE  Claims(k)'
    <2>1. CASE k = l
      BY <1>1, <1>2, <1>5, <2>1 DEF Claims
    <2>2. CASE k # l
      <3>1. Claims(k)
        BY <1>6, <1>10, <2>2 DEF HeldInv, Claimed
      <3>2. OrderOf[k] \in Orders
        BY DEF OrderStockAssumption
      <3>3. /\ resv'[OrderOf[k]].stage = resv[OrderOf[k]].stage
            /\ resv'[OrderOf[k]].todo = resv[OrderOf[k]].todo
        BY <1>2, <1>5, <3>2
      <3>4. QED
        BY <1>2, <3>1, <3>3 DEF Claims
    <2>3. QED
      BY <2>1, <2>2
  <1>11. QED
    BY <1>8, <1>9, <1>10 DEF Claimed

(* Loading, ending or abandoning a dispatch moves no stock.                *)
LEMMA DispatchHeld ==
    ASSUME HeldInv, OrderStockAssumption, NEW o \in Orders,
           \/ LoadReservation(o)
           \/ \E l \in resv[o].todo : SetReserved(o, l)
           \/ AbortReservation(o)
    PROVE  EntriesHeld' /\ ReservedExplained' /\ Planned' /\ Claimed'
  <1>1. /\ status \in [Lines -> StockStatus]
        /\ resv \in [Orders -> [stage : Stages, todo : SUBSET Lines,
                          left : SUBSET (Lines \X Roles \X Items),
                          snap : [Lines -> Recipes \cup {Unmatched}]]]
    BY HeldTypes DEF HeldInv, PledgeInv
  <1>2. UNCHANGED <<bal, journal>>
    BY DEF LoadReservation, SetReserved, AbortReservation
  <1>3. EntriesHeld' /\ ReservedExplained'
    BY <1>2, UnmovedHeld
  <1>4. CASE LoadReservation(o)
    <2>1. Planned'
      BY <1>1, <1>4 DEF LoadReservation, HeldInv, Planned, LinesOf, PhysicalUnits
    <2>2. Claimed'
      BY <1>1, <1>2, <1>4 DEF LoadReservation, HeldInv, Claimed, Claims
    <2>3. QED
      BY <1>3, <2>1, <2>2
  <1>5. ASSUME NEW l \in resv[o].todo, SetReserved(o, l)
        PROVE  Planned' /\ Claimed'
    <2>1. l \in Lines /\ OrderOf[l] = o
      BY <1>1 DEF HeldInv, Planned, LinesOf
    <2>2. /\ status' = [status EXCEPT ![l] = "RESERVED"]
          /\ resv' = [resv EXCEPT ![o] =
                 IF resv[o].todo = {l} THEN [NoReservation EXCEPT !.stage = "done"]
                 ELSE [resv[o] EXCEPT !.todo = resv[o].todo \ {l}]]
          /\ PhysicalUnits(l, resv[o].snap[l]) \cap resv[o].left = {}
          /\ resv[o].stage = "running"
      BY <1>5 DEF SetReserved
    <2>3. \A u \in resv[o].left : u[1] # l
      BY <2>2 DEF HeldInv, Planned
    <2>4. Planned'
      <3> SUFFICES ASSUME NEW p \in Orders
                   PROVE  /\ resv'[p].todo \subseteq LinesOf(p)
                          /\ \A u \in resv'[p].left :
                                 /\ u[1] \in resv'[p].todo
                                 /\ u \in PhysicalUnits(u[1], resv'[p].snap[u[1]])
        BY DEF Planned, LinesOf, PhysicalUnits
      <3>1. /\ resv[p].todo \subseteq LinesOf(p)
            /\ \A u \in resv[p].left :
                   /\ u[1] \in resv[p].todo
                   /\ u \in PhysicalUnits(u[1], resv[p].snap[u[1]])
        BY DEF HeldInv, Planned
      <3>2. CASE p # o
        <4>1. resv'[p] = resv[p]
          BY <1>1, <2>2, <3>2
        <4>2. QED
          BY <3>1, <4>1
      <3>3. CASE p = o /\ resv[o].todo = {l}
        <4>1. resv'[p].todo = {} /\ resv'[p].left = {}
          BY <1>1, <2>2, <3>3 DEF NoReservation
        <4>2. QED
          BY <4>1
      <3>4. CASE p = o /\ resv[o].todo # {l}
        <4>1. /\ resv'[p].todo = resv[p].todo \ {l}
              /\ resv'[p].left = resv[p].left /\ resv'[p].snap = resv[p].snap
          BY <1>1, <2>2, <3>4
        <4>2. QED
          BY <2>3, <3>1, <3>4, <4>1
      <3>5. QED
        BY <3>2, <3>3, <3>4
    <2>5. ASSUME NEW k \in Lines, NEW i \in Items, journal'[k][i].res > 0
          PROVE  Claims(k)'
      <3>1. Claims(k)
        BY <1>2, <2>5 DEF HeldInv, Claimed
      <3>2. CASE k = l
        BY <1>1, <2>1, <2>2, <3>2 DEF Claims
      <3>3. CASE k # l /\ OrderOf[k] # o
        BY <1>1, <2>2, <3>1, <3>3 DEF Claims
      <3>4. CASE k # l /\ OrderOf[k] = o
        <4>1. status'[k] = status[k]
          BY <1>1, <2>2, <3>4
        <4>2. CASE status[k] = "RESERVED"
          BY <4>1, <4>2 DEF Claims
        <4>3. CASE status[k] # "RESERVED"
          <5>1. k \in resv[o].todo
            BY <2>2, <3>1, <3>4, <4>3 DEF Claims
          <5>2. /\ resv'[o].stage = "running"
                /\ resv'[o].todo = resv[o].todo \ {l}
            BY <1>1, <2>2, <3>4, <5>1
          <5>3. QED
            BY <3>4, <5>1, <5>2 DEF Claims
        <4>4. QED
          BY <4>2, <4>3
      <3>5. QED
        BY <3>2, <3>3, <3>4
    <2>6. QED
      BY <2>4, <2>5 DEF Claimed
  <1>6. CASE AbortReservation(o)
    <2>1. /\ resv' = [resv EXCEPT ![o] = [NoReservation EXCEPT !.stage = "failed"]]
          /\ UNCHANGED status
      BY <1>6 DEF AbortReservation
    <2>2. Planned'
      BY <1>1, <2>1 DEF HeldInv, Planned, LinesOf, PhysicalUnits, NoReservation
    <2>3. Claimed'
      BY <1>1, <1>2, <2>1
      DEF HeldInv, Claimed, Claims, NoReservation, OrderStockAssumption
    <2>4. QED
      BY <1>3, <2>2, <2>3
  <1>7. QED
    BY <1>3, <1>4, <1>5, <1>6

(* Manual operations on the other buckets.                                 *)
LEMMA ManualHeld ==
    ASSUME HeldInv, "reserved" \notin AdjustBuckets,
           NEW i \in Items,
           \/ \E bucket \in AdjustBuckets, d \in Deltas : adjust(i, bucket, d)
           \/ \E q \in Counts : setOnHand(i, q)
    PROVE  EntriesHeld' /\ ReservedExplained' /\ Planned' /\ Claimed'
  <1>1. bal \in [Items -> NatBalance]
    BY HeldTypes DEF HeldInv, PledgeInv
  <1>2. PICK b : SetBalance(i, b) /\ b.reserved = bal[i].reserved
    <2>1. ASSUME NEW bucket \in AdjustBuckets, NEW d
          PROVE  Shift(bal[i], bucket, d).reserved = bal[i].reserved
      BY DEF Shift
    <2>2. ASSUME NEW d
          PROVE  Shift(bal[i], "onHand", d).reserved = bal[i].reserved
      BY DEF Shift
    <2>3. QED
      BY <2>1, <2>2 DEF adjust, setOnHand
  <1>3. UNCHANGED <<journal, status, resv>>
        /\ \A j \in Items : bal'[j].reserved = bal[j].reserved
    BY <1>1, <1>2 DEF SetBalance
  <1>4. QED
    BY <1>3, UnmovedHeld, SameClaims

LEMMA HeldInitInv ==
    ASSUME StockInit, OrderStockAssumption, MaxQuantityAssumption
    PROVE  HeldInv
  <1>1. PledgeInv
    BY PledgeInitInv
  <1>2. EntriesHeld /\ Claimed
    BY DEF StockInit, NoEntry, EntriesHeld, EntryHeld, Claimed
  <1>3. Planned
    BY DEF StockInit, NoReservation, Planned
  <1>4. ASSUME NEW i \in Items
        PROVE  /\ IsFiniteSet(Stacked(Holding(i), Lines))
               /\ Cardinality(Stacked(Holding(i), Lines)) = bal[i].reserved
    <2>1. Holding(i) \in [Lines -> Nat] /\ \A l \in Lines : Holding(i)[l] = 0
      BY DEF Holding, StockInit, NoEntry
    <2>2. bal[i].reserved = 0
      BY DEF StockInit, EmptyBalance
    <2>3. QED
      BY <2>1, <2>2, StackedEmpty
  <1>5. QED
    BY <1>1, <1>2, <1>3, <1>4 DEF HeldInv, ReservedExplained

LEMMA HeldNextInv ==
    ASSUME HeldInv, OrderStockAssumption, MaxQuantityAssumption,
           ItemKindAssumption, "reserved" \notin AdjustBuckets,
           [StockNext]_stockVars
    PROVE  HeldInv'
  <1>1. PledgeInv' /\ StockInv'
    BY PledgeNextInv DEF HeldInv, PledgeInv
  <1>2. CASE UNCHANGED <<bal, journal, status, resv>>
    BY <1>1, <1>2, UnmovedHeld, SameClaims DEF HeldInv
  <1>3. CASE \E l \in Lines : ReserveLine(l) \/ DeliverLine(l) \/ ReleaseLine(l)
    BY <1>1, <1>3, TransactionHeld DEF HeldInv
  <1>4. CASE \E o \in Orders : \E u \in resv[o].left : ReserveMove(o, u)
    BY <1>1, <1>4, ReserveMoveHeld DEF HeldInv
  <1>5. CASE \E o \in Orders : \/ LoadReservation(o)
                               \/ \E l \in resv[o].todo : SetReserved(o, l)
                               \/ AbortReservation(o)
    BY <1>1, <1>5, DispatchHeld DEF HeldInv
  <1>6. CASE \E l \in Scanned : \E a \in Allocations(recipe[l]) :
                 RecordCondition(l, a)
    BY <1>1, <1>6, ScanHeld DEF HeldInv, OrderStockAssumption
  <1>7. CASE \/ \E i \in Items, bucket \in AdjustBuckets, d \in Deltas :
                    adjust(i, bucket, d)
             \/ \E i \in Items, q \in Counts : setOnHand(i, q)
    BY <1>1, <1>7, ManualHeld DEF HeldInv
  <1>8. QED
    BY <1>2, <1>3, <1>4, <1>5, <1>6, <1>7
    DEF StockNext, stockVars, BeginReserve, BeginDeliver, BeginRelease, Begin,
        EditRecipe

(* As long as nobody adjusts the reserved bucket by hand, the reserved     *)
(* quantity of an item is the number of units its order lines hold.        *)
THEOREM StockReservedExplained ==
    "reserved" \notin AdjustBuckets => (StockSpec => []ReservedExplained)
  <1> SUFFICES ASSUME "reserved" \notin AdjustBuckets
               PROVE  StockSpec => []ReservedExplained
    OBVIOUS
  <1>1. StockInit => HeldInv
    BY HeldInitInv, OrderStockAssumption, MaxQuantityAssumption
  <1>2. HeldInv /\ [StockNext]_stockVars => HeldInv'
    BY HeldNextInv, OrderStockAssumption, MaxQuantityAssumption,
       ItemKindAssumption
  <1>3. HeldInv => ReservedExplained
    BY DEF HeldInv
  <1>4. QED
    BY <1>1, <1>2, <1>3, PTL DEF StockSpec

(* A line that a delivery, a release or a scan has settled holds nothing   *)
(* any more, under the same condition: settlements free all a line holds,  *)
(* also on items that left its product, and nothing reserves for it again. *)
THEOREM StockSettledLineHoldsNothing ==
    "reserved" \notin AdjustBuckets => (StockSpec => []SettledLineHoldsNothing)
  <1> SUFFICES ASSUME "reserved" \notin AdjustBuckets
               PROVE  StockSpec => []SettledLineHoldsNothing
    OBVIOUS
  <1>1. StockInit => HeldInv
    BY HeldInitInv, OrderStockAssumption, MaxQuantityAssumption
  <1>2. HeldInv /\ [StockNext]_stockVars => HeldInv'
    BY HeldNextInv, OrderStockAssumption, MaxQuantityAssumption,
       ItemKindAssumption
  <1>3. HeldInv => SettledLineHoldsNothing
    <2> SUFFICES ASSUME HeldInv, NEW l \in Lines, NEW i \in Items,
                        status[l] \in {"DELIVERED", "RELEASED"},
                        resv[OrderOf[l]].stage \notin {"running", "failed"}
                 PROVE  journal[l][i].res = 0
      BY DEF SettledLineHoldsNothing
    <2>1. ~Claims(l)
      BY DEF Claims
    <2>2. journal[l][i].res \in Nat
      BY HeldTypes DEF HeldInv, PledgeInv, NatEntry
    <2>3. QED
      BY <2>1, <2>2 DEF HeldInv, Claimed
  <1>4. QED
    BY <1>1, <1>2, <1>3, PTL DEF StockSpec

-----------------------------------------------------------------------------
(* A delivery of units that are all reserved first frees them, so that     *)
(* they are available to it, and takes every one.                          *)
LEMMA ReservedUnitsTaken ==
    ASSUME NEW c, Held(c), NEW r \in UnitCounts, NEW st,
           "order-deliver" \notin c.e.used,
           r.product > 0, r.gift = 0, r.packaging = 0,
           c.e.res >= r.product, c.e.taken = 0
    PROVE  DeliverCell(c, r, st).e.taken = r.product
  <1> DEFINE s == SettleReservation(c, "order-deliver-release")
             d == move(s, "ORDER", "onHand", 0 - r.product, "order-deliver")
  <1>1. /\ Keeps(c, s) /\ s.e.res = 0 /\ s.e.taken = c.e.taken
        /\ s.e.used \subseteq c.e.used \cup {"order-deliver-release"}
        /\ s.b.onHand = c.b.onHand /\ s.b.damaged = c.b.damaged
    BY SettleReservationKeeps DEF SettleKeys
  <1> HIDE DEF s
  <1>2. CellOK(c) /\ CellOK(s)
    BY <1>1 DEF Keeps, Held
  <1>3. r.product \in Nat /\ 0 - r.product \in Int /\ 0 - r.product < 0
    BY DEF UnitCounts
  <1>4. s.b.onHand - s.b.reserved - s.b.damaged + (0 - r.product) >= 0
    <2>1. s.b.reserved = c.b.reserved - c.e.res
      BY <1>1, <1>2, HeldNumbers DEF Keeps
    <2>2. c.b.reserved + c.b.damaged <= c.b.onHand
      BY <1>2 DEF CellOK
    <2>3. QED
      BY <1>1, <1>2, <1>3, <2>1, <2>2, HeldNumbers
  <1>5. "order-deliver" \notin s.e.used
    BY <1>1
  <1>6. d.e.taken = s.e.taken - (0 - r.product)
    BY <1>2, <1>3, <1>4, <1>5, DeductionEffect DEF Keys
  <1> HIDE DEF d
  <1>7. DeliverCell(c, r, st) = d
    BY <1>3 DEF DeliverCell, DeliverUnit, ConsumePackaging, Orphan, s, d
  <1>8. QED
    BY <1>1, <1>3, <1>6, <1>7

(* Only the delivery of a line makes it DELIVERED.                         *)
LEMMA OnlyDeliveryDelivers ==
    ASSUME StockInv, [StockNext]_stockVars, NEW l \in Lines,
           status[l] # "DELIVERED", status'[l] = "DELIVERED"
    PROVE  SetCells(l, [i \in Items |->
               DeliverCell(CellOf(l, i), recipe[l][i], status[l])])
  <1>1. status \in [Lines -> StockStatus]
        /\ \A o \in Orders : resv[o].todo \subseteq Lines
    BY HeldTypes
  <1>2. PICK k \in Lines : DeliverLine(k)
    BY <1>1
    DEF StockNext, stockVars, BeginReserve, BeginDeliver, BeginRelease, Begin,
        ReserveLine, ReleaseLine, SkipLine, LoadReservation, ReserveMove,
        SetReserved, AbortReservation, RecordCondition, adjust, setOnHand,
        SetBalance, EditRecipe
  <1>3. k = l /\ ~SkipLine(l)
    BY <1>1, <1>2 DEF DeliverLine, SkipLine
  <1>4. QED
    BY <1>2, <1>3 DEF DeliverLine

(* The promise of a reservation: a delivery whose units are all reserved   *)
(* takes every one, whatever others reserved and merchants adjusted.       *)
THEOREM StockReservedDeliveryNeverShort ==
    "reserved" \notin AdjustBuckets => (StockSpec => ReservedDeliveryNeverShort)
  <1> SUFFICES ASSUME "reserved" \notin AdjustBuckets
               PROVE  StockSpec => ReservedDeliveryNeverShort
    OBVIOUS
  <1> DEFINE Step == \A l \in Lines, i \in Items :
                 LET r == recipe[l][i] IN
                     /\ status[l] # "DELIVERED" /\ status'[l] = "DELIVERED"
                     /\ r.product > 0 /\ r.gift = 0 /\ r.packaging = 0
                     /\ journal[l][i].res >= r.product /\ journal[l][i].taken = 0
                     => journal'[l][i].taken = r.product
  <1>1. StockInit => HeldInv
    BY HeldInitInv, OrderStockAssumption, MaxQuantityAssumption
  <1>2. HeldInv /\ [StockNext]_stockVars => HeldInv'
    BY HeldNextInv, OrderStockAssumption, MaxQuantityAssumption,
       ItemKindAssumption
  <1>3. ASSUME HeldInv, [StockNext]_stockVars
        PROVE  Step
    <2> SUFFICES ASSUME NEW l \in Lines, NEW i \in Items,
                        status[l] # "DELIVERED", status'[l] = "DELIVERED",
                        recipe[l][i].product > 0, recipe[l][i].gift = 0,
                        recipe[l][i].packaging = 0,
                        journal[l][i].res >= recipe[l][i].product,
                        journal[l][i].taken = 0
                 PROVE  journal'[l][i].taken = recipe[l][i].product
      OBVIOUS
    <2>1. journal'[l][i] = DeliverCell(CellOf(l, i), recipe[l][i], status[l]).e
      BY <1>3, OnlyDeliveryDelivers, HeldTypes DEF SetCells, HeldInv, PledgeInv
    <2>2. Held(CellOf(l, i)) /\ CellOf(l, i).e = journal[l][i]
      BY <1>3, CellsHeld
    <2>3. recipe[l][i] \in UnitCounts
      BY <1>3, RecipeUnits, OrderStockAssumption DEF HeldInv, PledgeInv
    <2>4. "order-deliver" \notin journal[l][i].used
      <3>1. "order-deliver" \in journal[l][i].used => journal[l][i].taken > 0
        BY <1>3, <2>2 DEF HeldInv, PledgeInv, CellsTell, CellTells, EntryTells
      <3>2. QED
        BY <3>1
    <2>5. QED
      BY <2>1, <2>2, <2>3, <2>4, ReservedUnitsTaken
  <1>4. HeldInv /\ [StockNext]_stockVars => [Step]_stockVars
    BY <1>3
  <1>5. QED
    BY <1>1, <1>2, <1>4, PTL DEF StockSpec, ReservedDeliveryNeverShort

-----------------------------------------------------------------------------
(* The ledger.                                                             *)

(* The keys in use are exactly those of the events there are: the first    *)
(* reversal has key 0, the one after the n-th reinstatement key n, and     *)
(* the n-th reinstatement is keyed by the n-th reversal.                   *)
KeysExact ==
    \A o \in LedgerOrders :
        /\ reversedFor[o] = {n \in Nat : n < reversals[o]}
        /\ reinstatedFor[o] = {n \in Nat : 0 < n /\ n <= reinstatements[o]}

(* A delivered order has as many reinstatements as reversals; one that     *)
(* failed after it was recognized has one reversal more.                   *)
OutcomeCounted ==
    \A o \in LedgerOrders :
        /\ carrier[o] = "delivered" => /\ recognized[o].booked
                                       /\ reversals[o] = reinstatements[o]
        /\ carrier[o] # "delivered" /\ recognized[o].booked
                => reversals[o] = reinstatements[o] + 1
        /\ ~recognized[o].booked => /\ recognized[o] = None
                                    /\ reversals[o] = 0
                                    /\ reinstatements[o] = 0

LedgerInv ==
    /\ LedgerTypeOK
    /\ KeysExact
    /\ OutcomeCounted
    /\ RevenueFollowsCarrier
    /\ ProfitAddsUp
    /\ CostsChargedOnce

(* Alternation is a consequence of the counts.                             *)
LEMMA InvAlternates ==
    ASSUME LedgerInv PROVE CorrectionsAlternate
  BY DEF LedgerInv, LedgerTypeOK, OutcomeCounted, CorrectionsAlternate, Event

LEMMA LedgerInitInv ==
    ASSUME LedgerInit PROVE LedgerInv
  <1>1. LedgerTypeOK
    BY DEF LedgerInit, LedgerTypeOK, None, Event, Book, EmptyBook, Outcomes
  <1>2. KeysExact /\ OutcomeCounted
    BY DEF LedgerInit, KeysExact, OutcomeCounted, None
  <1>3. RevenueFollowsCarrier /\ ProfitAddsUp /\ CostsChargedOnce
    BY DEF LedgerInit, RevenueFollowsCarrier, ProfitAddsUp, CostsChargedOnce,
           None, EmptyBook
  <1>4. QED
    BY <1>1, <1>2, <1>3 DEF LedgerInv

-----------------------------------------------------------------------------
(* The types of the columns an event adds.                                 *)
LEMMA AddType ==
    ASSUME NEW b \in Book, NEW e \in Book PROVE Add(b, e) \in Book
  BY DEF Add, Book

(* The columns of an order's book after an event, and the other orders.    *)
LEMMA AddColumns ==
    ASSUME NEW b \in Book, NEW e \in Book
    PROVE  /\ Add(b, e).revenue = b.revenue + e.revenue
           /\ Add(b, e).productCost = b.productCost + e.productCost
           /\ Add(b, e).shippingCost = b.shippingCost + e.shippingCost
           /\ Add(b, e).damageCost = b.damageCost + e.damageCost
           /\ Add(b, e).giftCost = b.giftCost + e.giftCost
           /\ Add(b, e).packagingCost = b.packagingCost + e.packagingCost
           /\ Add(b, e).netProfit = b.netProfit + e.netProfit
  BY DEF Add

(* What the summary of one order says: the three invariants at an order.   *)
SumsOK(c, r, loss, b) ==
    /\ b.revenue = IF c = "delivered" THEN r.revenue ELSE 0
    /\ b.productCost = IF c = "delivered" THEN r.productCost ELSE 0
    /\ c = "delivered" => r.booked
    /\ b.netProfit = b.revenue - b.productCost - b.shippingCost
                     - b.damageCost - b.giftCost - b.packagingCost
    /\ b.shippingCost = IF loss # 0 THEN loss ELSE r.shippingCost
    /\ b.giftCost = r.giftCost /\ b.packagingCost = r.packagingCost

LEMMA SumsPointwise ==
    /\ RevenueFollowsCarrier /\ ProfitAddsUp /\ CostsChargedOnce
       <=> \A o \in LedgerOrders :
              SumsOK(carrier[o], recognized[o], shippingLoss[o], book[o])
    /\ RevenueFollowsCarrier' /\ ProfitAddsUp' /\ CostsChargedOnce'
       <=> \A o \in LedgerOrders :
              SumsOK(carrier'[o], recognized'[o], shippingLoss'[o], book'[o])
  BY DEF RevenueFollowsCarrier, ProfitAddsUp, CostsChargedOnce, SumsOK

(* Adding a recognized delivery to an order that shows none, and taking it *)
(* out of one that does.                                                   *)
LEMMA MovedSums ==
    ASSUME NEW e \in Event, NEW b \in Book, NEW loss, NEW c,
           c # "delivered", e.booked, SumsOK(c, e, loss, b)
    PROVE  SumsOK("delivered", e, loss, Add(b,
               [revenue |-> e.revenue, productCost |-> e.productCost,
                shippingCost |-> 0, damageCost |-> 0, giftCost |-> 0,
                packagingCost |-> 0, netProfit |-> e.revenue - e.productCost]))
  BY DEF SumsOK, Add, Event, Book

LEMMA UndoneSums ==
    ASSUME NEW e \in Event, NEW b \in Book, NEW loss, NEW c,
           c # "delivered", SumsOK("delivered", e, loss, b)
    PROVE  SumsOK(c, e, loss, Add(b,
               [revenue |-> 0 - e.revenue, productCost |-> 0 - e.productCost,
                shippingCost |-> 0, damageCost |-> 0, giftCost |-> 0,
                packagingCost |-> 0, netProfit |-> e.productCost - e.revenue]))
  BY DEF SumsOK, Add, Event, Book

LEMMA DamagedSums ==
    ASSUME NEW e \in Event, NEW b \in Book, NEW loss, NEW c, NEW delta \in Int,
           SumsOK(c, e, loss, b)
    PROVE  SumsOK(c, e, loss, Add(b, DamageRow(delta)))
  BY DEF SumsOK, Add, DamageRow, Event, Book

LEMMA PostRecognitionInv ==
    ASSUME LedgerInv, OrderLedgerAssumption, NEW o \in LedgerOrders,
           NEW price \in Prices, NEW fee \in Fees, ~recognized[o].booked,
           PostRecognition(o, Recognition(o, price, fee)),
           carrier' = [carrier EXCEPT ![o] = "delivered"],
           UNCHANGED <<shippingLoss, lineLoss>>
    PROVE  LedgerInv'
  <1> DEFINE e == Recognition(o, price, fee)
             row == [revenue |-> e.revenue, productCost |-> e.productCost,
                     shippingCost |-> e.shippingCost, damageCost |-> 0,
                     giftCost |-> e.giftCost, packagingCost |-> e.packagingCost,
                     netProfit |-> e.revenue - e.productCost - e.shippingCost
                                   - e.giftCost - e.packagingCost]
  <1>1. e \in Event /\ e.booked
    BY DEF Recognition, Event, OrderLedgerAssumption, Price
  <1>2. e.shippingCost = IF shippingLoss[o] # 0 THEN 0 ELSE fee
    BY DEF Recognition
  <1> HIDE DEF e
  <1>3. row \in Book
    BY <1>1 DEF Event, Book
  <1>4. /\ recognized' = [recognized EXCEPT ![o] = e]
        /\ book' = [book EXCEPT ![o] = Add(book[o], row)]
        /\ UNCHANGED <<reversals, reversedFor, reinstatements, reinstatedFor>>
    BY DEF PostRecognition, e
  <1>5. /\ reversals[o] = 0 /\ reinstatements[o] = 0 /\ recognized[o] = None
        /\ carrier[o] # "delivered"
    BY DEF LedgerInv, OutcomeCounted
  <1>6. LedgerTypeOK'
    <2>1. Add(book[o], row) \in Book
      BY <1>3, AddType DEF LedgerInv, LedgerTypeOK
    <2>2. QED
      BY <1>1, <1>4, <2>1 DEF LedgerInv, LedgerTypeOK, Outcomes
  <1>7. KeysExact' /\ OutcomeCounted'
    BY <1>1, <1>4, <1>5
    DEF LedgerInv, LedgerTypeOK, KeysExact, OutcomeCounted
  <1>8. /\ book[o] \in Book /\ book'[o] = Add(book[o], row)
        /\ recognized'[o] = e /\ carrier'[o] = "delivered"
        /\ book[o].revenue = 0 /\ book[o].productCost = 0
        /\ book[o].shippingCost = shippingLoss[o]
        /\ book[o].giftCost = 0 /\ book[o].packagingCost = 0
        /\ book[o].netProfit = 0 - book[o].shippingCost - book[o].damageCost
        /\ shippingLoss'[o] = shippingLoss[o] /\ shippingLoss[o] \in Nat
        /\ fee \in Int
    BY <1>4, <1>5
    DEF LedgerInv, LedgerTypeOK, RevenueFollowsCarrier, ProfitAddsUp,
        CostsChargedOnce, None, Book, OrderLedgerAssumption
  <1>9. \A p \in LedgerOrders \ {o} :
           /\ recognized'[p] = recognized[p] /\ book'[p] = book[p]
           /\ carrier'[p] = carrier[p] /\ shippingLoss'[p] = shippingLoss[p]
    BY <1>4 DEF LedgerInv, LedgerTypeOK
  <1>10. SumsOK(carrier'[o], recognized'[o], shippingLoss'[o], book'[o])
    <2>1. e.revenue \in Int /\ e.productCost \in Int /\ e.shippingCost \in Int
          /\ e.giftCost \in Int /\ e.packagingCost \in Int
      BY <1>1 DEF Event
    <2>2. /\ book'[o].revenue = e.revenue
          /\ book'[o].productCost = e.productCost
          /\ book'[o].shippingCost = book[o].shippingCost + e.shippingCost
          /\ book'[o].damageCost = book[o].damageCost
          /\ book'[o].giftCost = e.giftCost
          /\ book'[o].packagingCost = e.packagingCost
          /\ book'[o].netProfit = book[o].netProfit + (e.revenue
                - e.productCost - e.shippingCost - e.giftCost - e.packagingCost)
      BY <1>8, <2>1 DEF Add, Book
    <2>3. book[o].shippingCost \in Int /\ book[o].damageCost \in Int
      BY <1>8 DEF Book
    <2>4. /\ carrier'[o] = "delivered" /\ recognized'[o] = e
          /\ shippingLoss'[o] = shippingLoss[o] /\ shippingLoss[o] \in Nat
          /\ book[o].shippingCost = shippingLoss[o]
          /\ book[o].netProfit = 0 - book[o].shippingCost - book[o].damageCost
      BY <1>8
    <2>5. book'[o].shippingCost = IF shippingLoss'[o] # 0 THEN shippingLoss'[o]
                                  ELSE e.shippingCost
      BY <1>2, <1>8, <2>1, <2>2, <2>4
    <2>6. book'[o].netProfit = book'[o].revenue - book'[o].productCost
              - book'[o].shippingCost - book'[o].damageCost
              - book'[o].giftCost - book'[o].packagingCost
      BY <2>1, <2>2, <2>3, <2>4
    <2>7. QED
      BY <1>1, <2>2, <2>4, <2>5, <2>6 DEF SumsOK
  <1>11. RevenueFollowsCarrier' /\ ProfitAddsUp' /\ CostsChargedOnce'
    BY <1>9, <1>10, SumsPointwise DEF LedgerInv
  <1>12. QED
    BY <1>6, <1>7, <1>11 DEF LedgerInv

LEMMA PostReinstatementInv ==
    ASSUME LedgerInv, NEW o \in LedgerOrders, recognized[o].booked,
           reversals[o] # 0, reversals[o] \notin reinstatedFor[o],
           PostReinstatement(o),
           carrier' = [carrier EXCEPT ![o] = "delivered"],
           UNCHANGED <<shippingLoss, lineLoss>>
    PROVE  LedgerInv'
  <1> DEFINE e == recognized[o]
             row == [revenue |-> e.revenue, productCost |-> e.productCost,
                     shippingCost |-> 0, damageCost |-> 0, giftCost |-> 0,
                     packagingCost |-> 0,
                     netProfit |-> e.revenue - e.productCost]
  <1>1. e \in Event /\ row \in Book /\ book[o] \in Book
    BY DEF LedgerInv, LedgerTypeOK, Event, Book
  <1>2. /\ book' = [book EXCEPT ![o] = Add(book[o], row)]
        /\ reinstatements' = [reinstatements EXCEPT ![o] = reinstatements[o] + 1]
        /\ reinstatedFor' = [reinstatedFor EXCEPT ![o] =
                                reinstatedFor[o] \cup {reversals[o]}]
        /\ UNCHANGED <<recognized, reversals, reversedFor>>
    BY DEF PostReinstatement
  <1>3. /\ reversals[o] \in Nat /\ reinstatements[o] \in Nat
        /\ reversals[o] = reinstatements[o] + 1
        /\ carrier[o] # "delivered"
    BY DEF LedgerInv, LedgerTypeOK, KeysExact, OutcomeCounted
  <1>4. LedgerTypeOK'
    <2>1. Add(book[o], row) \in Book
      BY <1>1, AddType
    <2>2. QED
      BY <1>2, <1>3, <2>1 DEF LedgerInv, LedgerTypeOK, Outcomes
  <1>5. KeysExact'
    <2>1. /\ reinstatedFor'[o] = reinstatedFor[o] \cup {reversals[o]}
          /\ reinstatements'[o] = reinstatements[o] + 1
          /\ reversals'[o] = reversals[o] /\ reversedFor'[o] = reversedFor[o]
      BY <1>2 DEF LedgerInv, LedgerTypeOK
    <2>2. reinstatedFor[o] = {n \in Nat : 0 < n /\ n <= reinstatements[o]}
      BY DEF LedgerInv, KeysExact
    <2>3. {n \in Nat : 0 < n /\ n <= reinstatements[o]} \cup {reversals[o]}
             = {n \in Nat : 0 < n /\ n <= reinstatements[o] + 1}
      BY <1>3
    <2>4. \A p \in LedgerOrders \ {o} :
             /\ reinstatedFor'[p] = reinstatedFor[p]
             /\ reinstatements'[p] = reinstatements[p]
             /\ reversals'[p] = reversals[p] /\ reversedFor'[p] = reversedFor[p]
      BY <1>2 DEF LedgerInv, LedgerTypeOK
    <2>5. QED
      BY <2>1, <2>2, <2>3, <2>4 DEF LedgerInv, KeysExact
  <1>6. OutcomeCounted'
    BY <1>2, <1>3 DEF LedgerInv, LedgerTypeOK, OutcomeCounted
  <1>7. /\ book'[o] = Add(book[o], row) /\ carrier'[o] = "delivered"
        /\ book[o].revenue = 0 /\ book[o].productCost = 0
        /\ recognized'[o] = e /\ shippingLoss'[o] = shippingLoss[o]
    BY <1>2, <1>3 DEF LedgerInv, LedgerTypeOK, RevenueFollowsCarrier
  <1>8. \A p \in LedgerOrders \ {o} :
           /\ recognized'[p] = recognized[p] /\ book'[p] = book[p]
           /\ carrier'[p] = carrier[p] /\ shippingLoss'[p] = shippingLoss[p]
    BY <1>2 DEF LedgerInv, LedgerTypeOK
  <1>9. SumsOK(carrier'[o], recognized'[o], shippingLoss'[o], book'[o])
    <2>1. SumsOK(carrier[o], e, shippingLoss[o], book[o])
      BY SumsPointwise DEF LedgerInv
    <2>2. QED
      BY <1>1, <1>3, <1>7, <2>1, MovedSums
  <1>10. RevenueFollowsCarrier' /\ ProfitAddsUp' /\ CostsChargedOnce'
    BY <1>8, <1>9, SumsPointwise DEF LedgerInv
  <1>11. QED
    BY <1>4, <1>5, <1>6, <1>10 DEF LedgerInv

LEMMA PostReversalInv ==
    ASSUME LedgerInv, NEW o \in LedgerOrders, recognized[o].booked,
           NEW key, key = IF 0 \notin reversedFor[o] THEN 0 ELSE reinstatements[o],
           key \notin reversedFor[o], PostReversal(o, key),
           NEW c \in {"cancelled", "refused"},
           carrier' = [carrier EXCEPT ![o] = c],
           UNCHANGED <<shippingLoss, lineLoss>>
    PROVE  LedgerInv'
  <1> DEFINE e == recognized[o]
             row == [revenue |-> 0 - e.revenue, productCost |-> 0 - e.productCost,
                     shippingCost |-> 0, damageCost |-> 0, giftCost |-> 0,
                     packagingCost |-> 0,
                     netProfit |-> e.productCost - e.revenue]
  <1>1. e \in Event /\ row \in Book /\ book[o] \in Book
    BY DEF LedgerInv, LedgerTypeOK, Event, Book
  <1>2. /\ book' = [book EXCEPT ![o] = Add(book[o], row)]
        /\ reversals' = [reversals EXCEPT ![o] = reversals[o] + 1]
        /\ reversedFor' = [reversedFor EXCEPT ![o] = reversedFor[o] \cup {key}]
        /\ UNCHANGED <<recognized, reinstatements, reinstatedFor>>
    BY DEF PostReversal
  <1>3. /\ reversals[o] \in Nat /\ reinstatements[o] \in Nat /\ key \in Nat
        /\ key = reversals[o] /\ reversals[o] = reinstatements[o]
        /\ carrier[o] = "delivered"
    BY DEF LedgerInv, LedgerTypeOK, KeysExact, OutcomeCounted
  <1>4. LedgerTypeOK'
    <2>1. Add(book[o], row) \in Book
      BY <1>1, AddType
    <2>2. QED
      BY <1>2, <1>3, <2>1 DEF LedgerInv, LedgerTypeOK, Outcomes
  <1>5. KeysExact'
    <2>1. /\ reversedFor'[o] = reversedFor[o] \cup {key}
          /\ reversals'[o] = reversals[o] + 1
          /\ reinstatements'[o] = reinstatements[o]
          /\ reinstatedFor'[o] = reinstatedFor[o]
      BY <1>2 DEF LedgerInv, LedgerTypeOK
    <2>2. reversedFor[o] = {n \in Nat : n < reversals[o]}
      BY DEF LedgerInv, KeysExact
    <2>3. {n \in Nat : n < reversals[o]} \cup {key}
             = {n \in Nat : n < reversals[o] + 1}
      BY <1>3
    <2>4. \A p \in LedgerOrders \ {o} :
             /\ reversedFor'[p] = reversedFor[p] /\ reversals'[p] = reversals[p]
             /\ reinstatements'[p] = reinstatements[p]
             /\ reinstatedFor'[p] = reinstatedFor[p]
      BY <1>2 DEF LedgerInv, LedgerTypeOK
    <2>5. QED
      BY <2>1, <2>2, <2>3, <2>4 DEF LedgerInv, KeysExact
  <1>6. OutcomeCounted'
    BY <1>2, <1>3 DEF LedgerInv, LedgerTypeOK, OutcomeCounted
  <1>7. /\ book'[o] = Add(book[o], row) /\ carrier'[o] # "delivered"
        /\ recognized'[o] = e /\ shippingLoss'[o] = shippingLoss[o]
    BY <1>2, <1>3 DEF LedgerInv, LedgerTypeOK
  <1>8. \A p \in LedgerOrders \ {o} :
           /\ recognized'[p] = recognized[p] /\ book'[p] = book[p]
           /\ carrier'[p] = carrier[p] /\ shippingLoss'[p] = shippingLoss[p]
    BY <1>2 DEF LedgerInv, LedgerTypeOK
  <1>9. SumsOK(carrier'[o], recognized'[o], shippingLoss'[o], book'[o])
    <2>1. SumsOK(carrier[o], e, shippingLoss[o], book[o])
      BY SumsPointwise DEF LedgerInv
    <2>2. QED
      BY <1>1, <1>3, <1>7, <2>1, UndoneSums
  <1>10. RevenueFollowsCarrier' /\ ProfitAddsUp' /\ CostsChargedOnce'
    BY <1>8, <1>9, SumsPointwise DEF LedgerInv
  <1>11. QED
    BY <1>4, <1>5, <1>6, <1>10 DEF LedgerInv

(* An outcome that posts nothing confirms the last one: a repeated         *)
(* delivery, or a failure of an order that has nothing to reverse.         *)
LEMMA PostNothingInv ==
    ASSUME LedgerInv, NEW o \in LedgerOrders, PostNothing,
           NEW c \in Outcomes \ {"none"}, carrier' = [carrier EXCEPT ![o] = c],
           c = "delivered" <=> carrier[o] = "delivered",
           UNCHANGED <<shippingLoss, lineLoss>>
    PROVE  LedgerInv'
  <1>1. /\ carrier'[o] = c
        /\ \A p \in LedgerOrders \ {o} : carrier'[p] = carrier[p]
    BY DEF LedgerInv, LedgerTypeOK
  <1>2. LedgerTypeOK'
    BY DEF PostNothing, LedgerInv, LedgerTypeOK
  <1>3. KeysExact'
    BY DEF PostNothing, LedgerInv, KeysExact
  <1>4. OutcomeCounted'
    BY <1>1 DEF PostNothing, LedgerInv, OutcomeCounted
  <1>5. RevenueFollowsCarrier'
    BY <1>1 DEF PostNothing, LedgerInv, RevenueFollowsCarrier
  <1>6. ProfitAddsUp' /\ CostsChargedOnce'
    BY DEF PostNothing, LedgerInv, ProfitAddsUp, CostsChargedOnce
  <1>7. QED
    BY <1>2, <1>3, <1>4, <1>5, <1>6 DEF LedgerInv

-----------------------------------------------------------------------------
LEMMA BookDeliveredInv ==
    ASSUME LedgerInv, OrderLedgerAssumption, NEW o \in LedgerOrders,
           NEW price \in Prices, NEW fee \in Fees, BookDelivered(o, price, fee)
    PROVE  LedgerInv'
  <1>1. /\ carrier' = [carrier EXCEPT ![o] = "delivered"]
        /\ UNCHANGED <<shippingLoss, lineLoss>>
        /\ applyRevenueRecognition(o, price, fee)
    BY DEF BookDelivered
  <1>2. CASE ~recognized[o].booked
    BY <1>1, <1>2, PostRecognitionInv DEF applyRevenueRecognition
  <1>3. CASE /\ recognized[o].booked
             /\ reversals[o] = 0 \/ reversals[o] \in reinstatedFor[o]
    <2>1. carrier[o] = "delivered"
      BY <1>3 DEF LedgerInv, LedgerTypeOK, KeysExact, OutcomeCounted
    <2>2. PostNothing
      BY <1>1, <1>3 DEF applyRevenueRecognition
    <2>3. QED
      BY <1>1, <2>1, <2>2, PostNothingInv DEF Outcomes
  <1>4. CASE /\ recognized[o].booked /\ reversals[o] # 0
             /\ reversals[o] \notin reinstatedFor[o]
    BY <1>1, <1>4, PostReinstatementInv DEF applyRevenueRecognition
  <1>5. QED
    BY <1>2, <1>3, <1>4

LEMMA ReversalInv ==
    ASSUME LedgerInv, NEW o \in LedgerOrders, applyRevenueReversal(o),
           NEW c \in {"cancelled", "refused"},
           carrier' = [carrier EXCEPT ![o] = c],
           UNCHANGED <<shippingLoss, lineLoss>>
    PROVE  LedgerInv'
  <1> DEFINE key == IF 0 \notin reversedFor[o] THEN 0 ELSE reinstatements[o]
  <1>1. CASE key \in reversedFor[o] \/ ~recognized[o].booked
    <2>1. carrier[o] # "delivered"
      BY <1>1 DEF LedgerInv, LedgerTypeOK, KeysExact, OutcomeCounted
    <2>2. PostNothing
      BY <1>1 DEF applyRevenueReversal
    <2>3. c \in Outcomes \ {"none"} /\ c # "delivered"
      BY DEF Outcomes
    <2>4. QED
      BY <2>1, <2>2, <2>3, PostNothingInv
  <1>2. CASE key \notin reversedFor[o] /\ recognized[o].booked
    <2>1. PostReversal(o, key)
      BY <1>2 DEF applyRevenueReversal
    <2>2. QED
      BY <1>2, <2>1, PostReversalInv
  <1>3. QED
    BY <1>1, <1>2

LEMMA BookRefusedInv ==
    ASSUME LedgerInv, OrderLedgerAssumption, NEW o \in LedgerOrders,
           NEW fee \in Fees, BookRefused(o, fee)
    PROVE  LedgerInv'
  <1>1. carrier' = [carrier EXCEPT ![o] = "refused"] /\ UNCHANGED lineLoss
    BY DEF BookRefused
  <1>2. CASE applyRevenueReversal(o) /\ UNCHANGED shippingLoss
    BY <1>1, <1>2, ReversalInv
  <1>3. CASE /\ ~recognized[o].booked /\ shippingLoss[o] = 0 /\ fee > 0
             /\ shippingLoss' = [shippingLoss EXCEPT ![o] = fee]
             /\ book' = [book EXCEPT ![o] = Add(book[o], ShippingRow(fee))]
             /\ UNCHANGED <<recognized, reversals, reversedFor, reinstatements,
                            reinstatedFor>>
    <2>1. fee \in Int /\ book[o] \in Book /\ ShippingRow(fee) \in Book
      BY DEF OrderLedgerAssumption, LedgerInv, LedgerTypeOK, ShippingRow, Book
    <2>2. Add(book[o], ShippingRow(fee)) \in Book
      BY <2>1, AddType
    <2>3. LedgerTypeOK'
      BY <1>1, <1>3, <2>1, <2>2 DEF LedgerInv, LedgerTypeOK, Outcomes
    <2>4. recognized[o] = None /\ carrier[o] # "delivered"
      BY <1>3 DEF LedgerInv, OutcomeCounted
    <2>5. KeysExact'
      BY <1>3 DEF LedgerInv, KeysExact
    <2>6. OutcomeCounted'
      BY <1>1, <1>3, <2>4 DEF LedgerInv, LedgerTypeOK, OutcomeCounted
    <2>7. /\ carrier'[o] = "refused" /\ recognized'[o] = None
          /\ shippingLoss'[o] = fee
          /\ book'[o] = Add(book[o], ShippingRow(fee))
      BY <1>1, <1>3, <2>4 DEF LedgerInv, LedgerTypeOK
    <2>8. \A p \in LedgerOrders \ {o} :
             /\ recognized'[p] = recognized[p] /\ book'[p] = book[p]
             /\ carrier'[p] = carrier[p] /\ shippingLoss'[p] = shippingLoss[p]
      BY <1>1, <1>3 DEF LedgerInv, LedgerTypeOK
    <2>9. SumsOK(carrier[o], None, 0, book[o])
      BY <1>3, <2>4, SumsPointwise DEF LedgerInv
    <2>10. SumsOK("refused", None, fee, Add(book[o], ShippingRow(fee)))
      BY <1>3, <2>1, <2>4, <2>9 DEF SumsOK, Add, ShippingRow, None, Book
    <2>11. RevenueFollowsCarrier' /\ ProfitAddsUp' /\ CostsChargedOnce'
      BY <2>7, <2>8, <2>10, SumsPointwise DEF LedgerInv
    <2>12. QED
      BY <2>3, <2>5, <2>6, <2>11 DEF LedgerInv
  <1>4. QED
    BY <1>2, <1>3 DEF BookRefused

LEMMA SetLineLossInv ==
    ASSUME LedgerInv, OrderLedgerAssumption, NEW o \in LedgerOrders,
           NEW l \in LedgerLines, NEW target \in Int,
           setLineLoss(o, l, target)
    PROVE  LedgerInv'
  <1> DEFINE delta == target - lineLoss[o][l]
  <1>1. /\ delta \in Int /\ lineLoss[o][l] + delta \in Int
        /\ book[o] \in Book
    BY DEF OrderLedgerAssumption, LedgerInv, LedgerTypeOK
  <1>2. /\ lineLoss' = [lineLoss EXCEPT ![o][l] = lineLoss[o][l] + delta]
        /\ book' = [book EXCEPT ![o] = Add(book[o], DamageRow(delta))]
        /\ UNCHANGED <<recognized, reversals, reversedFor, reinstatements,
                       reinstatedFor, shippingLoss, carrier>>
    BY DEF setLineLoss
  <1> HIDE DEF delta
  <1>3. DamageRow(delta) \in Book
    BY <1>1 DEF DamageRow, Book
  <1>4. Add(book[o], DamageRow(delta)) \in Book
    BY <1>1, <1>3, AddType
  <1>5. LedgerTypeOK'
    BY <1>1, <1>2, <1>4 DEF LedgerInv, LedgerTypeOK
  <1>6. KeysExact' /\ OutcomeCounted'
    BY <1>2 DEF LedgerInv, KeysExact, OutcomeCounted
  <1>7. book'[o] = Add(book[o], DamageRow(delta))
    BY <1>2 DEF LedgerInv, LedgerTypeOK
  <1>8. \A p \in LedgerOrders \ {o} : book'[p] = book[p]
    BY <1>2 DEF LedgerInv, LedgerTypeOK
  <1>9. SumsOK(carrier[o], recognized[o], shippingLoss[o], book[o])
    BY SumsPointwise DEF LedgerInv
  <1>10. recognized[o] \in Event
    BY DEF LedgerInv, LedgerTypeOK
  <1>11. SumsOK(carrier[o], recognized[o], shippingLoss[o],
                Add(book[o], DamageRow(delta)))
    BY <1>1, <1>9, <1>10, DamagedSums
  <1>12. RevenueFollowsCarrier' /\ ProfitAddsUp' /\ CostsChargedOnce'
    BY <1>2, <1>7, <1>8, <1>11, SumsPointwise DEF LedgerInv
  <1>13. QED
    BY <1>5, <1>6, <1>12 DEF LedgerInv

LEMMA LedgerNextInv ==
    ASSUME LedgerInv, OrderLedgerAssumption, [LedgerNext]_ledgerVars
    PROVE  LedgerInv'
  <1>1. CASE UNCHANGED ledgerVars
    BY <1>1 DEF ledgerVars, LedgerInv, LedgerTypeOK, KeysExact, OutcomeCounted,
                RevenueFollowsCarrier, ProfitAddsUp, CostsChargedOnce
  <1>2. ASSUME NEW o \in LedgerOrders, NEW price \in Prices, NEW fee \in Fees,
               BookDelivered(o, price, fee)
        PROVE  LedgerInv'
    BY <1>2, BookDeliveredInv
  <1>3. ASSUME NEW o \in LedgerOrders, BookCancelled(o)
        PROVE  LedgerInv'
    BY <1>3, ReversalInv DEF BookCancelled
  <1>4. ASSUME NEW o \in LedgerOrders, NEW fee \in Fees, BookRefused(o, fee)
        PROVE  LedgerInv'
    BY <1>4, BookRefusedInv
  <1>5. ASSUME NEW o \in LedgerOrders, NEW l \in LedgerLines,
               NEW target \in Losses, setLineLoss(o, l, target)
        PROVE  LedgerInv'
    BY <1>5, SetLineLossInv DEF OrderLedgerAssumption
  <1>6. QED
    BY <1>1, <1>2, <1>3, <1>4, <1>5 DEF LedgerNext

-----------------------------------------------------------------------------
THEOREM LedgerInvariant == LedgerSpec => []LedgerInv
  <1>1. LedgerInit => LedgerInv
    BY LedgerInitInv
  <1>2. LedgerInv /\ [LedgerNext]_ledgerVars => LedgerInv'
    BY LedgerNextInv, OrderLedgerAssumption
  <1>3. QED
    BY <1>1, <1>2, PTL DEF LedgerSpec

(* The types of the ledger's records, whatever couriers report.            *)
THEOREM LedgerTypeCorrect == LedgerSpec => []LedgerTypeOK
  <1>1. LedgerInv => LedgerTypeOK
    BY DEF LedgerInv
  <1>2. QED
    BY <1>1, LedgerInvariant, PTL

(* Reversals and reinstatements alternate.                                 *)
THEOREM LedgerCorrectionsAlternate == LedgerSpec => []CorrectionsAlternate
  <1>1. LedgerInv => CorrectionsAlternate
    BY InvAlternates
  <1>2. QED
    BY <1>1, LedgerInvariant, PTL

(* Revenue and product cost are those of the last outcome booked.          *)
THEOREM LedgerRevenueFollowsCarrier == LedgerSpec => []RevenueFollowsCarrier
  <1>1. LedgerInv => RevenueFollowsCarrier
    BY DEF LedgerInv
  <1>2. QED
    BY <1>1, LedgerInvariant, PTL

(* The columns of the summary add up to its net profit.                    *)
THEOREM LedgerProfitAddsUp == LedgerSpec => []ProfitAddsUp
  <1>1. LedgerInv => ProfitAddsUp
    BY DEF LedgerInv
  <1>2. QED
    BY <1>1, LedgerInvariant, PTL

(* Shipping, gift and packaging are charged once.                          *)
THEOREM LedgerCostsChargedOnce == LedgerSpec => []CostsChargedOnce
  <1>1. LedgerInv => CostsChargedOnce
    BY DEF LedgerInv
  <1>2. QED
    BY <1>1, LedgerInvariant, PTL

(* A recognition is never rewritten: the only step that writes one books   *)
(* an order that has none.                                                 *)
THEOREM LedgerRecognitionIsFinal == LedgerSpec => RecognitionIsFinal
  <1> DEFINE Kept == \A o \in LedgerOrders :
                         recognized[o].booked => recognized'[o] = recognized[o]
  <1>1. LedgerInv /\ [LedgerNext]_ledgerVars => [Kept]_ledgerVars
    <2> SUFFICES ASSUME LedgerInv, LedgerNext PROVE Kept
      OBVIOUS
    <2>1. recognized = [o \in LedgerOrders |-> recognized[o]]
      BY DEF LedgerInv, LedgerTypeOK
    <2>2. ASSUME NEW o \in LedgerOrders, NEW price \in Prices, NEW fee \in Fees,
                 BookDelivered(o, price, fee)
          PROVE  Kept
      BY <2>1, <2>2 DEF BookDelivered, applyRevenueRecognition, PostNothing,
                        PostRecognition, PostReinstatement
    <2>3. ASSUME NEW o \in LedgerOrders, applyRevenueReversal(o) PROVE Kept
      BY <2>3 DEF applyRevenueReversal, PostNothing, PostReversal
    <2>4. ASSUME NEW o \in LedgerOrders, NEW l \in LedgerLines,
                 NEW target \in Losses, setLineLoss(o, l, target)
          PROVE  Kept
      BY <2>4 DEF setLineLoss
    <2>5. ASSUME NEW o \in LedgerOrders, NEW fee \in Fees, BookRefused(o, fee)
          PROVE  Kept
      BY <2>3, <2>5 DEF BookRefused
    <2>6. QED
      BY <2>2, <2>3, <2>4, <2>5 DEF LedgerNext, BookCancelled
  <1>2. QED
    BY <1>1, LedgerInvariant, PTL DEF LedgerSpec, RecognitionIsFinal

-----------------------------------------------------------------------------
(***************************************************************************)
(* The composition.  A step of it is a step of the stock, or leaves it     *)
(* alone, so that every theorem about StockSpec holds of it.               *)
(***************************************************************************)
LEMMA StockOfFulfilment ==
    ASSUME [FulfilmentNext]_fulfilmentVars PROVE [StockNext]_stockVars
  <1>1. ASSUME NEW o \in Orders, NEW price \in Prices, NEW fee \in Fees,
               SyncOrder(o, price, fee)
        PROVE  StockNext
    <2>1. Begin(o, "deliver", {}) \/ Begin(o, "release", {})
      BY <1>1 DEF SyncOrder
    <2>2. {} \in SUBSET LinesOf(o)
      OBVIOUS
    <2>3. QED
      BY <2>1, <2>2 DEF StockNext, BeginDeliver, BeginRelease
  <1>2. ASSUME NEW l \in Scanned, NEW a \in Allocations(recipe[l]), record(l, a)
        PROVE  StockNext
    BY <1>2 DEF record, StockNext
  <1>3. ASSUME StockStep PROVE StockNext
    BY <1>3 DEF StockStep, StockNext
  <1>4. QED
    BY <1>1, <1>2, <1>3 DEF FulfilmentNext, StoreOutcome, fulfilmentVars

(* Courier outcomes that change at will, syncs and scans do with the stock *)
(* of an order only what OrderStock allows: all it promises is kept.       *)
THEOREM FulfilmentImplementsStock == FulfilmentSpec => StockSpec
  <1>1. FulfilmentInit => StockInit
    BY DEF FulfilmentInit
  <1>2. [FulfilmentNext]_fulfilmentVars => [StockNext]_stockVars
    BY StockOfFulfilment
  <1>3. QED
    BY <1>1, <1>2, PTL DEF FulfilmentSpec, StockSpec

-----------------------------------------------------------------------------
(* The loss of an allocation is a number, and none without damage.         *)
LEMMA LossType ==
    ASSUME NEW a \in [Items -> Allocation]
    PROVE  LossOf(a) \in Int
  <1> DEFINE f == [i \in Items |-> UnitCost[i] * (a[i].damaged + a[i].lost)]
  <1>1. \A i \in Items : f[i] \in Int
    BY FulfilmentAssumption DEF Allocation
  <1>2. LossOf(a) = SumFunctionOnSet(f, Items)
    BY DEF LossOf
  <1> HIDE DEF f
  <1>3. QED
    BY <1>1, <1>2, SumType, FulfilmentAssumption

LEMMA NoLoss == LossOf([i \in Items |-> NoAllocation]) = 0
  <1> DEFINE a == [i \in Items |-> NoAllocation]
             f == [i \in Items |-> UnitCost[i] * (a[i].damaged + a[i].lost)]
  <1>1. \A i \in Items : f[i] = 0
    BY FulfilmentAssumption DEF NoAllocation
  <1>2. LossOf(a) = SumFunctionOnSet(f, Items)
    BY DEF LossOf
  <1> HIDE DEF f
  <1>3. QED
    BY <1>1, <1>2, SumOfZeros, FulfilmentAssumption

(* The loss booked for a line is that of its latest scan, and the damage   *)
(* of an order is what is booked for its lines.                            *)
DamageInv ==
    /\ LedgerInv
    /\ StockInv
    /\ \A l \in Lines : lineLoss[OrderOf[l]][l] = LossOf(alloc[l])
    /\ \A o \in Orders :
           book[o].damageCost = SumFunctionOnSet(lineLoss[o], LinesOf(o))

LEMMA DamageTypes ==
    ASSUME DamageInv
    PROVE  /\ book \in [Orders -> Book]
           /\ lineLoss \in [Orders -> [Lines -> Int]]
           /\ alloc \in [Lines -> [Items -> Allocation]]
           /\ OrderOf \in [Lines -> Orders]
  BY FulfilmentAssumption, OrderStockAssumption
  DEF DamageInv, LedgerInv, LedgerTypeOK, StockInv, StockTypeOK

LEMMA LinesFinite == ASSUME NEW o PROVE IsFiniteSet(LinesOf(o))
  BY FulfilmentAssumption, FS_Subset DEF LinesOf

LEMMA DamageInitInv == ASSUME FulfilmentInit PROVE DamageInv
  <1>1. LedgerInv
    BY LedgerInitInv DEF FulfilmentInit
  <1>2. StockInv
    BY StockInitInv, OrderStockAssumption, MaxQuantityAssumption DEF FulfilmentInit
  <1>3. /\ \A l \in Lines : alloc[l] = [i \in Items |-> NoAllocation]
        /\ \A o \in Orders, l \in Lines : lineLoss[o][l] = 0
        /\ \A o \in Orders : book[o].damageCost = 0
    BY FulfilmentAssumption
    DEF FulfilmentInit, StockInit, LedgerInit, EmptyBook
  <1>4. \A l \in Lines : lineLoss[OrderOf[l]][l] = LossOf(alloc[l])
    BY <1>3, NoLoss, OrderStockAssumption
  <1>5. ASSUME NEW o \in Orders
        PROVE  SumFunctionOnSet(lineLoss[o], LinesOf(o)) = 0
    <2>1. \A l \in LinesOf(o) : lineLoss[o][l] = 0
      BY <1>3 DEF LinesOf
    <2>2. QED
      BY <2>1, LinesFinite, SumOfZeros
  <1>6. QED
    BY <1>1, <1>2, <1>3, <1>4, <1>5 DEF DamageInv

(* Courier outcomes book no damage.                                        *)
LEMMA OutcomeKeepsDamage ==
    ASSUME DamageInv, NEW o \in Orders, NEW price \in Prices, NEW fee \in Fees,
           BookDelivered(o, price, fee) \/ BookCancelled(o) \/ BookRefused(o, fee)
    PROVE  /\ lineLoss' = lineLoss
           /\ \A p \in Orders : book'[p].damageCost = book[p].damageCost
  <1>1. lineLoss' = lineLoss
    BY DEF BookDelivered, BookCancelled, BookRefused
  <1>2. \/ book' = book
        \/ \E e : e.damageCost = 0 /\ book' = [book EXCEPT ![o] = Add(book[o], e)]
    <2>1. ASSUME NEW r, PostRecognition(o, r)
          PROVE  \E e : e.damageCost = 0 /\ book' = [book EXCEPT ![o] = Add(book[o], e)]
      BY <2>1 DEF PostRecognition
    <2>2. ASSUME PostReinstatement(o)
          PROVE  \E e : e.damageCost = 0 /\ book' = [book EXCEPT ![o] = Add(book[o], e)]
      BY <2>2 DEF PostReinstatement
    <2>3. ASSUME NEW key, PostReversal(o, key)
          PROVE  \E e : e.damageCost = 0 /\ book' = [book EXCEPT ![o] = Add(book[o], e)]
      BY <2>3 DEF PostReversal
    <2>4. ASSUME book' = [book EXCEPT ![o] = Add(book[o], ShippingRow(fee))]
          PROVE  \E e : e.damageCost = 0 /\ book' = [book EXCEPT ![o] = Add(book[o], e)]
      BY <2>4 DEF ShippingRow
    <2>5. PostNothing => book' = book
      BY DEF PostNothing
    <2>6. CASE BookDelivered(o, price, fee)
      BY <2>1, <2>2, <2>5, <2>6 DEF BookDelivered, applyRevenueRecognition
    <2>7. CASE applyRevenueReversal(o)
      BY <2>3, <2>5, <2>7 DEF applyRevenueReversal
    <2>8. CASE book' = [book EXCEPT ![o] = Add(book[o], ShippingRow(fee))]
      BY <2>4, <2>8
    <2>9. QED
      BY <2>6, <2>7, <2>8 DEF BookCancelled, BookRefused
  <1>3. CASE book' = book
    BY <1>1, <1>3
  <1>4. ASSUME NEW e, e.damageCost = 0, book' = [book EXCEPT ![o] = Add(book[o], e)]
        PROVE  \A p \in Orders : book'[p].damageCost = book[p].damageCost
    <2>1. book[o].damageCost \in Int /\ book \in [Orders -> Book]
      BY DamageTypes DEF Book
    <2>2. Add(book[o], e).damageCost = book[o].damageCost + 0
      BY <1>4 DEF Add
    <2>3. QED
      BY <1>4, <2>1, <2>2
  <1>5. QED
    BY <1>1, <1>2, <1>3, <1>4

LEMMA DamageNextInv ==
    ASSUME DamageInv, [FulfilmentNext]_fulfilmentVars
    PROVE  DamageInv'
  <1>1. StockInv'
    BY StockOfFulfilment, StockNextInv, OrderStockAssumption, MaxQuantityAssumption
    DEF DamageInv
  <1>2. CASE UNCHANGED <<ledgerVars, alloc>>
    <2>1. UNCHANGED ledgerVars
      BY <1>2
    <2>2. LedgerInv'
      BY <2>1, LedgerNextInv, OrderLedgerAssumption DEF DamageInv
    <2>3. UNCHANGED <<lineLoss, book, alloc>>
      BY <1>2 DEF ledgerVars
    <2>4. QED
      BY <1>1, <2>2, <2>3 DEF DamageInv, LossOf
  <1>3. ASSUME NEW o \in Orders, NEW price \in Prices, NEW fee \in Fees,
               SyncOrder(o, price, fee)
        PROVE  DamageInv'
    <2>1. \/ BookDelivered(o, price, fee) \/ BookCancelled(o)
          \/ BookRefused(o, fee)
      BY <1>3 DEF SyncOrder
    <2>2. LedgerInv'
      BY <2>1, LedgerNextInv, OrderLedgerAssumption, FulfilmentAssumption
      DEF DamageInv, LedgerNext
    <2>3. UNCHANGED alloc
      BY <1>3 DEF SyncOrder, Begin
    <2>4. /\ lineLoss' = lineLoss
          /\ \A p \in Orders : book'[p].damageCost = book[p].damageCost
      BY <2>1, OutcomeKeepsDamage
    <2>5. QED
      BY <1>1, <2>2, <2>3, <2>4 DEF DamageInv, LossOf
  <1>4. ASSUME NEW l \in Lines, NEW a \in Allocations(recipe[l]), record(l, a)
        PROVE  DamageInv'
    <2> DEFINE o == OrderOf[l]
               loss == LossOf(a)
               old == lineLoss[o]
               new == [old EXCEPT ![l] = loss]
    <2>1. /\ alloc' = [alloc EXCEPT ![l] = a] /\ setLineLoss(o, l, loss)
      BY <1>4 DEF record, RecordCondition
    <2>2. o \in Orders /\ l \in LinesOf(o) /\ old \in [Lines -> Int]
      BY DamageTypes DEF LinesOf
    <2>3. loss \in Int
      BY AllocationsType, LossType, OrderStockAssumption DEF DamageInv
    <2>4. LedgerInv'
      BY <2>1, <2>2, <2>3, SetLineLossInv, OrderLedgerAssumption, FulfilmentAssumption
      DEF DamageInv
    <2> HIDE DEF loss, o
    <2>5. lineLoss' = [lineLoss EXCEPT ![o] = new]
      <3>1. old[l] + (loss - old[l]) = loss
        BY <2>2, <2>3
      <3>2. QED
        BY <2>1, <3>1 DEF setLineLoss
    <2>6. book' = [book EXCEPT ![o] = Add(book[o], DamageRow(loss - old[l]))]
      BY <2>1 DEF setLineLoss
    <2>7. /\ \A p \in Orders \ {o} : lineLoss'[p] = lineLoss[p] /\ book'[p] = book[p]
          /\ lineLoss'[o] = new
          /\ book'[o].damageCost = book[o].damageCost + (loss - old[l])
      BY <2>2, <2>5, <2>6, DamageTypes DEF Add, DamageRow
    <2>8. \A k \in Lines : lineLoss'[OrderOf[k]][k] = LossOf(alloc'[k])
      <3> SUFFICES ASSUME NEW k \in Lines
                   PROVE  lineLoss'[OrderOf[k]][k] = LossOf(alloc'[k])
        OBVIOUS
      <3>0. OrderOf[k] \in Orders /\ OrderOf[l] = o
        BY DamageTypes DEF o
      <3>1. CASE k = l
        <4>1. alloc'[k] = a
          BY <2>1, <3>1, DamageTypes
        <4>2. new[l] = loss
          BY <2>2
        <4>3. QED
          BY <2>7, <3>0, <3>1, <4>1, <4>2 DEF loss
      <3>2. CASE k # l
        <4>1. alloc'[k] = alloc[k]
          BY <2>1, <3>2, DamageTypes
        <4>2. new[k] = old[k]
          BY <2>2, <3>2
        <4>3. lineLoss[OrderOf[k]][k] = LossOf(alloc[k])
          BY DEF DamageInv
        <4>4. QED
          BY <2>7, <3>0, <4>1, <4>2, <4>3
      <3>3. QED
        BY <3>1, <3>2
    <2>9. SumFunctionOnSet(new, LinesOf(o))
              = SumFunctionOnSet(old, LinesOf(o)) - old[l] + loss
      <3>1. \A k \in LinesOf(o) : old[k] \in Int
        BY <2>2 DEF LinesOf
      <3>2. new[l] = loss /\ new[l] \in Int
        BY <2>2, <2>3
      <3>3. \A k \in LinesOf(o) \ {l} : new[k] = old[k]
        BY <2>2 DEF LinesOf
      <3>4. IsFiniteSet(LinesOf(o))
        BY LinesFinite
      <3> HIDE DEF old, new
      <3>5. SumFunctionOnSet(new, LinesOf(o))
              = SumFunctionOnSet(old, LinesOf(o)) - old[l] + new[l]
        BY ONLY <2>2, <3>1, <3>2, <3>3, <3>4, SumUpdate
      <3>6. QED
        BY <3>2, <3>5
    <2>10. book[o].damageCost = SumFunctionOnSet(old, LinesOf(o))
           /\ book[o].damageCost \in Int /\ old[l] \in Int
      BY <2>2, DamageTypes DEF DamageInv, Book
    <2>11. \A p \in Orders :
              book'[p].damageCost = SumFunctionOnSet(lineLoss'[p], LinesOf(p))
      <3>1. book'[o].damageCost = SumFunctionOnSet(lineLoss'[o], LinesOf(o))
        <4> HIDE DEF old, new
        <4>1. QED
          BY <2>3, <2>7, <2>9, <2>10
      <3>2. \A p \in Orders \ {o} :
              book'[p].damageCost = SumFunctionOnSet(lineLoss'[p], LinesOf(p))
        BY <2>7 DEF DamageInv
      <3>3. QED
        BY <3>1, <3>2
    <2>12. QED
      BY <1>1, <2>4, <2>8, <2>11 DEF DamageInv, LossOf, LinesOf
  <1>5. ASSUME StockStep PROVE UNCHANGED <<ledgerVars, alloc>>
    BY <1>5
    DEF StockStep, DeliverLine, ReleaseLine, SkipLine, LoadReservation,
        ReserveMove, SetReserved, AbortReservation
  <1>6. QED
    BY <1>2, <1>3, <1>4, <1>5, OrderStockAssumption
    DEF FulfilmentNext, fulfilmentVars, StoreOutcome, stockVars

(* Whatever couriers change and however often, the revenue and the product *)
(* cost an order shows are those of the last outcome booked.               *)
THEOREM FulfilmentRevenueFollowsCarrier == FulfilmentSpec => []RevenueFollowsCarrier
  <1>1. FulfilmentInit => DamageInv
    BY DamageInitInv
  <1>2. DamageInv /\ [FulfilmentNext]_fulfilmentVars => DamageInv'
    BY DamageNextInv
  <1>3. DamageInv => RevenueFollowsCarrier
    BY DEF DamageInv, LedgerInv
  <1>4. QED
    BY <1>1, <1>2, <1>3, PTL DEF FulfilmentSpec

(* applyLineLoss books differences: what an order shows as damage is what  *)
(* the latest scans of its lines lost, corrections and repeats included.   *)
THEOREM FulfilmentDamageFollowsScans == FulfilmentSpec => []DamageFollowsScans
  <1>1. FulfilmentInit => DamageInv
    BY DamageInitInv
  <1>2. DamageInv /\ [FulfilmentNext]_fulfilmentVars => DamageInv'
    BY DamageNextInv
  <1>3. ASSUME DamageInv PROVE DamageFollowsScans
    <2> SUFFICES ASSUME NEW o \in Orders
                 PROVE  book[o].damageCost =
                          SumFunctionOnSet([l \in Lines |-> LossOf(alloc[l])], LinesOf(o))
      BY DEF DamageFollowsScans
    <2> DEFINE f == lineLoss[o]
               g == [l \in Lines |-> LossOf(alloc[l])]
    <2>1. \A l \in LinesOf(o) : f[l] \in Int /\ g[l] = f[l]
      BY <1>3, DamageTypes DEF LinesOf, DamageInv
    <2>2. book[o].damageCost = SumFunctionOnSet(f, LinesOf(o))
      BY <1>3 DEF DamageInv
    <2> HIDE DEF f, g
    <2>3. SumFunctionOnSet(g, LinesOf(o)) = SumFunctionOnSet(f, LinesOf(o))
      BY <2>1, LinesFinite, SumSame
    <2>4. QED
      BY <2>2, <2>3 DEF g
  <1>4. QED
    BY <1>1, <1>2, <1>3, PTL DEF FulfilmentSpec

-----------------------------------------------------------------------------
(***************************************************************************)
(* Revenue and units.  What a line uses of an item, and what is left of it *)
(* to take, add up to the same whatever moves: so with stock enough at the *)
(* start, no delivery is ever short, and takes all its line needs.         *)
(***************************************************************************)
Need(u) == u.product + u.gift + u.packaging
Use(e) == e.taken - e.retOnHand + e.res + e.retDamaged
Free(c) == availableQuantity(c.b) + Use(c.e)

(* A movement for an order takes from what is left and returns nothing.    *)
Moves(c, d) ==
    /\ CellOK(d) /\ Free(d) = Free(c)
    /\ d.e.retOnHand = c.e.retOnHand /\ d.e.retDamaged = c.e.retDamaged

LEMMA CellNumbers ==
    ASSUME NEW c, CellOK(c)
    PROVE  /\ c.b.onHand \in Nat /\ c.b.reserved \in Nat /\ c.b.damaged \in Nat
           /\ c.e.res \in Nat /\ c.e.taken \in Nat
           /\ c.e.retOnHand \in Int /\ c.e.retDamaged \in Int
  BY DEF CellOK, NatBalance, NatEntry

LEMMA MovesRefl == ASSUME NEW c, CellOK(c) PROVE Moves(c, c)
  BY DEF Moves

LEMMA MovesTrans ==
    ASSUME NEW c, NEW d, NEW e, Moves(c, d), Moves(d, e) PROVE Moves(c, e)
  BY DEF Moves

(* The clamped part of a movement lies between nothing and all of it.      *)
LEMMA ClampBetween ==
    ASSUME NEW c, CellOK(c), NEW bucket \in Buckets, NEW delta \in Int
    PROVE  /\ clampDelta(c.b, bucket, delta) \in Int
           /\ delta >= 0 => /\ 0 <= clampDelta(c.b, bucket, delta)
                            /\ clampDelta(c.b, bucket, delta) <= delta
           /\ delta <= 0 => /\ delta <= clampDelta(c.b, bucket, delta)
                            /\ clampDelta(c.b, bucket, delta) <= 0
  BY CellNumbers
  DEF clampDelta, reducible, availableQuantity, Smaller, Positive, Buckets, CellOK

LEMMA ApplyFree ==
    ASSUME NEW c, CellOK(c), NEW type \in {"ORDER", "RETURN"},
           NEW bucket \in Buckets, bucket = "damaged" => type = "RETURN",
           NEW delta \in Int
    PROVE  /\ Free(Apply(c, type, bucket, delta)) = Free(c)
           /\ type = "ORDER" =>
                /\ Apply(c, type, bucket, delta).e.retOnHand = c.e.retOnHand
                /\ Apply(c, type, bucket, delta).e.retDamaged = c.e.retDamaged
  <1> DEFINE a == clampDelta(c.b, bucket, delta)
             d == Apply(c, type, bucket, delta)
  <1>1. a \in Int
    BY ClampBetween
  <1>2. /\ d.b = Shift(c.b, bucket, a)
        /\ d.e.res = IF bucket = "reserved" THEN c.e.res + a ELSE c.e.res
        /\ d.e.retOnHand = IF type = "RETURN" /\ bucket = "onHand"
                           THEN c.e.retOnHand + a ELSE c.e.retOnHand
        /\ d.e.retDamaged = IF type = "RETURN" /\ bucket = "damaged"
                            THEN c.e.retDamaged + a ELSE c.e.retDamaged
        /\ d.e.taken = IF type # "RETURN" /\ bucket = "onHand"
                       THEN c.e.taken - a ELSE c.e.taken
    BY DEF Apply
  <1> HIDE DEF a, d
  <1>3. /\ d.b.onHand = IF bucket = "onHand" THEN c.b.onHand + a ELSE c.b.onHand
        /\ d.b.reserved = IF bucket = "reserved" THEN c.b.reserved + a
                          ELSE c.b.reserved
        /\ d.b.damaged = IF bucket = "damaged" THEN c.b.damaged + a
                         ELSE c.b.damaged
    BY <1>2 DEF Shift
  <1>4. Free(d) = Free(c)
    <2>1. CASE bucket = "onHand"
      BY <1>1, <1>2, <1>3, <2>1, CellNumbers DEF Free, Use, availableQuantity
    <2>2. CASE bucket = "reserved"
      BY <1>1, <1>2, <1>3, <2>2, CellNumbers DEF Free, Use, availableQuantity
    <2>3. CASE bucket = "damaged"
      BY <1>1, <1>2, <1>3, <2>3, CellNumbers DEF Free, Use, availableQuantity
    <2>4. QED
      BY <2>1, <2>2, <2>3 DEF Buckets
  <1>5. QED
    BY <1>2, <1>4 DEF d

LEMMA MoveMoves ==
    ASSUME NEW c, CellOK(c), NEW bucket \in {"onHand", "reserved"},
           NEW delta \in Int, NEW key \in Keys,
           bucket = "reserved" => c.e.res + delta >= 0,
           bucket = "onHand" => delta <= 0
    PROVE  Moves(c, move(c, "ORDER", bucket, delta, key))
  <1> DEFINE d == Apply(c, "ORDER", bucket, delta)
             m == move(c, "ORDER", bucket, delta, key)
  <1>1. CellOK(m)
    BY MoveOK DEF Lowered, Buckets
  <1>2. /\ Free(d) = Free(c)
        /\ d.e.retOnHand = c.e.retOnHand /\ d.e.retDamaged = c.e.retDamaged
    BY ApplyFree DEF Buckets
  <1>3. /\ WithKey(d, key).b = d.b
        /\ WithKey(d, key).e.res = d.e.res /\ WithKey(d, key).e.taken = d.e.taken
        /\ WithKey(d, key).e.retOnHand = d.e.retOnHand
        /\ WithKey(d, key).e.retDamaged = d.e.retDamaged
    BY DEF WithKey, Apply
  <1>4. m = c \/ m = WithKey(d, key)
    BY DEF move
  <1> HIDE DEF d, m
  <1>5. Free(m) = Free(c)
        /\ m.e.retOnHand = c.e.retOnHand /\ m.e.retDamaged = c.e.retDamaged
    BY <1>2, <1>3, <1>4 DEF Free, Use
  <1>6. QED
    BY <1>1, <1>5 DEF Moves, m

LEMMA ReserveUnitMoves ==
    ASSUME NEW c, CellOK(c), NEW q \in Nat PROVE Moves(c, ReserveUnit(c, q))
  <1>1. Moves(c, move(c, "ORDER", "reserved", q, "order-reserve"))
    BY CellNumbers, MoveMoves DEF Keys
  <1>2. QED
    BY <1>1, MovesRefl DEF ReserveUnit

LEMMA SettleReservationMoves ==
    ASSUME NEW c, CellOK(c), NEW key \in Keys
    PROVE  Moves(c, SettleReservation(c, key))
  <1>1. Moves(c, move(c, "ORDER", "reserved", 0 - c.e.res, key))
    BY CellNumbers, MoveMoves
  <1>2. QED
    BY <1>1, MovesRefl DEF SettleReservation

LEMMA DeliverUnitMoves ==
    ASSUME NEW c, CellOK(c), NEW q \in Nat PROVE Moves(c, DeliverUnit(c, q))
  <1> DEFINE s == SettleReservation(c, "order-deliver-release")
  <1>1. Moves(c, s)
    BY SettleReservationMoves DEF Keys
  <1> HIDE DEF s
  <1>2. Moves(s, move(s, "ORDER", "onHand", 0 - q, "order-deliver"))
    BY <1>1, MoveMoves DEF Moves, Keys
  <1>3. QED
    BY <1>1, <1>2, MovesRefl, MovesTrans DEF DeliverUnit, s

LEMMA ConsumePackagingMoves ==
    ASSUME NEW c, CellOK(c), NEW q \in Nat PROVE Moves(c, ConsumePackaging(c, q))
  <1>1. Moves(c, move(c, "ORDER", "onHand", 0 - q, "order-packaging"))
    BY MoveMoves DEF Keys
  <1>2. QED
    BY <1>1, MovesRefl DEF ConsumePackaging

LEMMA DeliverCellMoves ==
    ASSUME NEW c, CellOK(c), NEW r \in UnitCounts, NEW st
    PROVE  Moves(c, DeliverCell(c, r, st))
  <1> DEFINE p == DeliverUnit(c, r.product)
             g == DeliverUnit(p, r.gift)
             d == ConsumePackaging(g, r.packaging)
  <1>0. r.product \in Nat /\ r.gift \in Nat /\ r.packaging \in Nat
    BY DEF UnitCounts
  <1>1. Moves(c, p)
    BY <1>0, DeliverUnitMoves
  <1>2. Moves(c, g)
    <2> HIDE DEF p
    <2>1. Moves(p, DeliverUnit(p, r.gift))
      BY <1>0, <1>1, DeliverUnitMoves DEF Moves
    <2>2. QED
      BY <1>1, <2>1, MovesTrans
  <1>3. Moves(c, d)
    <2> HIDE DEF g
    <2>1. Moves(g, ConsumePackaging(g, r.packaging))
      BY <1>0, <1>2, ConsumePackagingMoves DEF Moves
    <2>2. QED
      BY <1>2, <2>1, MovesTrans
  <1>4. Moves(c, DeliverUnit(d, d.e.res))
    <2> HIDE DEF d
    <2>1. CellOK(d) /\ d.e.res \in Nat
      BY <1>3, CellNumbers DEF Moves
    <2>2. Moves(d, DeliverUnit(d, d.e.res))
      BY <2>1, DeliverUnitMoves
    <2>3. QED
      BY <1>3, <2>2, MovesTrans
  <1>5. QED
    BY <1>3, <1>4 DEF DeliverCell

(* A returned movement moves its own counter by at most what it asks for.  *)
LEMMA ReturnMoves ==
    ASSUME NEW x, CellOK(x), NEW bucket \in {"onHand", "damaged"}, NEW delta \in Int
    PROVE  LET y == Apply(x, "RETURN", bucket, delta)
           IN  /\ CellOK(y) /\ Free(y) = Free(x)
               /\ bucket = "onHand" => y.e.retDamaged = x.e.retDamaged
               /\ bucket = "damaged" => y.e.retOnHand = x.e.retOnHand
               /\ bucket = "onHand" /\ delta >= 0 => y.e.retOnHand >= x.e.retOnHand
               /\ bucket = "onHand" /\ delta <= 0 => y.e.retOnHand >= x.e.retOnHand + delta
               /\ bucket = "damaged" /\ delta >= 0 => y.e.retDamaged <= x.e.retDamaged + delta
               /\ bucket = "damaged" /\ delta <= 0 => y.e.retDamaged <= x.e.retDamaged
  <1> DEFINE a == clampDelta(x.b, bucket, delta)
             y == Apply(x, "RETURN", bucket, delta)
  <1>1. /\ a \in Int /\ (delta >= 0 => 0 <= a /\ a <= delta)
        /\ (delta <= 0 => delta <= a /\ a <= 0)
    BY ClampBetween DEF Buckets
  <1>2. CellOK(y) /\ Free(y) = Free(x)
    BY ApplyOK, ApplyFree DEF Buckets
  <1>3. /\ y.e.retOnHand = IF bucket = "onHand" THEN x.e.retOnHand + a
                           ELSE x.e.retOnHand
        /\ y.e.retDamaged = IF bucket = "damaged" THEN x.e.retDamaged + a
                            ELSE x.e.retDamaged
    BY DEF Apply
  <1>4. x.e.retOnHand \in Int /\ x.e.retDamaged \in Int
    BY CellNumbers
  <1> HIDE DEF a, y
  <1>5. /\ CellOK(y) /\ Free(y) = Free(x)
        /\ bucket = "onHand" => y.e.retDamaged = x.e.retDamaged
        /\ bucket = "damaged" => y.e.retOnHand = x.e.retOnHand
        /\ bucket = "onHand" /\ delta >= 0 => y.e.retOnHand >= x.e.retOnHand
        /\ bucket = "onHand" /\ delta <= 0 => y.e.retOnHand >= x.e.retOnHand + delta
        /\ bucket = "damaged" /\ delta >= 0 => y.e.retDamaged <= x.e.retDamaged + delta
        /\ bucket = "damaged" /\ delta <= 0 => y.e.retDamaged <= x.e.retDamaged
    BY <1>1, <1>2, <1>3, <1>4
  <1>6. QED
    BY <1>5 DEF y

(* A scan keeps what a line uses and what is left in balance too, and its  *)
(* returns stay between what they were and what it asks for.               *)
LEMMA ReconcileMoves ==
    ASSUME NEW c, CellOK(c), NEW t \in [onHand : Int, damaged : Int], NEW most \in Nat,
           c.e.retDamaged <= most, 0 - most <= c.e.retOnHand,
           t.damaged <= most, 0 - most <= t.onHand
    PROVE  /\ Free(ReconcileCell(c, t)) = Free(c)
           /\ ReconcileCell(c, t).e.retDamaged <= most
           /\ 0 - most <= ReconcileCell(c, t).e.retOnHand
  <1> DEFINE dd == t.damaged - c.e.retDamaged
             oo == t.onHand - c.e.retOnHand
             less == IF dd < 0 THEN Apply(c, "RETURN", "damaged", dd) ELSE c
             moved == Apply(less, "RETURN", "onHand", oo)
             more == Apply(moved, "RETURN", "damaged", dd)
  <1>0. /\ dd \in Int /\ oo \in Int /\ t.damaged \in Int /\ t.onHand \in Int
        /\ c.e.retDamaged \in Int /\ c.e.retOnHand \in Int
    BY CellNumbers
  <1>2. /\ CellOK(less) /\ Free(less) = Free(c)
        /\ less.e.retOnHand = c.e.retOnHand /\ less.e.retDamaged <= most
        /\ dd >= 0 => less.e.retDamaged = c.e.retDamaged
    <2>1. CASE dd < 0
      <3>1. less = Apply(c, "RETURN", "damaged", dd)
        BY <2>1
      <3> HIDE DEF less, dd
      <3>2. /\ CellOK(less) /\ Free(less) = Free(c)
            /\ less.e.retOnHand = c.e.retOnHand
            /\ less.e.retDamaged <= c.e.retDamaged
        <4>1. dd \in Int /\ dd <= 0
          BY <1>0, <2>1
        <4>2. /\ CellOK(Apply(c, "RETURN", "damaged", dd))
              /\ Free(Apply(c, "RETURN", "damaged", dd)) = Free(c)
              /\ Apply(c, "RETURN", "damaged", dd).e.retOnHand = c.e.retOnHand
              /\ Apply(c, "RETURN", "damaged", dd).e.retDamaged <= c.e.retDamaged
          BY <4>1, ReturnMoves
        <4>3. QED
          BY ONLY <3>1, <4>2
      <3>3. less.e.retDamaged \in Int
        BY <3>2, CellNumbers
      <3>4. QED
        BY <1>0, <2>1, <3>2, <3>3
    <2>2. CASE ~(dd < 0)
      BY <2>2
    <2>3. QED
      BY <2>1, <2>2
  <1> HIDE DEF less
  <1>3. /\ CellOK(moved) /\ Free(moved) = Free(c)
        /\ moved.e.retDamaged = less.e.retDamaged
        /\ 0 - most <= moved.e.retOnHand
    <2>0. moved = Apply(less, "RETURN", "onHand", oo)
      OBVIOUS
    <2>1. oo = t.onHand - c.e.retOnHand
      OBVIOUS
    <2> HIDE DEF moved, oo
    <2>2. /\ CellOK(moved) /\ Free(moved) = Free(less)
          /\ moved.e.retDamaged = less.e.retDamaged
          /\ oo >= 0 => moved.e.retOnHand >= less.e.retOnHand
          /\ oo <= 0 => moved.e.retOnHand >= less.e.retOnHand + oo
      BY <1>0, <1>2, <2>0, ReturnMoves
    <2>3. moved.e.retOnHand \in Int
      BY <2>2, CellNumbers
    <2>4. QED
      BY <1>0, <1>2, <2>1, <2>2, <2>3
  <1>4. dd > 0 => /\ Free(more) = Free(c) /\ more.e.retDamaged <= most
                  /\ 0 - most <= more.e.retOnHand
    <2>0. more = Apply(moved, "RETURN", "damaged", dd)
      OBVIOUS
    <2>1. dd = t.damaged - c.e.retDamaged
      OBVIOUS
    <2> HIDE DEF more, moved, dd
    <2>2. /\ CellOK(more) /\ Free(more) = Free(moved)
          /\ more.e.retOnHand = moved.e.retOnHand
          /\ dd >= 0 => more.e.retDamaged <= moved.e.retDamaged + dd
      BY <1>0, <1>3, <2>0, ReturnMoves
    <2>3. more.e.retDamaged \in Int
      BY <2>2, CellNumbers
    <2>4. QED
      BY <1>0, <1>2, <1>3, <2>1, <2>2, <2>3
  <1>5. ReconcileCell(c, t) = IF dd > 0 THEN more ELSE moved
    BY DEF ReconcileCell, less
  <1> HIDE DEF dd, more, moved
  <1>6. QED
    BY <1>2, <1>3, <1>4, <1>5
-----------------------------------------------------------------------------
(* A delivery that finds what it needs, its own reservation included,      *)
(* takes all of it.                                                        *)
LEMMA DeliverUnitTakes ==
    ASSUME NEW c, Held(c), NEW q \in Nat, q > 0,
           "order-deliver" \notin c.e.used, c.e.taken = 0,
           availableQuantity(c.b) + c.e.res >= q
    PROVE  DeliverUnit(c, q).e.taken = q
  <1> DEFINE s == SettleReservation(c, "order-deliver-release")
             d == move(s, "ORDER", "onHand", 0 - q, "order-deliver")
  <1>1. /\ Keeps(c, s) /\ s.e.res = 0 /\ s.e.taken = c.e.taken
        /\ s.e.used \subseteq c.e.used \cup {"order-deliver-release"}
        /\ s.b.onHand = c.b.onHand /\ s.b.damaged = c.b.damaged
    BY SettleReservationKeeps DEF SettleKeys
  <1> HIDE DEF s
  <1>2. CellOK(c) /\ CellOK(s)
    BY <1>1 DEF Keeps, Held
  <1>3. 0 - q \in Int /\ 0 - q < 0
    OBVIOUS
  <1>4. s.b.onHand - s.b.reserved - s.b.damaged + (0 - q) >= 0
    <2>1. s.b.reserved = c.b.reserved - c.e.res
      BY <1>1, <1>2, HeldNumbers DEF Keeps
    <2>2. QED
      BY <1>1, <1>2, <2>1, HeldNumbers DEF availableQuantity
  <1>5. "order-deliver" \notin s.e.used
    BY <1>1
  <1>6. d.e.taken = s.e.taken - (0 - q)
    BY <1>2, <1>3, <1>4, <1>5, DeductionEffect DEF Keys
  <1> HIDE DEF d
  <1>7. DeliverUnit(c, q) = d
    BY DEF DeliverUnit, s, d
  <1>8. QED
    BY <1>1, <1>6, <1>7

LEMMA ConsumePackagingTakes ==
    ASSUME NEW c, Held(c), NEW q \in Nat, q > 0,
           "order-packaging" \notin c.e.used, c.e.taken = 0,
           availableQuantity(c.b) >= q
    PROVE  /\ ConsumePackaging(c, q).e.taken = q
           /\ ConsumePackaging(c, q).e.res = c.e.res
  <1> DEFINE d == move(c, "ORDER", "onHand", 0 - q, "order-packaging")
  <1>1. CellOK(c) /\ 0 - q \in Int /\ 0 - q < 0
    BY DEF Held
  <1>2. c.b.onHand - c.b.reserved - c.b.damaged + (0 - q) >= 0
    BY <1>1, HeldNumbers DEF availableQuantity
  <1>3. d.e.taken = c.e.taken - (0 - q)
    BY <1>1, <1>2, DeductionEffect DEF Keys
  <1>4. d.e.res = c.e.res
    BY <1>1, DeductionKeeps DEF Keys, SettleKeys
  <1> HIDE DEF d
  <1>5. ConsumePackaging(c, q) = d
    BY DEF ConsumePackaging, d
  <1>6. QED
    BY <1>3, <1>4, <1>5

(* An item has one role in a line.                                         *)
OneUse(u) == \/ u.product = 0 /\ u.gift = 0
             \/ u.product = 0 /\ u.packaging = 0
             \/ u.gift = 0 /\ u.packaging = 0

LEMMA DeliverCellTakes ==
    ASSUME NEW c, Held(c), NEW u \in UnitCounts, NEW st, OneUse(u),
           "order-deliver" \notin c.e.used, "order-packaging" \notin c.e.used,
           c.e.taken = 0, c.e.res > 0 => u.product + u.gift > 0,
           availableQuantity(c.b) + c.e.res >= Need(u)
    PROVE  DeliverCell(c, u, st).e.taken = Need(u)
  <1>0. /\ u.product \in Nat /\ u.gift \in Nat /\ u.packaging \in Nat
        /\ c.e.res \in Nat
    BY HeldNumbers DEF UnitCounts, Held
  <1>1. CASE u.product > 0
    <2>1. u.gift = 0 /\ u.packaging = 0 /\ Need(u) = u.product
      BY <1>0, <1>1 DEF OneUse, Need
    <2>2. DeliverUnit(c, u.product).e.taken = u.product
      BY <1>0, <1>1, <2>1, DeliverUnitTakes
    <2>3. DeliverCell(c, u, st) = DeliverUnit(c, u.product)
      <3> DEFINE p == DeliverUnit(c, u.product)
      <3>1. ConsumePackaging(DeliverUnit(p, u.gift), u.packaging) = p
        BY <2>1 DEF DeliverUnit, ConsumePackaging
      <3>2. ~Orphan(p, u, st)
        BY <1>1 DEF Orphan
      <3>3. QED
        BY <3>1, <3>2 DEF DeliverCell
    <2>4. QED
      BY <2>1, <2>2, <2>3
  <1>2. CASE u.gift > 0
    <2>1. u.product = 0 /\ u.packaging = 0 /\ Need(u) = u.gift
      BY <1>0, <1>2 DEF OneUse, Need
    <2>2. DeliverUnit(c, u.gift).e.taken = u.gift
      BY <1>0, <1>2, <2>1, DeliverUnitTakes
    <2>3. DeliverCell(c, u, st) = DeliverUnit(c, u.gift)
      <3> DEFINE p == DeliverUnit(c, u.gift)
      <3>1. ConsumePackaging(DeliverUnit(DeliverUnit(c, u.product), u.gift),
                             u.packaging) = p
        BY <2>1 DEF DeliverUnit, ConsumePackaging
      <3>2. ~Orphan(p, u, st)
        BY <1>2 DEF Orphan
      <3>3. QED
        BY <3>1, <3>2 DEF DeliverCell
    <2>4. QED
      BY <2>1, <2>2, <2>3
  <1>3. CASE u.product = 0 /\ u.gift = 0
    <2>1. c.e.res = 0 /\ Need(u) = u.packaging
      BY <1>0, <1>3 DEF Need
    <2> DEFINE p == ConsumePackaging(c, u.packaging)
    <2>2. p.e.res = 0 /\ p.e.taken = u.packaging
      <3>1. CASE u.packaging = 0
        BY <2>1, <3>1 DEF ConsumePackaging
      <3>2. CASE u.packaging > 0
        <4>1. availableQuantity(c.b) >= u.packaging
          BY <1>0, <2>1, HeldNumbers DEF availableQuantity, Held
        <4>2. QED
          BY <1>0, <2>1, <3>2, <4>1, ConsumePackagingTakes
      <3>3. QED
        BY <1>0, <3>1, <3>2
    <2>3. ConsumePackaging(DeliverUnit(DeliverUnit(c, u.product), u.gift),
                           u.packaging) = p
      BY <1>3 DEF DeliverUnit
    <2> HIDE DEF p
    <2>4. DeliverCell(c, u, st) = p
      BY <2>2, <2>3 DEF DeliverCell, Orphan
    <2>5. QED
      BY <2>1, <2>2, <2>4
  <1>4. QED
    BY <1>0, <1>1, <1>2, <1>3
-----------------------------------------------------------------------------
(* Nobody adjusts stock by hand here, so what is held stays explained.     *)
LEMMA FulfilmentHeld ==
    ASSUME HeldInv, [FulfilmentNext]_fulfilmentVars
    PROVE  HeldInv'
  <1>1. PledgeInv'
    BY StockOfFulfilment, PledgeNextInv, OrderStockAssumption,
       MaxQuantityAssumption, ItemKindAssumption DEF HeldInv
  <1>2. StockInv'
    BY <1>1 DEF PledgeInv
  <1>3. CASE UNCHANGED <<bal, journal, status, resv>>
    <2>1. EntriesHeld' /\ ReservedExplained'
      BY <1>3, UnmovedHeld
    <2>2. Planned' /\ Claimed'
      BY <1>3, SameClaims
    <2>3. QED
      BY <1>1, <2>1, <2>2 DEF HeldInv
  <1>4. CASE \E l \in Lines : DeliverLine(l) \/ ReleaseLine(l)
    BY <1>1, <1>2, <1>4, TransactionHeld, OrderStockAssumption DEF HeldInv
  <1>5. CASE \E l \in Scanned : \E a \in Allocations(recipe[l]) : RecordCondition(l, a)
    BY <1>1, <1>2, <1>5, ScanHeld, OrderStockAssumption DEF HeldInv
  <1>6. CASE \E o \in Orders : \E u \in resv[o].left : ReserveMove(o, u)
    BY <1>1, <1>2, <1>6, ReserveMoveHeld, OrderStockAssumption DEF HeldInv
  <1>7. CASE \E o \in Orders : \/ LoadReservation(o)
                               \/ \E l \in resv[o].todo : SetReserved(o, l)
                               \/ AbortReservation(o)
    BY <1>1, <1>7, DispatchHeld, OrderStockAssumption DEF HeldInv
  <1>8. QED
    <2>1. ASSUME NEW o \in Orders, NEW price \in Prices, NEW fee \in Fees,
                 SyncOrder(o, price, fee)
          PROVE  UNCHANGED <<bal, journal, status, resv>>
      BY <2>1 DEF SyncOrder, Begin
    <2>2. ASSUME NEW o \in Orders, NEW s \in Outcomes, StoreOutcome(o, s)
          PROVE  UNCHANGED <<bal, journal, status, resv>>
      BY <2>2 DEF StoreOutcome, stockVars
    <2>3. (\E l \in Scanned : \E a \in Allocations(recipe[l]) : record(l, a)) => HeldInv'
      BY <1>5 DEF record
    <2>4. StockStep => HeldInv'
      BY <1>4, <1>6, <1>7 DEF StockStep
    <2>5. UNCHANGED fulfilmentVars => HeldInv'
      BY <1>3 DEF fulfilmentVars, stockVars
    <2>6. QED
      BY <1>3, <2>1, <2>2, <2>3, <2>4, <2>5 DEF FulfilmentNext

(***************************************************************************)
(* Enough to begin with: whatever the lines use of an item, as much is     *)
(* left as one line may need.                                              *)
(***************************************************************************)
Plenty ==
    \E most \in [Items -> Nat] : \A i \in Items :
        /\ \A r \in Recipes : Need(r[i]) <= most[i]
        /\ 4 * most[i] * Cardinality(Lines) <= OpeningStock[i]

(* What a line may have used and returned of an item it needs u of.        *)
Sells(u, e) ==
    /\ e.res > 0 => u.product + u.gift > 0
    /\ e.retDamaged <= u.product /\ 0 - u.product <= e.retOnHand
    /\ e.taken \in {0, Need(u)}

Using(i) == [l \in Lines |-> Use(journal[l][i])]

Balanced == \A i \in Items :
    availableQuantity(bal[i]) + SumFunctionOnSet(Using(i), Lines) = OpeningStock[i]

CellsSell == \A l \in Lines, i \in Items : Sells(recipe[l][i], journal[l][i])

(* A line in use of an item uses at most four times the most it may need.  *)
LEMMA UseBounded ==
    ASSUME OrderStockAssumption, NEW i \in Items, NEW c, CellTells(i, c),
           NEW q \in Recipes, Sells(q[i], c.e),
           NEW m \in Nat, \A r \in Recipes : Need(r[i]) <= m
    PROVE  /\ Use(c.e) \in Int /\ Use(c.e) <= 4 * m
           /\ c.e.taken = 0 => Use(c.e) - c.e.res <= 2 * m
  <1>1. /\ q[i].product \in Nat /\ q[i].gift \in Nat /\ q[i].packaging \in Nat
        /\ q[i].product <= m /\ Need(q[i]) <= m /\ Need(q[i]) \in Nat
    BY RecipeItem DEF UnitCounts, Need
  <1>2. /\ c.e.res \in Nat /\ c.e.taken \in Nat
        /\ c.e.retOnHand \in Int /\ c.e.retDamaged \in Int
    BY CellNumbers DEF CellTells
  <1>3. PICK r \in Recipes : c.e.res <= r[i].product + r[i].gift
    BY DEF CellTells, Bounded
  <1>4. r[i].product + r[i].gift <= m
    <2>1. Need(r[i]) <= m
      OBVIOUS
    <2>2. r[i].product \in Nat /\ r[i].gift \in Nat /\ r[i].packaging \in Nat
      BY RecipeItem DEF UnitCounts
    <2>3. QED
      BY <2>1, <2>2 DEF Need
  <1>5. c.e.res <= m
    <2>1. r[i].product \in Nat /\ r[i].gift \in Nat
      BY RecipeItem DEF UnitCounts
    <2>2. QED
      BY <1>2, <1>3, <1>4, <2>1
  <1>6. /\ c.e.taken <= m /\ c.e.retDamaged <= m /\ 0 - m <= c.e.retOnHand
    BY <1>1, <1>2 DEF Sells
  <1>7. QED
    BY <1>2, <1>5, <1>6 DEF Use
LEMMA UsesType ==
    ASSUME StockInv, NEW i \in Items
    PROVE  /\ \A l \in Lines : Use(journal[l][i]) \in Int
           /\ availableQuantity(bal[i]) \in Int
  BY HeldTypes DEF NatBalance, NatEntry, Use, availableQuantity

(* What the other lines and the line itself can have used leaves enough.   *)
LEMMA EnoughFree ==
    ASSUME StockInv, CellsTell, CellsSell, Balanced, Plenty,
           NEW l \in Lines, NEW i \in Items, journal[l][i].taken = 0
    PROVE  availableQuantity(bal[i]) + journal[l][i].res >= Need(recipe[l][i])
  <1>1. PICK most \in [Items -> Nat] :
            /\ \A r \in Recipes : Need(r[i]) <= most[i]
            /\ 4 * most[i] * Cardinality(Lines) <= OpeningStock[i]
    BY DEF Plenty
  <1> DEFINE m == most[i]
             f == Using(i)
             n == Cardinality(Lines \ {l})
             rest == SumFunctionOnSet(f, Lines \ {l})
  <1>2. m \in Nat /\ \A r \in Recipes : Need(r[i]) <= m
    BY <1>1
  <1>3. ASSUME NEW k \in Lines
        PROVE  /\ Use(journal[k][i]) \in Int /\ Use(journal[k][i]) <= 4 * m
               /\ journal[k][i].taken = 0
                    => Use(journal[k][i]) - journal[k][i].res <= 2 * m
    <2>1. CellTells(i, CellOf(k, i)) /\ CellOf(k, i).e = journal[k][i]
      BY DEF CellsTell, CellOf
    <2>2. recipe[k] \in Recipes /\ Sells(recipe[k][i], CellOf(k, i).e)
      BY <2>1 DEF CellsSell, StockInv, StockTypeOK
    <2> HIDE DEF m
    <2>3. /\ Use(CellOf(k, i).e) \in Int /\ Use(CellOf(k, i).e) <= 4 * m
          /\ CellOf(k, i).e.taken = 0 => Use(CellOf(k, i).e) - CellOf(k, i).e.res <= 2 * m
      BY <1>2, <2>1, <2>2, UseBounded, OrderStockAssumption
    <2>4. QED
      BY <2>1, <2>3
  <1>4. \A k \in Lines : f[k] \in Int /\ f[k] <= 4 * m /\ f[k] = Use(journal[k][i])
    BY <1>3 DEF Using
  <1>5. IsFiniteSet(Lines) /\ IsFiniteSet(Lines \ {l})
        /\ n \in Nat /\ Cardinality(Lines) = n + 1
    <2>1. IsFiniteSet(Lines)
      BY FulfilmentAssumption
    <2>2. IsFiniteSet(Lines \ {l}) /\ Cardinality(Lines \ {l}) = Cardinality(Lines) - 1
      BY <2>1, FS_RemoveElement
    <2>3. Cardinality(Lines) \in Nat /\ Cardinality(Lines \ {l}) \in Nat
      BY <2>1, <2>2, FS_CardinalityType
    <2>4. QED
      BY <2>1, <2>2, <2>3
  <1>6. 4 * m * (n + 1) = (4 * m) * n + 4 * m /\ (4 * m) * n \in Int
    BY <1>2, <1>5
  <1>7. Need(recipe[l][i]) <= m /\ Need(recipe[l][i]) \in Int
    <2>1. recipe[l] \in Recipes
      BY DEF StockInv, StockTypeOK
    <2>2. recipe[l][i] \in UnitCounts
      BY <2>1, RecipeItem, OrderStockAssumption
    <2>3. QED
      BY <1>2, <2>1, <2>2 DEF Need, UnitCounts
  <1>8. availableQuantity(bal[i]) + SumFunctionOnSet(f, Lines) = OpeningStock[i]
        /\ availableQuantity(bal[i]) \in Int /\ journal[l][i].res \in Int
    BY UsesType, HeldTypes DEF Balanced, NatEntry
  <1>9. (4 * m) * n + 4 * m <= OpeningStock[i] /\ OpeningStock[i] \in Int
    BY <1>1, <1>5, <1>6, OrderStockAssumption, MaxQuantityAssumption
  <1> HIDE DEF f, m
  <1>10. SumFunctionOnSet(f, Lines) = f[l] + rest
    BY <1>4, <1>5, SumRemove
  <1>11. rest <= (4 * m) * n
    <2>1. \A k \in Lines \ {l} : f[k] \in Int /\ f[k] <= 4 * m
      BY <1>4
    <2>2. 4 * m \in Int
      BY <1>2
    <2>3. QED
      BY <1>5, <2>1, <2>2, SumAtMost
  <1>12. rest \in Int
    BY <1>4, <1>5, SumType
  <1> HIDE DEF rest, n
  <1>13. f[l] \in Int /\ f[l] - journal[l][i].res <= 2 * m
    BY <1>3, <1>4
  <1>14. QED
    BY <1>2, <1>5, <1>6, <1>7, <1>8, <1>9, <1>10, <1>11, <1>12, <1>13

(* Where one line's cells move and none uses or leaves more or less.       *)
LEMMA OneLineBalanced ==
    ASSUME StockInv, StockInv', Balanced, NEW l \in Lines,
           \A k \in Lines \ {l} : journal'[k] = journal[k],
           \A i \in Items : availableQuantity(bal'[i]) + Use(journal'[l][i])
                                = availableQuantity(bal[i]) + Use(journal[l][i])
    PROVE  Balanced'
  <1> SUFFICES ASSUME NEW i \in Items
               PROVE  availableQuantity(bal'[i])
                          + SumFunctionOnSet([k \in Lines |-> Use(journal'[k][i])], Lines)
                      = OpeningStock[i]
    BY DEF Balanced, Using
  <1> DEFINE f == Using(i)
             g == [k \in Lines |-> Use(journal'[k][i])]
  <1>1. \A k \in Lines : f[k] = Use(journal[k][i]) /\ f[k] \in Int
    BY UsesType DEF Using
  <1>2. g[l] = Use(journal'[l][i]) /\ g[l] \in Int
        /\ availableQuantity(bal'[i]) \in Int
    <2>1. /\ bal' \in [Items -> NatBalance]
          /\ journal' \in [Lines -> [Items -> NatEntry]]
      BY DEF StockInv, StockTypeOK, NatBalance, NatEntry
    <2>2. QED
      BY <2>1 DEF NatBalance, NatEntry, Use, availableQuantity
  <1>3. \A k \in Lines \ {l} : g[k] = f[k]
    BY DEF Using
  <1>4. availableQuantity(bal'[i]) + g[l] = availableQuantity(bal[i]) + f[l]
    BY <1>1, <1>2
  <1>5. availableQuantity(bal[i]) \in Int
        /\ availableQuantity(bal[i]) + SumFunctionOnSet(f, Lines) = OpeningStock[i]
    BY UsesType DEF Balanced
  <1>6. IsFiniteSet(Lines)
    BY FulfilmentAssumption
  <1> HIDE DEF f, g
  <1>7. \A k \in Lines : f[k] \in Int
    BY <1>1
  <1>8. g[l] \in Int
    BY <1>2
  <1>9. l \in Lines
    OBVIOUS
  <1>10. SumFunctionOnSet(g, Lines) = SumFunctionOnSet(f, Lines) - f[l] + g[l]
    BY ONLY <1>3, <1>6, <1>7, <1>8, <1>9, SumUpdate
  <1>11. SumFunctionOnSet(f, Lines) \in Int
    BY ONLY <1>6, <1>7, SumType
  <1>12. availableQuantity(bal'[i]) + SumFunctionOnSet(g, Lines) = OpeningStock[i]
    BY <1>2, <1>4, <1>5, <1>7, <1>8, <1>9, <1>10, <1>11
  <1>13. QED
    BY <1>12 DEF g
-----------------------------------------------------------------------------
(* No item is both sold in a line and given away with it.                  *)
OneRole == \A r \in Recipes, i \in Items : r[i].product = 0 \/ r[i].gift = 0

Snapped == \A o \in Orders : \A l \in resv[o].todo : resv[o].snap[l] = recipe[l]

(* A delivery goes through the lines only of an order that is recognized.  *)
Opened == /\ txn.late = {}
          /\ txn.op = "deliver" => \A l \in txn.todo : Sold(l)

Settled == \A l \in Lines, i \in Items :
    /\ status[l] = "DELIVERED" => journal[l][i].taken = Need(recipe[l][i])
    /\ Sold(l) => \/ journal[l][i].taken = Need(recipe[l][i])
                  \/ txn.op = "deliver" /\ l \in txn.todo
    /\ Sold(l) \/ journal[l][i].taken = 0

SalesInv ==
    /\ DamageInv /\ HeldInv
    /\ Snapped /\ Opened /\ Balanced /\ CellsSell /\ Settled

LEMMA SalesTypes ==
    ASSUME SalesInv
    PROVE  /\ StockInv
           /\ bal \in [Items -> NatBalance]
           /\ journal \in [Lines -> [Items -> NatEntry]]
           /\ status \in [Lines -> StockStatus]
           /\ recipe \in [Lines -> Recipes]
           /\ \A l \in Lines, i \in Items : recipe[l][i] \in UnitCounts
           /\ txn.todo \subseteq Lines
           /\ recognized \in [Orders -> Event]
           /\ OrderOf \in [Lines -> Orders]
  <1>1. StockInv
    BY DEF SalesInv, DamageInv
  <1>2. \A l \in Lines, i \in Items : recipe[l][i] \in UnitCounts
    BY <1>1, RecipeUnits, OrderStockAssumption
  <1>3. recognized \in [Orders -> Event]
    BY FulfilmentAssumption DEF SalesInv, DamageInv, LedgerInv, LedgerTypeOK
  <1>4. QED
    BY <1>1, <1>2, <1>3, HeldTypes, OrderStockAssumption DEF StockInv, StockTypeOK

(* A step that moves no stock and delivers no line.                        *)
LEMMA SalesStay ==
    ASSUME SalesInv, UNCHANGED <<bal, journal, recipe, recognized, txn>>,
           \A l \in Lines : status'[l] = "DELIVERED" => status[l] = "DELIVERED"
    PROVE  Opened' /\ Balanced' /\ CellsSell' /\ Settled'
  BY DEF SalesInv, Opened, Balanced, Using, CellsSell, Settled, Sold

(* One line of a transaction is done; the others are still to do.          *)
LEMMA LineEnds ==
    ASSUME NEW l, EndLine(l), txn.late = {}
    PROVE  /\ txn'.late = {} /\ txn'.todo \subseteq txn.todo
           /\ txn'.op = "deliver" => txn.op = "deliver"
           /\ \A k \in txn.todo \ {l} : txn'.op = txn.op /\ k \in txn'.todo
  BY DEF EndLine, NoTxn

(* A step on one line that takes all the line needs, or takes nothing      *)
(* while no delivery is open.                                              *)
LEMMA OneLineSells ==
    ASSUME SalesInv, StockInv', NEW l \in Lines, UNCHANGED <<recipe, recognized>>,
           \A k \in Lines \ {l} : /\ journal'[k] = journal[k]
                                  /\ status'[k] = status[k],
           \A i \in Items :
               /\ Sells(recipe[l][i], journal'[l][i])
               /\ availableQuantity(bal'[i]) + Use(journal'[l][i])
                      = availableQuantity(bal[i]) + Use(journal[l][i])
               /\ \/ Sold(l) /\ journal'[l][i].taken = Need(recipe[l][i])
                  \/ /\ journal'[l][i].taken = journal[l][i].taken
                     /\ status'[l] = "DELIVERED" => status[l] = "DELIVERED"
                     /\ txn.op = "deliver" => l \notin txn.todo,
           txn'.late = {}, txn'.todo \subseteq txn.todo,
           txn'.op = "deliver" => txn.op = "deliver",
           \A k \in txn.todo \ {l} : txn'.op = txn.op /\ k \in txn'.todo
    PROVE  Opened' /\ Balanced' /\ CellsSell' /\ Settled'
  <1>1. Balanced'
    BY OneLineBalanced DEF SalesInv, DamageInv
  <1>2. CellsSell'
    <2> SUFFICES ASSUME NEW k \in Lines, NEW i \in Items
                 PROVE  Sells(recipe[k][i], journal'[k][i])
      BY DEF CellsSell
    <2>1. CASE k = l
      BY <2>1
    <2>2. CASE k # l
      BY <2>2 DEF SalesInv, CellsSell
    <2>3. QED
      BY <2>1, <2>2
  <1>3. \A k \in Lines : Sold(k)' = Sold(k)
    BY DEF Sold
  <1>4. Opened'
    BY <1>3, SalesTypes DEF SalesInv, Opened
  <1>5. Settled'
    <2> SUFFICES ASSUME NEW k \in Lines, NEW i \in Items
                 PROVE  /\ status'[k] = "DELIVERED"
                             => journal'[k][i].taken = Need(recipe[k][i])
                        /\ Sold(k) => \/ journal'[k][i].taken = Need(recipe[k][i])
                                      \/ txn'.op = "deliver" /\ k \in txn'.todo
                        /\ Sold(k) \/ journal'[k][i].taken = 0
      BY <1>3 DEF Settled
    <2>0. /\ status[k] = "DELIVERED" => journal[k][i].taken = Need(recipe[k][i])
          /\ Sold(k) => \/ journal[k][i].taken = Need(recipe[k][i])
                        \/ txn.op = "deliver" /\ k \in txn.todo
          /\ Sold(k) \/ journal[k][i].taken = 0
      BY DEF SalesInv, Settled
    <2>1. CASE k = l
      BY <2>0, <2>1
    <2>2. CASE k # l
      <3>1. journal'[k] = journal[k] /\ status'[k] = status[k]
        BY <2>2
      <3>2. txn.op = "deliver" /\ k \in txn.todo
              => txn'.op = "deliver" /\ k \in txn'.todo
        BY <2>2
      <3>3. QED
        BY <2>0, <3>1, <3>2
    <2>3. QED
      BY <2>1, <2>2
  <1>6. QED
    BY <1>1, <1>2, <1>4, <1>5
(* A delivered line: everything it needs is there to take.                 *)
LEMMA SaleDelivers ==
    ASSUME SalesInv, StockInv', Plenty, OneRole, UNCHANGED recognized,
           NEW l \in Lines, DeliverLine(l)
    PROVE  Snapped' /\ Opened' /\ Balanced' /\ CellsSell' /\ Settled'
  <1>0. /\ UNCHANGED <<recipe, alloc, resv>> /\ EndLine(l)
        /\ l \in txn.todo /\ txn.op = "deliver" /\ txn.late = {} /\ Sold(l)
    BY DEF DeliverLine, SkipLine, SalesInv, Opened
  <1>1. Snapped'
    BY <1>0 DEF Snapped, SalesInv
  <1>2. /\ txn'.late = {} /\ txn'.todo \subseteq txn.todo
        /\ txn'.op = "deliver" => txn.op = "deliver"
        /\ \A k \in txn.todo \ {l} : txn'.op = txn.op /\ k \in txn'.todo
    BY <1>0, LineEnds
  <1>3. CASE SkipLine(l) /\ (~Matched(l) \/ status[l] = "DELIVERED")
    <2>1. UNCHANGED <<bal, journal, status>>
      BY <1>3 DEF SkipLine
    <2>2. ASSUME NEW i \in Items
          PROVE  /\ Sells(recipe[l][i], journal[l][i])
                 /\ journal[l][i].taken = Need(recipe[l][i])
      <3>1. Sells(recipe[l][i], journal[l][i])
        BY DEF SalesInv, CellsSell
      <3>2. CASE ~Matched(l)
        <4>1. Need(recipe[l][i]) = 0
          BY <3>2 DEF Matched, Unmatched, Need
        <4>2. QED
          BY <3>1, <4>1 DEF Sells
      <3>3. CASE status[l] = "DELIVERED"
        BY <3>1, <3>3 DEF SalesInv, Settled
      <3>4. QED
        BY <1>3, <3>2, <3>3
    <2>3. Opened' /\ Balanced' /\ CellsSell' /\ Settled'
      BY <1>0, <1>2, <2>1, <2>2, OneLineSells
    <2>4. QED
      BY <1>1, <2>3
  <1>4. CASE /\ SetCells(l, [i \in Items |->
                   DeliverCell(CellOf(l, i), recipe[l][i], status[l])])
             /\ status' = [status EXCEPT ![l] = "DELIVERED"]
    <2> DEFINE f == [i \in Items |->
                        DeliverCell(CellOf(l, i), recipe[l][i], status[l])]
    <2>1. /\ \A i \in Items : bal'[i] = f[i].b /\ journal'[l][i] = f[i].e
          /\ \A k \in Lines \ {l} : journal'[k] = journal[k] /\ status'[k] = status[k]
      BY <1>4, SalesTypes DEF SetCells
    <2>2. ASSUME NEW i \in Items
          PROVE  /\ Sells(recipe[l][i], f[i].e)
                 /\ Free(f[i]) = Free(CellOf(l, i))
                 /\ f[i].e.taken = Need(recipe[l][i])
      <3> DEFINE c == CellOf(l, i)
                 u == recipe[l][i]
                 d == DeliverCell(c, u, status[l])
      <3>1. /\ Held(c) /\ CellTells(i, c) /\ CellOK(c)
            /\ c.b = bal[i] /\ c.e = journal[l][i]
        BY CellsHeld DEF SalesInv, HeldInv, PledgeInv, CellsTell, CellTells
      <3>2. u \in UnitCounts /\ recipe[l] \in Recipes
        BY SalesTypes
      <3>3. OneUse(u)
        BY <3>2, ItemKindAssumption DEF OneRole, OneUse
      <3>4. Sells(u, c.e)
        BY <3>1 DEF SalesInv, CellsSell
      <3>5. TakesOnce(i, c, d)
        BY <3>1, <3>2, DeliverCellTells, OrderStockAssumption, ItemKindAssumption
      <3>6. d.e.taken = Need(u)
        <4>1. CASE c.e.taken = 0
          <5>1. availableQuantity(c.b) + c.e.res >= Need(u)
            BY <3>1, <4>1, EnoughFree, SalesTypes
            DEF SalesInv, HeldInv, PledgeInv
          <5>2. "order-deliver" \notin c.e.used /\ "order-packaging" \notin c.e.used
            BY <3>1, <4>1 DEF CellTells, EntryTells
          <5> HIDE DEF c, u
          <5>3. QED
            BY <3>1, <3>2, <3>3, <3>4, <4>1, <5>1, <5>2, DeliverCellTakes DEF Sells
        <4>2. CASE c.e.taken # 0
          <5>1. c.e.taken = Need(u) /\ c.e.taken \in Nat
            BY <3>1, <3>4, <4>2, CellNumbers DEF Sells
          <5>2. QED
            BY <3>5, <4>2, <5>1 DEF TakesOnce
        <4>3. QED
          BY <4>1, <4>2
      <3>7. Moves(c, d) /\ d.e.res \in {0, c.e.res}
        BY <3>1, <3>2, DeliverCellMoves, DeliverCellKeeps
      <3>8. Sells(u, d.e)
        <4> HIDE DEF c, d
        <4>1. QED
          BY <3>4, <3>6, <3>7 DEF Sells, Moves
      <3>9. QED
        BY <3>6, <3>7, <3>8 DEF Moves
    <2>3. ASSUME NEW i \in Items
          PROVE  availableQuantity(bal'[i]) + Use(journal'[l][i])
                     = availableQuantity(bal[i]) + Use(journal[l][i])
      BY <2>1, <2>2, CellsHeld DEF Free, SalesInv
    <2>4. \A i \in Items : /\ Sells(recipe[l][i], journal'[l][i])
                           /\ journal'[l][i].taken = Need(recipe[l][i])
      <3> HIDE DEF f
      <3>1. QED
        BY <2>1, <2>2
    <2>5. Opened' /\ Balanced' /\ CellsSell' /\ Settled'
      <3> HIDE DEF f
      <3>1. QED
        BY <1>0, <1>2, <2>1, <2>3, <2>4, OneLineSells
    <2>6. QED
      BY <1>1, <2>5
  <1>5. QED
    BY <1>0, <1>3, <1>4 DEF DeliverLine

(* A released line gives back what it reserved.                            *)
LEMMA ReleaseCellSells ==
    ASSUME NEW c, Held(c), NEW u, Sells(u, c.e)
    PROVE  /\ Held(ReleaseCell(c)) /\ Moves(c, ReleaseCell(c))
           /\ ReleaseCell(c).e.taken = c.e.taken
           /\ Sells(u, ReleaseCell(c).e)
  <1> DEFINE d == SettleReservation(c, "order-release")
  <1>1. /\ Keeps(c, d) /\ d.e.res = 0 /\ d.e.taken = c.e.taken
    BY SettleReservationKeeps DEF SettleKeys
  <1>2. Moves(c, d)
    BY SettleReservationMoves DEF Held, Keys
  <1> HIDE DEF d
  <1>3. Sells(u, d.e)
    BY <1>1, <1>2 DEF Sells, Moves
  <1>4. QED
    BY <1>1, <1>2, <1>3 DEF Keeps, ReleaseCell, d

LEMMA SaleReleases ==
    ASSUME SalesInv, StockInv', UNCHANGED recognized, NEW l \in Lines, ReleaseLine(l)
    PROVE  Snapped' /\ Opened' /\ Balanced' /\ CellsSell' /\ Settled'
  <1>0. /\ UNCHANGED <<recipe, alloc, resv>> /\ EndLine(l)
        /\ l \in txn.todo /\ txn.op = "release" /\ txn.late = {}
    BY DEF ReleaseLine, SkipLine, SalesInv, Opened
  <1>1. Snapped'
    BY <1>0 DEF Snapped, SalesInv
  <1>2. /\ txn'.late = {} /\ txn'.todo \subseteq txn.todo
        /\ txn'.op = "deliver" => txn.op = "deliver"
        /\ \A k \in txn.todo \ {l} : txn'.op = txn.op /\ k \in txn'.todo
    BY <1>0, LineEnds
  <1>3. CASE UNCHANGED <<bal, journal, status>>
    <2>1. \A i \in Items : Sells(recipe[l][i], journal[l][i])
      BY DEF SalesInv, CellsSell
    <2>2. Opened' /\ Balanced' /\ CellsSell' /\ Settled'
      BY <1>0, <1>2, <1>3, <2>1, OneLineSells
    <2>3. QED
      BY <1>1, <2>2
  <1>4. CASE /\ SetCells(l, [i \in Items |-> ReleaseCell(CellOf(l, i))])
             /\ status' = [status EXCEPT ![l] = "RELEASED"]
    <2>1. /\ \A i \in Items : /\ bal'[i] = ReleaseCell(CellOf(l, i)).b
                              /\ journal'[l][i] = ReleaseCell(CellOf(l, i)).e
          /\ \A k \in Lines \ {l} : journal'[k] = journal[k] /\ status'[k] = status[k]
          /\ status'[l] # "DELIVERED"
      BY <1>4, SalesTypes DEF SetCells
    <2>2. ASSUME NEW i \in Items
          PROVE  /\ Sells(recipe[l][i], journal'[l][i])
                 /\ journal'[l][i].taken = journal[l][i].taken
                 /\ availableQuantity(bal'[i]) + Use(journal'[l][i])
                        = availableQuantity(bal[i]) + Use(journal[l][i])
      <3>1. /\ Held(CellOf(l, i))
            /\ CellOf(l, i).b = bal[i] /\ CellOf(l, i).e = journal[l][i]
        BY CellsHeld DEF SalesInv
      <3>2. Sells(recipe[l][i], CellOf(l, i).e)
        BY <3>1 DEF SalesInv, CellsSell
      <3>3. QED
        BY <2>1, <3>1, <3>2, ReleaseCellSells DEF Moves, Free
    <2>3. Opened' /\ Balanced' /\ CellsSell' /\ Settled'
      BY <1>0, <1>2, <2>1, <2>2, OneLineSells
    <2>4. QED
      BY <1>1, <2>3
  <1>5. QED
    BY <1>3, <1>4 DEF ReleaseLine, SkipLine
(* A scan asks for at most the units the line sold.                        *)
LEMMA TargetBounded ==
    ASSUME NEW a \in Allocation, NEW q \in Nat, a.good + a.damaged + a.lost <= q,
           NEW delivered \in BOOLEAN
    PROVE  Target(a, delivered).damaged <= q /\ 0 - q <= Target(a, delivered).onHand
  <1>1. a.good \in Nat /\ a.damaged \in Nat /\ a.lost \in Nat
    BY DEF Allocation
  <1>2. CASE delivered
    <2>1. Target(a, delivered) = [onHand |-> a.good + a.damaged, damaged |-> a.damaged]
      BY <1>1, <1>2 DEF Target, conditionEffects
    <2>2. QED
      BY <1>1, <2>1
  <1>3. CASE ~delivered
    <2>1. Target(a, delivered) = [onHand |-> 0 - a.lost, damaged |-> a.damaged]
      BY <1>1, <1>3 DEF Target, conditionEffects
    <2>2. QED
      BY <1>1, <2>1
  <1>4. QED
    BY <1>2, <1>3

LEMMA SaleScans ==
    ASSUME SalesInv, StockInv', UNCHANGED recognized,
           NEW l \in Lines, NEW a \in Allocations(recipe[l]), RecordCondition(l, a)
    PROVE  Snapped' /\ Opened' /\ Balanced' /\ CellsSell' /\ Settled'
  <1>0. /\ UNCHANGED <<recipe, txn, resv>> /\ txn.todo = {} /\ txn.late = {}
        /\ SetCells(l, [i \in Items |->
               ReconcileCell(ReleasedCell(l, i),
                             Target(a[i], status[l] = "DELIVERED"))])
        /\ status' = [status EXCEPT ![l] = IF status[l] = "RESERVED"
                                           THEN "RELEASED" ELSE status[l]]
    BY DEF RecordCondition, Idle, SalesInv, Opened
  <1>1. Snapped'
    BY <1>0 DEF Snapped, SalesInv
  <1> DEFINE rel(i) == ReleasedCell(l, i)
             t(i) == Target(a[i], status[l] = "DELIVERED")
             d(i) == ReconcileCell(rel(i), t(i))
  <1>2. /\ \A i \in Items : bal'[i] = d(i).b /\ journal'[l][i] = d(i).e
        /\ \A k \in Lines \ {l} : journal'[k] = journal[k] /\ status'[k] = status[k]
        /\ status'[l] = "DELIVERED" => status[l] = "DELIVERED"
    BY <1>0, SalesTypes DEF SetCells
  <1>3. ASSUME NEW i \in Items
        PROVE  /\ Sells(recipe[l][i], journal'[l][i])
               /\ journal'[l][i].taken = journal[l][i].taken
               /\ availableQuantity(bal'[i]) + Use(journal'[l][i])
                      = availableQuantity(bal[i]) + Use(journal[l][i])
    <2> DEFINE u == recipe[l][i]
    <2>1. /\ Held(CellOf(l, i))
          /\ CellOf(l, i).b = bal[i] /\ CellOf(l, i).e = journal[l][i]
      BY CellsHeld DEF SalesInv
    <2>2. Sells(u, CellOf(l, i).e)
      BY <2>1 DEF SalesInv, CellsSell
    <2>3. /\ Held(rel(i)) /\ Moves(CellOf(l, i), rel(i))
          /\ rel(i).e.taken = journal[l][i].taken /\ Sells(u, rel(i).e)
      <3> HIDE DEF u
      <3>1. QED
        BY <2>1, <2>2, ReleaseCellSells, MovesRefl DEF ReleasedCell, Held
    <2>4. a[i] \in Allocation /\ a[i].good + a[i].damaged + a[i].lost <= u.product
          /\ u.product \in Nat
      <3>1. a[i] \in Allocation
        BY SalesTypes, AllocationsType, OrderStockAssumption
      <3>2. a[i] \in Splits(u.product) /\ u.product \in Nat
        BY SalesTypes DEF Allocations, UnitCounts
      <3>3. QED
        BY <3>1, <3>2 DEF Splits
    <2>5. /\ t(i) \in [onHand : Int, damaged : Int]
          /\ t(i).damaged <= u.product /\ 0 - u.product <= t(i).onHand
      <3>1. (status[l] = "DELIVERED") \in BOOLEAN
        OBVIOUS
      <3> HIDE DEF u
      <3>2. QED
        BY <2>4, <3>1, TargetType, TargetBounded
    <2>6. /\ Free(d(i)) = Free(rel(i))
          /\ d(i).e.retDamaged <= u.product /\ 0 - u.product <= d(i).e.retOnHand
          /\ d(i).e.res = rel(i).e.res /\ d(i).e.taken = rel(i).e.taken
      <3>1. CellOK(rel(i))
        BY <2>3 DEF Held
      <3> HIDE DEF u, t, rel
      <3>2. QED
        BY <2>3, <2>4, <2>5, <3>1, ReconcileMoves, ReconcileKeeps DEF Sells
    <2>7. Free(d(i)) = Free(CellOf(l, i))
      BY <2>3, <2>6 DEF Moves
    <2>8. Sells(u, d(i).e)
      <3> HIDE DEF u, d, rel
      <3>1. QED
        BY <2>3, <2>6 DEF Sells
    <2> HIDE DEF d, rel, u
    <2>9. QED
      BY <1>2, <2>1, <2>3, <2>6, <2>7, <2>8 DEF Free, u
  <1> HIDE DEF d
  <1>4. Opened' /\ Balanced' /\ CellsSell' /\ Settled'
    BY <1>0, <1>2, <1>3, OneLineSells
  <1>5. QED
    BY <1>1, <1>4

(* A reservation takes units of an item the line still consists of.        *)
LEMMA SaleReserves ==
    ASSUME SalesInv, StockInv', UNCHANGED recognized,
           NEW o \in Orders, NEW u \in resv[o].left, ReserveMove(o, u)
    PROVE  Snapped' /\ Opened' /\ Balanced' /\ CellsSell' /\ Settled'
  <1> DEFINE l == u[1]
             i == u[3]
             q == resv[o].snap[l][i][u[2]]
             c == ReserveUnit(CellOf(l, i), q)
  <1>0. /\ UNCHANGED <<status, recipe, alloc, txn>> /\ txn.todo = {} /\ txn.late = {}
        /\ bal' = [bal EXCEPT ![i] = c.b] /\ journal' = [journal EXCEPT ![l][i] = c.e]
        /\ resv' = [resv EXCEPT ![o].left = @ \ {u}]
    BY DEF ReserveMove, Idle, SalesInv, Opened
  <1>1. /\ l \in Lines /\ i \in Items /\ u[2] \in {"product", "gift"}
        /\ l \in resv[o].todo /\ u \in PhysicalUnits(l, resv[o].snap[l])
    BY SalesTypes DEF SalesInv, HeldInv, PledgeInv, LeftUnits, Planned, StockInv, StockTypeOK
  <1>2. Snapped'
    <2>1. \A p \in Orders : resv'[p].todo = resv[p].todo /\ resv'[p].snap = resv[p].snap
      <3> SUFFICES ASSUME NEW p \in Orders
                   PROVE  resv'[p].todo = resv[p].todo /\ resv'[p].snap = resv[p].snap
        OBVIOUS
      <3>1. resv \in [Orders -> [stage : Stages, todo : SUBSET Lines,
                        left : SUBSET (Lines \X Roles \X Items),
                        snap : [Lines -> Recipes \cup {Unmatched}]]]
        BY SalesTypes, HeldTypes
      <3>2. CASE p # o
        BY <1>0, <3>1, <3>2
      <3>3. CASE p = o
        <4>1. resv'[o] = [resv[o] EXCEPT !.left = resv[o].left \ {u}]
          BY <1>0, <3>1
        <4>2. QED
          BY <3>1, <3>3, <4>1
      <3>4. QED
        BY <3>2, <3>3
    <2>2. QED
      BY ZenonT(30), <1>0, <2>1 DEF Snapped, SalesInv
  <1>3. /\ q = recipe[l][i][u[2]] /\ q > 0 /\ q \in Nat
        /\ recipe[l][i].product + recipe[l][i].gift > 0
    <2>1. resv[o].snap[l] = recipe[l]
      BY <1>1 DEF SalesInv, Snapped
    <2>2. q > 0
      BY <1>1 DEF PhysicalUnits
    <2>3. recipe[l][i].product \in Nat /\ recipe[l][i].gift \in Nat
      BY <1>1, SalesTypes DEF UnitCounts
    <2>4. QED
      BY <1>1, <2>1, <2>2, <2>3
  <1>4. /\ CellOK(CellOf(l, i))
        /\ CellOf(l, i).b = bal[i] /\ CellOf(l, i).e = journal[l][i]
    BY <1>1, CellsGood, SalesTypes
  <1>5. Moves(CellOf(l, i), c) /\ c.e.taken = journal[l][i].taken
    <2> HIDE DEF q, l, i
    <2>1. Moves(CellOf(l, i), c)
      BY <1>3, <1>4, ReserveUnitMoves
    <2>2. c.e.taken = CellOf(l, i).e.taken
      BY <1>3, <1>4, ReserveUnitEffect
    <2>3. QED
      BY <1>4, <2>1, <2>2
  <1>6. Sells(recipe[l][i], c.e)
    <2>1. Sells(recipe[l][i], CellOf(l, i).e)
      BY <1>1, <1>4 DEF SalesInv, CellsSell
    <2> HIDE DEF c
    <2>2. QED
      BY <1>3, <1>4, <1>5, <2>1 DEF Sells, Moves
  <1> HIDE DEF c, q, l, i
  <1>7. ASSUME NEW j \in Items
        PROVE  /\ Sells(recipe[l][j], journal'[l][j])
               /\ journal'[l][j].taken = journal[l][j].taken
               /\ availableQuantity(bal'[j]) + Use(journal'[l][j])
                      = availableQuantity(bal[j]) + Use(journal[l][j])
    <2>1. CASE j = i
      <3>1. bal'[j] = c.b /\ journal'[l][j] = c.e
        BY <1>0, <1>1, <2>1, SalesTypes
      <3>2. QED
        BY <1>4, <1>5, <1>6, <2>1, <3>1 DEF Moves, Free
    <2>2. CASE j # i
      <3>1. bal'[j] = bal[j] /\ journal'[l][j] = journal[l][j]
        BY <1>0, <1>1, <2>2, SalesTypes
      <3>2. QED
        BY <1>1, <3>1 DEF SalesInv, CellsSell
    <2>3. QED
      BY <2>1, <2>2
  <1>8. /\ \A k \in Lines \ {l} : journal'[k] = journal[k] /\ status'[k] = status[k]
        /\ status'[l] = status[l]
    BY <1>0, <1>1, SalesTypes
  <1>9. Opened' /\ Balanced' /\ CellsSell' /\ Settled'
    BY <1>0, <1>1, <1>7, <1>8, OneLineSells
  <1>10. QED
    BY <1>2, <1>9
(* A dispatch copies the recipes it loads; recipes do not change here.     *)
LEMMA SaleDispatches ==
    ASSUME SalesInv, UNCHANGED recognized, NEW o \in Orders,
           \/ LoadReservation(o)
           \/ \E l \in resv[o].todo : SetReserved(o, l)
           \/ AbortReservation(o)
    PROVE  Snapped' /\ Opened' /\ Balanced' /\ CellsSell' /\ Settled'
  <1>1. /\ UNCHANGED <<bal, journal, recipe, txn>>
        /\ \A l \in Lines : status'[l] = "DELIVERED" => status[l] = "DELIVERED"
    BY SalesTypes DEF LoadReservation, SetReserved, AbortReservation
  <1>2. Opened' /\ Balanced' /\ CellsSell' /\ Settled'
    BY <1>1, SalesStay
  <1>3. \E v : /\ resv' = [resv EXCEPT ![o] = v]
               /\ \A l \in v.todo : v.snap[l] = recipe[l]
    <2>1. CASE LoadReservation(o)
      <3> DEFINE load == {l \in LinesOf(o) : Matched(l) /\ status[l] = "NULL"}
                 v == [stage |-> IF load = {} THEN "done" ELSE "running",
                       todo  |-> load,
                       left  |-> UNION {PhysicalUnits(l, recipe[l]) : l \in load},
                       snap  |-> [l \in Lines |-> IF l \in load THEN recipe[l]
                                                  ELSE Unmatched]]
      <3>1. resv' = [resv EXCEPT ![o] = v]
        BY <2>1 DEF LoadReservation
      <3>2. \A l \in v.todo : v.snap[l] = recipe[l]
        BY DEF LinesOf
      <3> HIDE DEF v
      <3>3. QED
        BY <3>1, <3>2
    <2>2. CASE \E l \in resv[o].todo : SetReserved(o, l)
      <3>1. PICK l \in resv[o].todo : SetReserved(o, l)
        BY <2>2
      <3>2. CASE resv[o].todo = {l}
        <4> DEFINE v == [NoReservation EXCEPT !.stage = "done"]
        <4>1. resv' = [resv EXCEPT ![o] = v] /\ v.todo = {}
          BY <3>1, <3>2 DEF SetReserved, NoReservation
        <4> HIDE DEF v
        <4>2. QED
          BY <4>1
      <3>3. CASE resv[o].todo # {l}
        <4> DEFINE v == [resv[o] EXCEPT !.todo = resv[o].todo \ {l}]
        <4>1. resv' = [resv EXCEPT ![o] = v]
          BY <3>1, <3>3 DEF SetReserved
        <4>2. v.todo \subseteq resv[o].todo /\ v.snap = resv[o].snap
          BY SalesTypes, HeldTypes
        <4>3. \A k \in v.todo : v.snap[k] = recipe[k]
          BY <4>2 DEF SalesInv, Snapped
        <4> HIDE DEF v
        <4>4. QED
          BY <4>1, <4>3
      <3>4. QED
        BY <3>2, <3>3
    <2>3. CASE AbortReservation(o)
      <3> DEFINE v == [NoReservation EXCEPT !.stage = "failed"]
      <3>1. resv' = [resv EXCEPT ![o] = v] /\ v.todo = {}
        BY <2>3 DEF AbortReservation, NoReservation
      <3> HIDE DEF v
      <3>2. QED
        BY <3>1
    <2>4. QED
      BY <2>1, <2>2, <2>3
  <1>4. PICK v : /\ resv' = [resv EXCEPT ![o] = v]
                 /\ \A l \in v.todo : v.snap[l] = recipe[l]
    BY <1>3
  <1>5. \A p \in Orders : resv'[p] = IF p = o THEN v ELSE resv[p]
    BY <1>4, SalesTypes, HeldTypes
  <1>6. Snapped'
    BY <1>1, <1>4, <1>5 DEF Snapped, SalesInv
  <1>7. QED
    BY <1>2, <1>6

(* A sync recognizes the revenue of an order before its lines are taken    *)
(* one by one, and never takes a recognition back.                         *)
LEMMA SaleSyncs ==
    ASSUME SalesInv, NEW o \in Orders, NEW price \in Prices, NEW fee \in Fees,
           SyncOrder(o, price, fee)
    PROVE  Snapped' /\ Opened' /\ Balanced' /\ CellsSell' /\ Settled'
  <1>1. /\ UNCHANGED <<bal, journal, status, recipe, alloc, resv>>
        /\ txn.todo = {}
        /\ \/ /\ BookDelivered(o, price, fee)
              /\ txn' = [op |-> "deliver", todo |-> LinesOf(o), late |-> {}]
           \/ /\ BookCancelled(o) \/ BookRefused(o, fee)
              /\ txn' = [op |-> "release", todo |-> LinesOf(o), late |-> {}]
    BY DEF SyncOrder, Begin, Idle
  <1>2. Snapped' /\ Balanced' /\ CellsSell'
    BY <1>1 DEF SalesInv, Snapped, Balanced, Using, CellsSell
  <1>3. /\ recognized' \in [Orders -> Event]
        /\ \A p \in Orders \ {o} : recognized'[p] = recognized[p]
        /\ BookDelivered(o, price, fee) => recognized'[o].booked
        /\ ~BookDelivered(o, price, fee) => recognized' = recognized
    <2>1. CASE BookDelivered(o, price, fee)
      <3>1. CASE ~recognized[o].booked
        <4>1. /\ recognized' = [recognized EXCEPT ![o] = Recognition(o, price, fee)]
              /\ Recognition(o, price, fee).booked
          BY <2>1, <3>1 DEF BookDelivered, applyRevenueRecognition, PostRecognition, Recognition
        <4>2. Recognition(o, price, fee) \in Event
          BY OrderLedgerAssumption, FulfilmentAssumption
          DEF Recognition, Event, Price
        <4> HIDE DEF Recognition
        <4>3. QED
          BY <2>1, <4>1, <4>2, SalesTypes
      <3>2. CASE recognized[o].booked
        <4>1. recognized' = recognized
          BY <2>1, <3>2
          DEF BookDelivered, applyRevenueRecognition, PostNothing, PostReinstatement
        <4>2. QED
          BY <2>1, <3>2, <4>1, SalesTypes
      <3>3. QED
        BY <3>1, <3>2
    <2>2. CASE ~BookDelivered(o, price, fee)
      <3>1. recognized' = recognized
        BY <1>1, <2>2
        DEF BookCancelled, BookRefused, applyRevenueReversal, PostNothing, PostReversal
      <3>2. QED
        BY <2>2, <3>1, SalesTypes
    <2>3. QED
      BY <2>1, <2>2
  <1>4. Opened'
    BY <1>1, <1>3, SalesTypes DEF Opened, Sold, LinesOf
  <1>5. Settled'
    <2> SUFFICES ASSUME NEW l \in Lines, NEW i \in Items
                 PROVE  /\ status[l] = "DELIVERED"
                             => journal[l][i].taken = Need(recipe[l][i])
                        /\ Sold(l)' => \/ journal[l][i].taken = Need(recipe[l][i])
                                       \/ txn'.op = "deliver" /\ l \in txn'.todo
                        /\ Sold(l)' \/ journal[l][i].taken = 0
      BY <1>1 DEF Settled
    <2>1. /\ status[l] = "DELIVERED" => journal[l][i].taken = Need(recipe[l][i])
          /\ Sold(l) => journal[l][i].taken = Need(recipe[l][i])
          /\ Sold(l) \/ journal[l][i].taken = 0
      BY <1>1 DEF SalesInv, Settled
    <2>2. CASE Sold(l)' = Sold(l)
      BY <2>1, <2>2
    <2>3. CASE Sold(l)' # Sold(l)
      <3>1. OrderOf[l] = o /\ recognized' # recognized
        BY <1>3, <2>3, SalesTypes DEF Sold
      <3>2. BookDelivered(o, price, fee)
        BY <1>3, <3>1
      <3>3. recognized'[o].booked /\ recognized[o].booked \in BOOLEAN
            /\ recognized'[o].booked \in BOOLEAN
        BY <1>3, <3>2, SalesTypes DEF Event
      <3>4. Sold(l)' /\ ~Sold(l)
        BY <2>3, <3>1, <3>3 DEF Sold
      <3>5. txn'.op = "deliver" /\ l \in txn'.todo
        <4>1. txn' = [op |-> "deliver", todo |-> LinesOf(o), late |-> {}]
          <5>1. ~(BookCancelled(o) \/ BookRefused(o, fee))
            BY <3>1
            DEF BookCancelled, BookRefused, applyRevenueReversal, PostNothing, PostReversal
          <5>2. QED
            BY <1>1, <5>1
        <4>2. QED
          BY <3>1, <4>1 DEF LinesOf
      <3>6. QED
        BY <2>1, <3>4, <3>5
    <2>4. QED
      BY <2>2, <2>3
  <1>6. QED
    BY <1>2, <1>4, <1>5

LEMMA SalesInitInv == ASSUME FulfilmentInit PROVE SalesInv
  <1>1. DamageInv
    BY DamageInitInv
  <1>2. HeldInv
    BY HeldInitInv, OrderStockAssumption, MaxQuantityAssumption DEF FulfilmentInit
  <1>3. Snapped /\ Opened
    BY DEF FulfilmentInit, StockInit, Snapped, Opened, NoReservation, NoTxn
  <1>4. \A l \in Lines, i \in Items : journal[l][i] = NoEntry
    BY DEF FulfilmentInit, StockInit
  <1>5. CellsSell
    <2>1. ASSUME NEW l \in Lines, NEW i \in Items
          PROVE  recipe[l][i].product \in Nat
      BY <1>1, RecipeUnits, OrderStockAssumption DEF DamageInv, UnitCounts
    <2>2. QED
      BY <1>4, <2>1 DEF CellsSell, Sells, NoEntry
  <1>6. Balanced
    <2> SUFFICES ASSUME NEW i \in Items
                 PROVE  availableQuantity(bal[i]) + SumFunctionOnSet(Using(i), Lines)
                            = OpeningStock[i]
      BY DEF Balanced
    <2>1. \A l \in Lines : Using(i)[l] = 0
      BY <1>4 DEF Using, Use, NoEntry
    <2>2. SumFunctionOnSet(Using(i), Lines) = 0
      BY <2>1, FulfilmentAssumption, SumOfZeros
    <2>3. OpeningStock[i] \in Int /\ availableQuantity(bal[i]) = OpeningStock[i]
      BY OrderStockAssumption, MaxQuantityAssumption
      DEF FulfilmentInit, StockInit, EmptyBalance, availableQuantity
    <2>4. QED
      BY <2>2, <2>3
  <1>7. Settled
    <2>1. \A l \in Lines : ~Sold(l) /\ status[l] = "NULL"
      BY FulfilmentAssumption, OrderStockAssumption
      DEF FulfilmentInit, StockInit, LedgerInit, None, Sold
    <2>2. QED
      BY <1>4, <2>1 DEF Settled, NoEntry
  <1>8. QED
    BY <1>1, <1>2, <1>3, <1>5, <1>6, <1>7 DEF SalesInv

LEMMA SalesNextInv ==
    ASSUME SalesInv, Plenty, OneRole, [FulfilmentNext]_fulfilmentVars
    PROVE  SalesInv'
  <1>1. DamageInv' /\ HeldInv' /\ StockInv'
    BY DamageNextInv, FulfilmentHeld DEF SalesInv, DamageInv
  <1> SUFFICES Snapped' /\ Opened' /\ Balanced' /\ CellsSell' /\ Settled'
    BY <1>1 DEF SalesInv
  <1>2. CASE UNCHANGED <<stockVars, ledgerVars>>
    <2>1. UNCHANGED <<bal, journal, status, recipe, resv, txn, recognized>>
      BY <1>2 DEF stockVars, ledgerVars
    <2>2. Opened' /\ Balanced' /\ CellsSell' /\ Settled'
      BY <2>1, SalesStay
    <2>3. Snapped'
      BY <2>1 DEF Snapped, SalesInv
    <2>4. QED
      BY <2>2, <2>3
  <1>3. ASSUME NEW o \in Orders, NEW price \in Prices, NEW fee \in Fees,
               SyncOrder(o, price, fee)
        PROVE  Snapped' /\ Opened' /\ Balanced' /\ CellsSell' /\ Settled'
    BY <1>3, SaleSyncs
  <1>4. ASSUME NEW l \in Scanned, NEW a \in Allocations(recipe[l]), record(l, a)
        PROVE  Snapped' /\ Opened' /\ Balanced' /\ CellsSell' /\ Settled'
    <2>1. RecordCondition(l, a) /\ recognized' = recognized /\ l \in Lines
      BY <1>4, OrderStockAssumption DEF record, setLineLoss
    <2>2. QED
      BY <1>1, <2>1, SaleScans
  <1>5. ASSUME StockStep
        PROVE  Snapped' /\ Opened' /\ Balanced' /\ CellsSell' /\ Settled'
    <2>1. UNCHANGED recognized
      BY <1>5 DEF StockStep, ledgerVars
    <2>2. CASE \E l \in Lines : DeliverLine(l) \/ ReleaseLine(l)
      BY <1>1, <2>1, <2>2, SaleDelivers, SaleReleases
    <2>3. CASE \E o \in Orders : \E u \in resv[o].left : ReserveMove(o, u)
      BY <1>1, <2>1, <2>3, SaleReserves
    <2>4. CASE \E o \in Orders : \/ LoadReservation(o)
                                 \/ \E l \in resv[o].todo : SetReserved(o, l)
                                 \/ AbortReservation(o)
      BY <2>1, <2>4, SaleDispatches
    <2>5. QED
      BY <1>5, <2>2, <2>3, <2>4 DEF StockStep
  <1>6. QED
    BY <1>2, <1>3, <1>4, <1>5 DEF FulfilmentNext, fulfilmentVars, StoreOutcome

(* With stock enough to begin with, revenue and goods never part: between  *)
(* transactions the units of a line are out of stock, all of them and      *)
(* once, exactly when its order's revenue has been recognized.             *)
THEOREM FulfilmentSoldIffDeducted ==
    Plenty /\ OneRole => (FulfilmentSpec => []SoldIffDeducted)
  <1> SUFFICES ASSUME Plenty, OneRole PROVE FulfilmentSpec => []SoldIffDeducted
    OBVIOUS
  <1>1. FulfilmentInit => SalesInv
    BY SalesInitInv
  <1>2. SalesInv /\ [FulfilmentNext]_fulfilmentVars => SalesInv'
    BY SalesNextInv
  <1>3. SalesInv => SoldIffDeducted
    BY DEF SalesInv, Settled, SoldIffDeducted, Idle, Need
  <1>4. QED
    BY <1>1, <1>2, <1>3, PTL DEF FulfilmentSpec
=============================================================================
