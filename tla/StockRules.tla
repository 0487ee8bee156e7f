---------------------------- MODULE StockRules ----------------------------
(***************************************************************************)
(* The pure stock rules every inventory writer of the back office shares:  *)
(* what a balance is, when it is valid, which part of a movement it can    *)
(* absorb, and what a returned unit does to it.                            *)
(*   src/warehouse/inventory-balance.util.ts                               *)
(*   src/ecommerce/order-stock.util.ts                                     *)
(* A balance has the three buckets that constrain each other.  The fourth  *)
(* one, INCOMING, is written by manual adjustments only and constrains     *)
(* nothing, so it is left out.                                             *)
(***************************************************************************)
EXTENDS Integers

CONSTANT MaxQuantity    \* the largest value of an Int column, 2147483647

ASSUME MaxQuantityAssumption == MaxQuantity \in Nat

Buckets == {"onHand", "reserved", "damaged"}

BalanceQuantities == [onHand : Int, reserved : Int, damaged : Int]

(* The buckets of a balance before any movement: ensureDefaultBalance      *)
(* creates the row with the column defaults.                               *)
EmptyBalance == [onHand |-> 0, reserved |-> 0, damaged |-> 0]

availableQuantity(b) == b.onHand - b.reserved - b.damaged

(* validateBalance throws exactly when this is false.                      *)
ValidBalance(b) ==
    /\ b.onHand <= MaxQuantity /\ b.reserved <= MaxQuantity
    /\ b.damaged <= MaxQuantity
    /\ b.onHand >= 0 /\ b.reserved >= 0 /\ b.damaged >= 0
    /\ b.reserved + b.damaged <= b.onHand

(* One bucket of a balance moved by delta (bucketField names the column).  *)
Shift(b, bucket, delta) ==
    [onHand   |-> IF bucket = "onHand" THEN b.onHand + delta ELSE b.onHand,
     reserved |-> IF bucket = "reserved" THEN b.reserved + delta ELSE b.reserved,
     damaged  |-> IF bucket = "damaged" THEN b.damaged + delta ELSE b.damaged]

Smaller(a, b) == IF a <= b THEN a ELSE b
Positive(a) == IF a >= 0 THEN a ELSE 0

reducible(b, bucket) ==
    Positive(IF bucket = "onHand" THEN availableQuantity(b)
             ELSE IF bucket = "reserved" THEN b.reserved ELSE b.damaged)

(* A plausible slip: on-hand stock can be taken down to zero, whatever is  *)
(* reserved or damaged in it.                                              *)
ClampToZero(b, bucket, delta) ==
    IF delta > 0
    THEN IF bucket = "onHand" THEN delta
         ELSE Smaller(delta, Positive(availableQuantity(b)))
    ELSE 0 - Smaller(0 - delta, Positive(b[bucket]))

(* The largest part of delta that keeps the balance valid.                 *)
clampDelta(b, bucket, delta) ==
    IF delta > 0
    THEN IF bucket = "onHand" THEN delta
         ELSE Smaller(delta, Positive(availableQuantity(b)))
    ELSE 0 - Smaller(0 - delta, reducible(b, bucket))

(***************************************************************************)
(* What one returned unit does to on-hand and damaged stock.  GOOD and     *)
(* RETURNED have the same effect, and so have LOST and MISSING: each pair  *)
(* is one condition here.                                                  *)
(***************************************************************************)
Conditions == {"good", "damaged", "lost"}

conditionEffects(condition, delivered) ==
    [onHand  |-> IF condition = "lost" THEN (IF delivered THEN 0 ELSE -1)
                 ELSE (IF delivered THEN 1 ELSE 0),
     damaged |-> IF condition = "damaged" THEN 1 ELSE 0]
=============================================================================
