----------------------------- MODULE Purchases ------------------------------
(***************************************************************************)
(* Purchases and the stock they bring, for one stock item of a store:      *)
(*   src/zomaal-shop/purchases.service.ts, purchase-expense.util.ts        *)
(*   src/zomaal-shop/shop-orders.service.ts (a delivery),                  *)
(*   src/warehouse/packaging.service.ts (creditDeliveredPurchase),         *)
(*   src/warehouse/inventory-balance.util.ts (moveOnHandInTx)              *)
(*                                                                         *)
(* Purchases are entered by hand, with or without adding to stock, or come *)
(* from deliveries of the Zomaal shop: those are recorded when the order   *)
(* is delivered, and credited to stock by a transaction of their own       *)
(* afterwards.  Transactions are Serializable, hence steps.                *)
(***************************************************************************)
EXTENDS Expenses, FiniteSetsExt

CONSTANTS
    Manual,      \* purchases entered by hand
    Delivered,   \* items of orders of the Zomaal shop
    Prices,
    ShopQuantity,
    ShopCost,
    MaxQuantity  \* bound on a quantity

ASSUME PurchasesAssumption ==
    /\ Manual \cup Delivered \subseteq Generated /\ Manual \cap Delivered = {}
    /\ IsFiniteSet(Manual) /\ IsFiniteSet(Delivered)
    /\ Prices \subseteq Nat \ {0}
    /\ {ShopQuantity, ShopCost, MaxQuantity} \subseteq Nat \ {0}

VARIABLES
    purchase,    \* a purchase entered by hand: none, live or deleted
    delivery,    \* an item of the shop: ordered, recorded, credited or uncredited
    onHand,      \* balance of the stock item
    held,        \* units of it that are reserved or damaged
    used         \* units consumed by orders so far

purchaseVars == <<purchase, delivery, onHand, held, used>>

NoPurchase == [state |-> "none", quantity |-> 0, price |-> 0, stocked |-> FALSE]

PurchasesInit ==
    /\ purchase = [r \in Manual |-> NoPurchase]
    /\ delivery = [i \in Delivered |-> "ordered"]
    /\ onHand = 0 /\ held = 0 /\ used = 0

-----------------------------------------------------------------------------
(* moveOnHandInTx: refused when it leaves less than what is held.          *)
MoveOnHand(delta) == /\ onHand + delta >= held
                     /\ onHand' = onHand + delta

Cost(quantity, price) == quantity * price

CreatePurchase(r, quantity, price, stocked) ==
    /\ purchase[r].state = "none"
    /\ purchase' = [purchase EXCEPT ![r] =
          [state |-> "live", quantity |-> quantity, price |-> price, stocked |-> stocked]]
    /\ booked' = [booked EXCEPT ![r] = Append(@, Cost(quantity, price))]
    /\ MoveOnHand(IF stocked THEN quantity ELSE 0)
    /\ UNCHANGED <<delivery, held, used, request>>

(* A plausible slip: the new quantity is added to stock again.             *)
WholeQuantity(r, quantity) == IF purchase[r].stocked THEN quantity ELSE 0

Change(r, quantity) == IF purchase[r].stocked THEN quantity - purchase[r].quantity ELSE 0

UpdatePurchase(r, quantity, price) ==
    /\ purchase[r].state = "live"
    /\ purchase' = [purchase EXCEPT ![r].quantity = quantity, ![r].price = price]
    /\ booked' = [booked EXCEPT ![r] = <<Cost(quantity, price)>>]
    /\ MoveOnHand(Change(r, quantity))
    /\ UNCHANGED <<delivery, held, used, request>>

RemovePurchase(r) ==
    /\ purchase[r].state = "live"
    /\ purchase' = [purchase EXCEPT ![r].state = "deleted"]
    /\ booked' = [booked EXCEPT ![r] = <<>>]
    /\ MoveOnHand(Change(r, 0))
    /\ UNCHANGED <<delivery, held, used, request>>

-----------------------------------------------------------------------------
(* recordPurchases, in the transaction that delivers the order.            *)
RecordDelivery(i) ==
    /\ delivery[i] = "ordered"
    /\ delivery' = [delivery EXCEPT ![i] = "recorded"]
    /\ booked' = [booked EXCEPT ![i] = Append(@, ShopCost)]
    /\ UNCHANGED <<purchase, onHand, held, used, request>>

(* creditDeliveredPurchase, after that transaction.                        *)
CreditDelivery(i) ==
    /\ delivery[i] = "recorded"
    /\ delivery' = [delivery EXCEPT ![i] = "credited"]
    /\ onHand' = onHand + ShopQuantity
    /\ UNCHANGED <<purchase, held, used, expenseVars>>

(* It conflicts three times, or the process dies first.  The order is      *)
(* delivered, so no later attempt comes back to it.                        *)
LoseCredit(i) ==
    /\ delivery[i] = "recorded"
    /\ delivery' = [delivery EXCEPT ![i] = "uncredited"]
    /\ UNCHANGED <<purchase, onHand, held, used, expenseVars>>

(* Orders hold stock and use it up, or let go of it.                       *)
Hold == /\ held < onHand
        /\ held' = held + 1
        /\ UNCHANGED <<purchase, delivery, onHand, used, expenseVars>>

Release(consumed) ==
    /\ held > 0
    /\ held' = held - 1
    /\ onHand' = onHand - consumed
    /\ used' = used + consumed
    /\ UNCHANGED <<purchase, delivery, expenseVars>>

-----------------------------------------------------------------------------
PurchaseStep ==
    \/ \E r \in Manual :
          \/ \E quantity \in 1..MaxQuantity, price \in Prices :
                \/ \E stocked \in BOOLEAN : CreatePurchase(r, quantity, price, stocked)
                \/ UpdatePurchase(r, quantity, price)
          \/ RemovePurchase(r)
    \/ \E i \in Delivered : RecordDelivery(i) \/ CreditDelivery(i) \/ LoseCredit(i)
    \/ Hold \/ \E consumed \in {0, 1} : Release(consumed)
=============================================================================
