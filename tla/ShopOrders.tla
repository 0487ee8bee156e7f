----------------------------- MODULE ShopOrders -----------------------------
(***************************************************************************)
(* The shop where merchants buy packaging from Zomaal:                     *)
(*   src/zomaal-shop/cart.service.ts, checkout.service.ts                  *)
(*   src/zomaal-shop/shop-orders.service.ts, shop-pricing.util.ts          *)
(*   src/zomaal-shop/shop-lock.util.ts, shop-cost-allocation.util.ts       *)
(*   src/super-admin/shop/shop.service.ts, shop-promo-codes.service.ts     *)
(*                                                                         *)
(* What is bought is a product as it is, or one of its options.  A         *)
(* confirmation of the cart takes the lock of its store, then the locks of *)
(* the products, computes, and writes; transactions are Read Committed, so *)
(* only the locks keep what was read true until it is written.  Everything *)
(* else that takes one of the locks is one step, taken when it is free.    *)
(* Money is in cents; the exchange rate is 1.                              *)
(***************************************************************************)
EXTENDS Integers, Sequences, FiniteSets, FiniteSetsExt

CONSTANTS
    Stores,        \* merchants
    Products,
    Options,       \* options a product has or may get
    OptionOf,      \* the product of an option
    Taps,          \* confirmations of a cart in progress at a time
    Price,         \* effectivePrice of a product or an option
    Rank,          \* order of the ids of an order's items; ids are random
    DeliveryFee,
    UsageLimit, PerStoreLimit,   \* of the promo code
    Discounts,     \* values the administrator may give it
    FirstDiscount, \* the one it has at first
    CodLimit,      \* codCancellationLimit, 0 is off
    InitialStock,  \* of the products without options, and of the options
    MaxStock,      \* bound on the stock the administrator enters
    MaxEdits,      \* bound on the administrator's edits
    MaxOrders      \* bound on the orders ever placed

Keys == Options \cup Products

ASSUME ShopAssumption ==
    /\ Products \cap Options = {} /\ OptionOf \in [Options -> Products]
    /\ IsFiniteSet(Stores) /\ IsFiniteSet(Options) /\ IsFiniteSet(Products)
    /\ Price \in [Keys -> Nat] /\ DeliveryFee \in Nat
    /\ Rank \in [Keys -> Nat] /\ \A j, k \in Keys : Rank[j] = Rank[k] => j = k
    /\ UsageLimit \in Nat /\ PerStoreLimit \in Nat /\ CodLimit \in Nat
    /\ Discounts \subseteq Nat /\ FirstDiscount \in Discounts
    /\ InitialStock \in [Keys -> Nat]
    /\ MaxStock \in Nat /\ MaxEdits \in Nat /\ MaxOrders \in Nat

VARIABLES
    active,      \* the products that are ACTIVE
    option,      \* an option is still to come, live, or deleted
    stock,       \* stock of a product or an option
    promo,       \* the promo code: isActive, value, usedCount
    cart,        \* quantity of a row of a store's cart, 0 when there is none
    tap,         \* what each confirmation is doing
    orders,      \* the orders, in the order they were placed
    purchases,   \* cost of the purchase of an order's item, once it is recorded
    edits        \* edits of the administrator so far, to bound them

catalogueVars == <<active, option, stock>>
shopVars == <<catalogueVars, promo, cart, tap, orders, purchases, edits>>

(* The bound: nothing more is bought once MaxOrders orders were placed.    *)
MoreOrders == Len(orders) < MaxOrders

NoLines == [k \in Keys |-> 0]
NoTap == [stage |-> "idle", store |-> "none",
          lines |-> NoLines, promo |-> FALSE, discount |-> 0]

Product(k) == IF k \in Options THEN OptionOf[k] ELSE k
OptionsOf(p) == {v \in Options : OptionOf[v] = p}
Live == {v \in Options : option[v] = "live"}
LiveOf(p) == Live \cap OptionsOf(p)
Rows(lines) == {k \in Keys : lines[k] > 0}
SumOf(f, S) == SumFunctionOnSet(f, S)

StoreFree(s) == \A t \in Taps : tap[t].stage # "idle" => tap[t].store # s

(* No confirmation holds a lock of these products.                         *)
ProductsFree(S) == \A t \in Taps : tap[t].stage = "ready" =>
                       S \cap {Product(k) : k \in Rows(tap[t].lines)} = {}
ProductsIn(lines) == {Product(k) : k \in Rows(lines)}

(* Orders that count, and the units of a key in them.                      *)
Standing == {o \in DOMAIN orders : orders[o].status # "CANCELLED"}
Sold(k) == SumOf([o \in DOMAIN orders |-> orders[o].lines[k]], Standing)
PromoOrders(S) == {o \in Standing : orders[o].promo /\ orders[o].store \in S}

ShopInit ==
    /\ active = Products
    /\ option \in {[v \in Options |-> "live"], [v \in Options |-> "new"]}
    /\ stock = [k \in Keys |->
                  IF k \in Options THEN IF option[k] = "live" THEN InitialStock[k] ELSE 0
                  ELSE IF LiveOf(k) = {} THEN InitialStock[k]
                  ELSE SumOf(InitialStock, LiveOf(k))]
    /\ promo = [active |-> TRUE, value |-> FirstDiscount, used |-> 0]
    /\ cart = [s \in Stores |-> NoLines]
    /\ tap = [t \in Taps |-> NoTap]
    /\ orders = <<>>
    /\ purchases = <<>>
    /\ edits = 0

-----------------------------------------------------------------------------
(* The cart.  Its mutations take the store's lock.                         *)
(* An option that exists, or a product that has none.                      *)
Buyable(k) == k \in Live \/ (k \in Products /\ LiveOf(k) = {})

SetRow(s, k, quantity) == cart' = [cart EXCEPT ![s][k] = quantity]

(* A plausible slip: a row is added without the lock of the store.         *)
AddUnlocked(s, k, quantity) ==
    /\ MoreOrders
    /\ Product(k) \in active /\ Buyable(k)
    /\ cart[s][k] + quantity <= stock[k]
    /\ SetRow(s, k, cart[s][k] + quantity)
    /\ UNCHANGED <<catalogueVars, promo, tap, orders, purchases, edits>>

AddItem(s, k, quantity) ==
    /\ StoreFree(s)
    /\ MoreOrders
    /\ Product(k) \in active /\ Buyable(k)
    /\ cart[s][k] + quantity <= stock[k]
    /\ SetRow(s, k, cart[s][k] + quantity)
    /\ UNCHANGED <<catalogueVars, promo, tap, orders, purchases, edits>>

UpdateItem(s, k, quantity) ==
    /\ StoreFree(s)
    /\ cart[s][k] > 0
    /\ quantity > cart[s][k] => quantity <= stock[k]
    /\ SetRow(s, k, quantity)
    /\ UNCHANGED <<catalogueVars, promo, tap, orders, purchases, edits>>

RemoveItem(s, k) ==
    /\ StoreFree(s)
    /\ cart[s][k] > 0
    /\ SetRow(s, k, 0)
    /\ UNCHANGED <<catalogueVars, promo, tap, orders, purchases, edits>>

-----------------------------------------------------------------------------
(* Checkout: evaluate, checkPromo, priceOrder, codRestriction.             *)
Problem(lines, k) == \/ Product(k) \notin active \/ ~Buyable(k)
                     \/ stock[k] <= 0 \/ lines[k] > stock[k]

PromoApplies(s) == /\ promo.active
                   /\ promo.used < UsageLimit
                   /\ Cardinality(PromoOrders({s})) < PerStoreLimit

Subtotal(lines) == SumOf([k \in Keys |-> Price[k] * lines[k]], Keys)

Discounted(lines, value) == Min({value, Subtotal(lines)})
Total(o) == Subtotal(o.lines) - o.discount + DeliveryFee

CodRestricted(s) ==
    /\ CodLimit > 0
    /\ Cardinality({o \in DOMAIN orders :
                      /\ orders[o].store = s /\ orders[o].status = "CANCELLED"
                      /\ orders[o].by = "MERCHANT" \/ orders[o].shipped}) >= CodLimit

Becomes(t, state) == tap' = [tap EXCEPT ![t] = state]

(* placeOrder takes the store's lock.                                      *)
Confirm(t, s, code) ==
    /\ MoreOrders
    /\ tap[t] = NoTap
    /\ StoreFree(s)
    /\ Becomes(t, [NoTap EXCEPT !.stage = "locked", !.store = s, !.promo = code])
    /\ UNCHANGED <<catalogueVars, promo, cart, orders, purchases, edits>>

(* It locks the products, and computes from what is there now.             *)
Compute(t) ==
    LET s == tap[t].store
        lines == cart[s]
    IN  /\ tap[t].stage = "locked"
        /\ ProductsFree(ProductsIn(lines))
        /\ Rows(lines) # {} /\ \A k \in Rows(lines) : ~Problem(lines, k)
        /\ ~CodRestricted(s)
        /\ tap[t].promo => PromoApplies(s)
        /\ Becomes(t, [tap[t] EXCEPT
              !.stage = "ready", !.lines = lines,
              !.discount = IF tap[t].promo THEN Discounted(lines, promo.value) ELSE 0])
        /\ UNCHANGED <<catalogueVars, promo, cart, orders, purchases, edits>>

(* A plausible slip: the promo is not checked again before it is used.     *)
TrustPromo(t) == TRUE

(* claimPromo: the code still applies and still offers the same.           *)
ClaimPromo(t) == tap[t].promo =>
    /\ PromoApplies(tap[t].store)
    /\ tap[t].discount = Discounted(tap[t].lines, promo.value)

(* reserveStock: what is bought is taken; a product whose options are      *)
(* bought is the sum of its options again.                                 *)
Sell(lines) ==
    LET left == [k \in Keys |-> stock[k] - lines[k]] IN
    [k \in Keys |-> IF k \in {OptionOf[v] : v \in Rows(lines) \cap Options}
                    THEN SumOf(left, LiveOf(k)) ELSE left[k]]

(* The cart rows are claimed, stock is taken under a condition, the promo  *)
(* is claimed, the order is created: all or nothing.                       *)
PlaceOrder(t) ==
    LET s == tap[t].store
        lines == tap[t].lines
    IN  /\ tap[t].stage = "ready"
        /\ MoreOrders
        /\ Rows(lines) \subseteq Rows(cart[s])
        /\ \A k \in Rows(lines) : lines[k] <= stock[k]
        /\ ClaimPromo(t)
        /\ cart' = [cart EXCEPT ![s] = [k \in Keys |-> IF lines[k] > 0 THEN 0 ELSE @[k]]]
        /\ stock' = Sell(lines)
        /\ promo' = IF tap[t].promo THEN [promo EXCEPT !.used = @ + 1] ELSE promo
        /\ orders' = Append(orders, [store |-> s, lines |-> lines, status |-> "PENDING",
                                     promo |-> tap[t].promo, discount |-> tap[t].discount,
                                     shipped |-> FALSE, by |-> "none"])
        /\ purchases' = Append(purchases, NoLines)
        /\ Becomes(t, NoTap)
        /\ UNCHANGED <<active, option, edits>>

(* The confirmation is refused, fails, or its process dies.                *)
RollBack(t) ==
    /\ tap[t] # NoTap
    /\ Becomes(t, NoTap)
    /\ UNCHANGED <<catalogueVars, promo, cart, orders, purchases, edits>>

-----------------------------------------------------------------------------
(* The life of an order.  Cancellation and progress take both locks.       *)
Forward == <<"PENDING", "CONFIRMED", "SHIPPED", "DELIVERED">>
Before(to) == {Forward[i] : i \in 1..(CHOOSE j \in 1..4 : Forward[j] = to) - 1}
OrderFree(o) == StoreFree(orders[o].store) /\ ProductsFree(ProductsIn(orders[o].lines))

(* A plausible slip: an administrator may cancel what is cancelled.        *)
CancellableAgain(by) ==
    IF by = "MERCHANT" THEN {"PENDING"}
    ELSE {"PENDING", "CONFIRMED", "SHIPPED", "CANCELLED"}

Cancellable(by) ==
    IF by = "MERCHANT" THEN {"PENDING"} ELSE {"PENDING", "CONFIRMED", "SHIPPED"}

(* restock: units go back to the options that are left, and to the product.*)
GiveBack(lines) ==
    [k \in Keys |-> IF k \in Options
                    THEN stock[k] + IF k \in Live THEN lines[k] ELSE 0
                    ELSE stock[k] + SumOf(lines, {k} \cup OptionsOf(k))]

(* The order is cancelled, its stock and its promo use are given back.     *)
Cancel(o, by) ==
    LET lines == orders[o].lines IN
    /\ OrderFree(o)
    /\ orders[o].status \in Cancellable(by)
    /\ orders' = [orders EXCEPT ![o].status = "CANCELLED", ![o].by = by]
    /\ stock' = GiveBack(lines)
    /\ promo' = IF orders[o].promo /\ promo.used > 0
                THEN [promo EXCEPT !.used = @ - 1] ELSE promo
    /\ UNCHANGED <<active, option, cart, tap, purchases, edits>>

(* allocateShopCosts: what was paid, split over the items by their value   *)
(* (by their number when they are free).  The cents that are left over go  *)
(* to the largest remainders.                                              *)
Weight(lines, k) == IF Subtotal(lines) = 0 THEN lines[k] ELSE Price[k] * lines[k]
Weights(lines) == SumOf([k \in Keys |-> Weight(lines, k)], Rows(lines))
Share(o, k) == (Total(o) * Weight(o.lines, k)) \div Weights(o.lines)
Remainder(o, k) == (Total(o) * Weight(o.lines, k)) % Weights(o.lines)
Leftover(o) ==
    Total(o) - SumOf([k \in Rows(o.lines) |-> Share(o, k)], Rows(o.lines))

(* Items with a larger remainder go first; their ids break ties.           *)
Ahead(o, k) == {j \in Rows(o.lines) \ {k} :
                  \/ Remainder(o, j) > Remainder(o, k)
                  \/ Remainder(o, j) = Remainder(o, k) /\ Rank[j] < Rank[k]}

(* A plausible slip: every share is rounded down.                          *)
RoundedDown(o, k) == Share(o, k)

AllocatedCost(o, k) ==
    Share(o, k) + IF Cardinality(Ahead(o, k)) < Leftover(o) THEN 1 ELSE 0

(* advance: only forward, steps may be skipped; a delivery records one     *)
(* purchase and one expense per item.                                      *)
Advance(o, to) ==
    /\ OrderFree(o)
    /\ orders[o].status \in Before(to)
    /\ orders' = [orders EXCEPT ![o].status = to,
                                ![o].shipped = @ \/ to \in {"SHIPPED", "DELIVERED"}]
    /\ purchases' = IF to # "DELIVERED" THEN purchases
                    ELSE [purchases EXCEPT ![o] =
                            [k \in Keys |-> IF orders[o].lines[k] > 0
                                            THEN AllocatedCost(orders[o], k) ELSE 0]]
    /\ UNCHANGED <<catalogueVars, promo, cart, tap, edits>>

-----------------------------------------------------------------------------
(* The catalogue and the promo code, edited by an administrator.  Only the *)
(* product is locked; what is entered replaces what is stored.             *)
Edit == edits < MaxEdits /\ edits' = edits + 1

SetStock(p, quantity) ==
    /\ Edit
    /\ ProductsFree({p})
    /\ LiveOf(p) = {}
    /\ stock' = [stock EXCEPT ![p] = quantity]
    /\ UNCHANGED <<active, option, promo, cart, tap, orders, purchases>>

SetStatus(p) ==
    /\ Edit
    /\ ProductsFree({p})
    /\ active' = IF p \in active THEN active \ {p} ELSE active \cup {p}
    /\ UNCHANGED <<option, stock, promo, cart, tap, orders, purchases>>

(* replaceVariants: the listed options and their stock; the others are     *)
(* deleted, and their rows leave the carts.                                *)
ReplaceOptions(p, listed) ==
    LET dropped == LiveOf(p) \ DOMAIN listed IN
    /\ Edit
    /\ ProductsFree({p})
    /\ \A v \in DOMAIN listed : option[v] # "gone"
    /\ option' = [v \in Options |-> IF v \in DOMAIN listed THEN "live"
                                    ELSE IF v \in dropped THEN "gone" ELSE option[v]]
    /\ stock' = [k \in Keys |->
                   IF k \in DOMAIN listed THEN listed[k]
                   ELSE IF k \in dropped THEN 0
                   ELSE IF k = p /\ DOMAIN listed # {} THEN SumOf(listed, DOMAIN listed)
                   ELSE stock[k]]
    /\ cart' = [s \in Stores |-> [k \in Keys |-> IF k \in dropped THEN 0 ELSE cart[s][k]]]
    /\ UNCHANGED <<active, promo, tap, orders, purchases>>

EditPromo(isActive, value) ==
    /\ Edit
    /\ promo' = [promo EXCEPT !.active = isActive, !.value = value]
    /\ UNCHANGED <<catalogueVars, cart, tap, orders, purchases>>

-----------------------------------------------------------------------------
Quantities == 1..MaxStock
Listings(p) == UNION {[S -> 0..MaxStock] : S \in SUBSET OptionsOf(p)}

CartStep(s, k) == \/ \E quantity \in Quantities : \/ AddItem(s, k, quantity)
                                                   \/ UpdateItem(s, k, quantity)
                  \/ RemoveItem(s, k)

TapStep(t) == \/ \E s \in Stores, code \in BOOLEAN : Confirm(t, s, code)
              \/ Compute(t) \/ PlaceOrder(t) \/ RollBack(t)

ProductStep(p) == \/ \E quantity \in 0..MaxStock : SetStock(p, quantity)
                  \/ SetStatus(p)
                  \/ \E listed \in Listings(p) : ReplaceOptions(p, listed)

ShopStep == \/ \E s \in Stores, k \in Keys : CartStep(s, k)
            \/ \E t \in Taps : TapStep(t)
            \/ \E o \in DOMAIN orders, by \in {"MERCHANT", "ADMIN"} : Cancel(o, by)
            \/ \E o \in DOMAIN orders, to \in {"CONFIRMED", "SHIPPED"} : Advance(o, to)
            \/ \E p \in Products : ProductStep(p)
            \/ \E isActive \in BOOLEAN, value \in Discounts : EditPromo(isActive, value)

Deliver(o) == Advance(o, "DELIVERED")

ShopNext == ShopStep \/ \E o \in DOMAIN orders : Deliver(o)

ShopSpec == ShopInit /\ [][ShopNext]_shopVars

-----------------------------------------------------------------------------
(* Stock is conserved but for what the administrator enters: what an order *)
(* takes when it is placed comes back once when it is cancelled, and       *)
(* nothing else moves it, for each option and for each product that has    *)
(* none (an order may be of options such a product no longer has).         *)
SoldFrom(k) == IF k \in Options THEN Sold(k)
               ELSE SumOf([j \in Keys |-> Sold(j)], {k} \cup OptionsOf(k))
UnitsConserved ==
    [][edits' = edits => \A k \in Keys : Buyable(k) =>
          stock'[k] + SoldFrom(k)' = stock[k] + SoldFrom(k)]_shopVars

(* A confirmed cart becomes one order: an order takes exactly what its     *)
(* store's cart holds at that moment, so a second tap, or a change of the  *)
(* cart meanwhile, neither orders twice nor orders something else.         *)
OrderIsTheCart ==
    [][\A o \in DOMAIN orders' \ DOMAIN orders :
          LET s == orders'[o].store IN
          orders'[o].lines = cart[s] /\ cart'[s] = NoLines]_shopVars

(* The promo's counter is the number of orders that stand with it, over    *)
(* all cancellations, and within both limits, for two stores at once too.  *)
PromoUsesExact ==
    /\ promo.used = Cardinality(PromoOrders(Stores))
    /\ promo.used <= UsageLimit
    /\ \A s \in Stores : Cardinality(PromoOrders({s})) <= PerStoreLimit

(* The purchases of a delivered order cost what was paid for it, discount  *)
(* and delivery included, to the cent; an order that is not delivered has  *)
(* none.                                                                   *)
CostsAddUp ==
    \A o \in DOMAIN orders :
        SumOf(purchases[o], Keys) =
            IF orders[o].status = "DELIVERED" THEN Total(orders[o]) ELSE 0
=============================================================================
