\* Two merchants and two confirmations at a time, two products, one of them
\* with an option, two orders.
CONSTANTS
    s1 = s1
    s2 = s2
    p1 = p1
    p2 = p2
    v1 = v1
    t1 = t1
    t2 = t2
    Stores <- TwoStores
    Products <- TwoProducts
    Options <- OneOption
    OptionOf <- OptionOfFirst
    Taps <- TwoTaps
    Price <- Prices
    Rank <- Ranks
    DeliveryFee = 1
    UsageLimit = 1
    PerStoreLimit = 1
    Discounts = {1, 5}
    FirstDiscount = 1
    CodLimit = 1
    InitialStock <- UnitStock
    MaxStock = 1
    MaxEdits = 1
    MaxOrders = 2
SPECIFICATION ShopSpec
SYMMETRY Symmetric
INVARIANTS PromoUsesExact CostsAddUp
PROPERTIES OrderIsTheCart UnitsConserved
CHECK_DEADLOCK FALSE
