\* Two orders compete for the units of one item that the merchant also adjusts.
CONSTANTS
    A = A  B = B  l1 = l1  l2 = l2  l3 = l3  o1 = o1  o2 = o2
    MaxQuantity = 2
    Items = {A}
    Orders = {o1, o2}
    Lines = {l1, l2, l3}
    OrderOf <- TwoOrders
    Recipes <- OneUnit
    OpeningStock <- TwoEach
    AdjustBuckets = {"damaged"}
    Deltas <- PlusMinusOne
    Counts = {0, 2}
    Reservers = {o1}
    Scanned = {}
SPECIFICATION StockSpec
INVARIANTS BalanceValid NoDoubleReservation
PROPERTIES ReservedDeliveryNeverShort
