\* A parcel that is delivered, comes back into stock, and is delivered after all.
CONSTANTS
    A = A  B = B  P = P  l1 = l1  l2 = l2  o1 = o1
    MaxQuantity = 8
    Items = {A}
    Orders = {o1}
    Lines = {l1}
    OrderOf <- OneOrder
    Recipes <- Boxed
    OpeningStock <- Enough
    AdjustBuckets = {}
    Deltas = {}
    Counts = {}
    Reservers = {o1}
    Scanned = {l1}
    LedgerOrders = {o1}
    LedgerLines = {l1}
    Prices <- OnePrice
    Fees = {2}
    Losses = {}
    MaxCorrections = 2
    UnitCost <- Costs
    Corrections <- AnyCorrection
SPECIFICATION FulfilmentSpec
INVARIANTS StockFollowsLedger
