\* An order of two lines whose outcome changes while its dispatch reserves it,
\* and one of whose lines the warehouse scans.
CONSTANTS
    A = A  B = B  P = P  l1 = l1  l2 = l2  o1 = o1
    MaxQuantity = 8
    Items = {A, B, P}
    Orders = {o1}
    Lines = {l1, l2}
    OrderOf <- OneOrder
    Recipes <- Boxed
    OpeningStock <- Enough
    AdjustBuckets = {}
    Deltas = {}
    Counts = {}
    Reservers = {o1}
    Scanned = {l1}
    LedgerOrders = {o1}
    LedgerLines = {l1, l2}
    Prices <- OnePrice
    Fees = {2}
    Losses = {}
    MaxCorrections = 1
    UnitCost <- Costs
    Corrections <- AnyCorrection
SPECIFICATION FulfilmentSpec
INVARIANTS SoldIffDeducted DamageFollowsScans RevenueFollowsCarrier
