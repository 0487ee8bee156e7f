\* One order whose product is edited while it is reserved, delivered,
\* released and scanned.
CONSTANTS
    A = A  B = B  l1 = l1  l2 = l2  l3 = l3  o1 = o1  o2 = o2
    MaxQuantity = 1
    Items = {A, B}
    Orders = {o1}
    Lines = {l1}
    OrderOf <- OneOrder
    Recipes <- EditedRecipes
    OpeningStock <- OneEach
    AdjustBuckets = {"damaged"}
    Deltas <- PlusMinusOne
    Counts = {}
    Reservers = {o1}
    Scanned = {l1}
SPECIFICATION StockSpec
INVARIANTS SettledLineHoldsNothing
PROPERTIES DeductedOnce CorrectionAppliedInFull
