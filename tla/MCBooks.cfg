\* One member of staff, two days, one batch, two profile changes; one purchase,
\* one delivery, one key.
CONSTANTS
    a = a
    m1 = m1
    i1 = i1
    k1 = k1
    b1 = b1
    Generated <- Sources
    Keys <- OneKey
    Entered = {1}
    Amounts = {1, 2}
    Staff <- OneMember
    LastDay = 2
    Frequencies = {1}
    BatchKeys <- OneBatchKey
    NoKey = NoKey
    MaxPeriods = 1
    MaxEdits = 2
    Manual <- OneRow
    Delivered <- OneItem
    ShopQuantity = 1
    ShopCost = 2
    Prices = {1}
    MaxQuantity = 2
SPECIFICATION BooksSpec
INVARIANTS BookedOnce OnHandExplained
PROPERTIES NoDayMissed CatchesUp
CHECK_DEADLOCK FALSE
