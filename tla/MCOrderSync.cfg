\* One request for a sync and one webhook call at a time, two orders, a
\* page of one order and one page a request.
CONSTANTS
    Shops <- ThreeShops
    Orders <- TwoOrders
    Callers = {c1}
    Hooks = {h1}
    MaxPages = 1
    MaxClock = 3
SPECIFICATION OrderSyncSpec
  
PROPERTIES NoUpdateSkipped
CHECK_DEADLOCK FALSE
