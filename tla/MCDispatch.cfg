\* A manual and a platform order that duplicate each other, two requests at
\* a time, crashes.
CONSTANTS
    Orders = {o1, o2}
    Manual = {o1}
    a1 = a1
    a2 = a2
    Attempts <- Requests
    MaxClaims = 2
SPECIFICATION FairDispatchSpec
INVARIANTS OneRequestPerOrder GroupKeepsOne
PROPERTIES CancelledNotShipped PendingEnds
CHECK_DEADLOCK FALSE
