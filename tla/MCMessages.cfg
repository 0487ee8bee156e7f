\* Messages to customers: one message, two runs that overlap, one webhook
\* call at a time, a price that changes, and an administrator.
\* Alerts to the owner: two evaluations, two deliveries, a material that runs
\* low and recovers, one call that fails.
CONSTANTS
    NoMessage = NoMessage
    Messages = {m1}
    Runs = {r1, r2}
    Hooks = {c1}
    Prices = {1, 2}
    Credits <- AddOrTake
    OpeningBalance = 2
    MaxBalance = 2
    MaxAttempts = 2
    Types <- OneType
    Evaluations = {e1, e2}
    Deliveries = {d1, d2}
    MaxNotices = 4
    MaxLevels = 2
    MaxFailures = 1
    MaxSends = 2
SPECIFICATION FairMessagesSpec
INVARIANTS ChargedIffSent SentOnce OneSendPerCycle
PROPERTIES ImplementsPurse SendingEnds AlertsFollowStock
