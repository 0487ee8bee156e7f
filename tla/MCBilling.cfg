\* Two calls at a time, each of any kind; two sessions, one after the other;
\* two months, two events on their way, one call that ends halfway.
CONSTANTS
    Calls = {c1, c2}
    MaxKeys = 2
    MaxTime = 2
    MaxEvents = 2
    MaxFailures = 1
SPECIFICATION BillingSpec
INVARIANTS OneLiveSubscription CancellationFollowsStripe PaidTimeIsGiven
SYMMETRY AnyCall
