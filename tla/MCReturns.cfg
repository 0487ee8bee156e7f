\* An order of two lines, two scanners (one may be a courier's report), one
\* clerk with a form beside the endpoints of the order, allocations in full and in part, limits of two.
CONSTANTS
    l1 = l1
    l2 = l2
    s1 = s1
    s2 = s2
    c1 = c1
    Lines <- TwoLines
    Calls <- TwoCalls
    Clerks <- OneClerk
    Full = {good}
    Part = {some}
    None = None
    Categories = {"REFUSALS"}
    Limit <- LimitOfTwo
    CombinedLimit = 0
    MaxReturns = 2
    MaxRevision = 2
    MaxCount = 2
SPECIFICATION ReturnsSpec
SYMMETRY Symmetric
INVARIANTS IncompleteIsOpen ReturnsCountedOnce
PROPERTIES NoLostCorrection
