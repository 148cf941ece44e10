SPECIFICATION MCSpec
CONSTANTS
    c1 = c1
    c2 = c2
    p1 = p1
    p2 = p2
    buyer = buyer
    admin = admin
    r1 = r1
    r2 = r2
    Reviews = {r1, r2}
    Stepped = {r2}
    Touched = {r1}
    None = None
    Calls = {c1, c2}
    Principals = {p1, p2, buyer, admin}
    Claims <- MCClaims
    Caller <- MCCaller
    ToolsOf <- MCToolsOf
    Restless = {p1}
    Limit = 2
    MaxExpiries = 1
    MaxLosses = 1
    RowIds = {1, 2, 3}
    PageSize = 1
    MaxTime = 2
    Span = 1
    MaxPages = 3
    MaxEdits = 1
\* Calls end, lists are read to their end, and accounts may be gone for good.
CHECK_DEADLOCK FALSE
INVARIANTS
    AssistantTypeOK
    NothingUnaudited
    NothingAfterRevocation
    CapacityExact
    
    ScanExact
    PagesTruthful
