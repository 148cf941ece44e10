SPECIFICATION MCSpec
CONSTANTS
    None = None
    Ids = {p1, p2}
    Workers = {w1, w2}
    MaxPending = 1
    MaxStock = 1
    MaxEdits = 1
    Bundles <- MCBundles
    Clerks = {w1, w2}
    MaxDay = 1
    ReturnDays = 0
    PolicyDays = 0
    QueueDays = 0
    Never = Never
    Grants = {g1, g2}
    DraftIds = {d1, d2, d3}
    Papers = {publish}
    Scribes = {w1, w2}
    Void = Void
SYMMETRY Symmetry
\* Once the account is deleted and every proposal expired, nobody is left to ask.
CHECK_DEADLOCK FALSE
INVARIANTS
    HeadroomKept
    JourneyTold
    DraftsKept
PROPERTIES
    DecidedOnce
    LandsOnReviewed
    NoLateCart
