SPECIFICATION MCSpec
CONSTANTS
    o1 = o1
    o2 = o2
    item = item
    None = None
    Orders = {o1, o2}
    Products = {item}
    Workers = {w1, w2}
    MaxPayments = 2
    ProductOf <- MCProductOf
    GroupOf <- MCGroupOf
    Quantity <- MCQuantity
    InitialStock <- MCInitialStock
    Keys = {"key1", "key2"}
    Purchases = {o1, o2}
    Posts = {w1, w2}
    Asked <- MCAsked
    MaxForms = 2
    MaxLives = 1
    Absent = Absent
SYMMETRY Symmetry
INVARIANTS
    StockAccounted
    LedgerAgrees
    KeyRunsOnce
PROPERTIES
    CancelledStays
    SaleImplemented
CHECK_DEADLOCK FALSE
