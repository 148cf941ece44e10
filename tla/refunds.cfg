SPECIFICATION MCSpec
CONSTANTS
    item = item
    None = None
    Orders = {o1}
    Products = {item}
    Workers = {w1, w2}
    MaxPayments = 1
    MaxPhantom = 0
    ProductOf <- MCProductOf
    GroupOf <- MCGroupOf
    Quantity <- MCQuantity
    InitialStock <- MCInitialStock
SYMMETRY Symmetry
INVARIANTS
    NoFreeConfirm
    MoneyKeepsRow
    MoneyTypeOK
    PaidBackOnce
    ReleasedMeansPaid
    ReadsCoherent
PROPERTY
    StockMovesWithStatus
CHECK_DEADLOCK FALSE
