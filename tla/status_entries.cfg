SPECIFICATION FulfilmentSpec
CONSTANTS
    item = item
    None = None
    Orders = {o1}
    Products = {item}
    Workers = {w1, w2}
    MaxPayments = 1
    MaxPhantom = 1
    ProductOf <- MCProductOf
    GroupOf <- MCGroupOf
    Quantity <- MCQuantity
    InitialStock <- MCInitialStock
SYMMETRY Symmetry
PROPERTY
    EntriesAsDocumented
CHECK_DEADLOCK FALSE
