SPECIFICATION PurchaseSpec
CONSTANTS
    o1 = o1
    o2 = o2
    item = item
    None = None
    Orders = {o1, o2}
    Products = {item}
    Workers = {w1, w2}
    MaxPayments = 2
    ProductOf <- MCProductOf
    GroupOf <- MCGroupOf
    Quantity <- MCQuantity
    InitialStock <- MCInitialStock
SYMMETRY Symmetry
INVARIANT
    ConfirmingIsTransient
CHECK_DEADLOCK FALSE
