SPECIFICATION HealthySpec
CONSTANTS
    o1 = o1
    o2 = o2
    item = item
    None = None
    Orders = {o1, o2}
    Products = {item}
    Workers = {w1, w2}
    MaxPayments = 1
    ProductOf <- MCProductOf
    GroupOf <- MCGroupOf
    Quantity <- MCQuantity
    InitialStock <- MCInitialStock
PROPERTIES
    GroupSettles
    CallbackSettles
CHECK_DEADLOCK FALSE
