SPECIFICATION MCSpec
CONSTANTS
    None = None
    Users = {u1, u2}
    Workers = {w1, w2}
    Limit = 1
    MaxOrders = 2
    MaxItems = 2
    MaxResets = 1
    Nobody = Nobody
    Shoppers = {s1}
    Clerks = {k1, k2}
    Discounts = {0, 10}
    Visits = {v1, v2}
    TTL = 2
    MaxClock = 3
    MaxTrainings = 2
    Prices = {1050, 20010}
    Rates = {0, 15}
    Deltas = {0, 150}
    Vouchers <- MCVouchers
    MaxQty = 2
    MaxChanges = 2
    Missing = Missing
SYMMETRY Symmetry
\* When every account is deleted, nobody is left to order.
CHECK_DEADLOCK FALSE
INVARIANTS
    ShopTypeOK
    DiscountsBounded
    UsesAccounted
    DeletedHasNoOpenOrder
    CatalogueKept
    CacheFresh
    PricesKept
