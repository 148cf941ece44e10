SPECIFICATION MCSpec
CONSTANTS
    None = None
    Workers = {w1, w2}
    Tabs = {tab1, tab2}
    MaxTokens = 3
    MaxPasswords = 2
    Persons = {p1, p2}
    Emails = {e1, e2}
    Clicks = {w1, w2}
    MaxCarts = 2
    OrderIds = {o1}
    Nothing = Nothing
    Buyers = {buyer1, buyer2}
    Addresses = {mail1, mail2}
    AddressOf <- MCAddressOf
    Desks = {w1, w2}
    MaxLetters = 2
    Blank = Blank
    buyer1 = buyer1
    buyer2 = buyer2
    mail1 = mail1
    mail2 = mail2
SYMMETRY Symmetry
\* A deleted account has no session to serve: the system stops there.
CHECK_DEADLOCK FALSE
INVARIANTS
    CustomersTypeOK
    ForkNeedsRace
    EndedStaysEnded
    SessionsFollowAccount
    AlarmNeedsCause
    WhoseIsWhose
