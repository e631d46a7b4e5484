SPECIFICATION Spec
CONSTANTS
    None = None
    t1 = t1
    t2 = t2
    c1 = c1
    c2 = c2
    i1 = i1
    d1 = d1
    h1 = h1
    h2 = h2
    o1 = o1
    k1 = k1
    Transfers = {t1}
    Statements <- AnyTransfers
    Codes = {c1}
    Invoices = {i1}
    Deposits = {d1}
    Price <- Prices
    Repriced = {2}
    Handlers = {h1}
    Operators = {o1}
    Keys = {k1}
    MaxFaults = 1
    CanCrash = TRUE
CHECK_DEADLOCK FALSE
INVARIANTS
    TypeOK
    BookedOncePerKind
PROPERTIES
    ClaimsAreReleased
