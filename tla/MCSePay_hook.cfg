SPECIFICATION Safety
CONSTANTS
    None = None
    t1 = t1
    t2 = t2
    c1 = c1
    c2 = c2
    i1 = i1
    d1 = d1
    h1 = h1
    h2 = h2
    o1 = o1
    k1 = k1
    Transfers = {t1, t2}
    Statements <- SmallTransfers
    Codes = {c1}
    Invoices = {i1}
    Deposits = {d1}
    Price <- Prices
    Repriced = {}
    Handlers = {h1, h2}
    Operators = {}
    Keys = {k1}
    MaxFaults = 1
    CanCrash = TRUE
SYMMETRY Symmetry
CHECK_DEADLOCK FALSE
INVARIANTS
    
    ProcessedIsBooked
    
PROPERTIES
    NeverOverfunds
