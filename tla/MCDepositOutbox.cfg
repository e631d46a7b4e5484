SPECIFICATION Spec
CONSTANTS
    issued = issued
    paid = paid
    deposit = deposit
    w1 = w1
    w2 = w2
    c1 = c1
    Events = {issued, paid}
    Dispatchers = {w1}
    Callers = {c1}
    Limit = 2
    MaxAttempts = 2
    NeedsQr = {paid}
    Gate <- InvoiceGate
    Scopes <- InvoiceScope
INVARIANTS
    TypeOK
    DeliveredWithinAttempts
    
PROPERTIES
    DeliversInOrder
    ClaimsAreReleased
    EventuallySettled
