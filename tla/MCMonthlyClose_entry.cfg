SPECIFICATION Spec
CONSTANTS
    None = None
    All = All
    a = a
    b = b
    k1 = k1
    k2 = k2
    Rooms = {a, b}
    Scopes = {All}
    Contracts = {1, 4}
    Home <- TwoRooms
    Shared = {a}
    Old = {1}
    Rent = 1
    Rents = {2}
    Amounts = {3}
    MaxMembers = 1
    MaxEdits = 2
    Closers = {k1}
    MaxFaults = 0
    CanCrash = FALSE
CHECK_DEADLOCK FALSE
INVARIANTS
    RentBilledOnce
