SPECIFICATION Spec
CONSTANTS
    None = None
    All = All
    a = a
    b = b
    k1 = k1
    k2 = k2
    Rooms = {a, b}
    Scopes = {a, All}
    Contracts = {1, 2, 3, 4}
    Home <- TwoRooms
    Shared = {a}
    Old = {1, 2, 3}
    Rent = 1
    Rents = {2}
    Amounts = {3}
    MaxMembers = 2
    MaxEdits = 2
    Closers = {k1, k2}
    MaxFaults = 1
    CanCrash = TRUE
CHECK_DEADLOCK FALSE
SYMMETRY Symmetry
INVARIANTS
    TypeOK
    InvoicesFollowSnapshot
    SharesAddUp
    CompletedIsWhole
PROPERTIES
    ChargesNewestReport
