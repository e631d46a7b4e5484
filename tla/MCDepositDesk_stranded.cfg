SPECIFICATION DeskSpecInOrder
CONSTANTS
    d1 = d1
    d2 = d2
    c1 = c1
    r1 = r1
    h1 = h1
    Deposits = {d1, d2}
    Cycles = {c1}
    Rooms = {r1}
    Holds = {h1}
    Keys = {1, 2, 3, 4, 5}
    Amounts = {1, 2}
    Shares = {0, 1, 2}
    Whole = {r1}
    Slots <- OneSlot
    Expiries = {1}
    MaxTime = 0
    Horizon = 0
    CreateStatuses = {"PENDING"}
SYMMETRY Symmetry
CHECK_DEADLOCK FALSE
INVARIANTS
    ClosedDepositsOwe
