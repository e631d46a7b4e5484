SPECIFICATION SpecInOrder
CONSTANTS
    d1 = d1
    d2 = d2
    d3 = d3
    c3 = c3
    h3 = h3
    c1 = c1
    c2 = c2
    r1 = r1
    r2 = r2
    h1 = h1
    h2 = h2
    Deposits = {d1, d2, d3}
    Cycles = {c1, c2, c3}
    Rooms = {r1, r2}
    Holds = {h1, h2, h3}
    Keys = {1, 2, 3, 4}
    Amounts = {1}
    Shares = {0, 1}
    Whole = {r1}
    Slots <- MixedSlots
    Expiries = {1, 2}
    MaxTime = 1
    Horizon = 0
    CreateStatuses = {"PAID"}
SYMMETRY Symmetry
CHECK_DEADLOCK FALSE
INVARIANTS
    RoomNotOverbooked
    HeldByOpenDeposit
    AnnouncedHoldsEnded
    ClosedDepositsOwe
PROPERTIES
    EndedHoldsStay
