SPECIFICATION Spec
CONSTANTS
    booked = booked  drafted = drafted  moved = moved
    whole = whole  shared = shared
    ann = ann  bo = bo  cy = cy
    Contracts = {booked, drafted, moved}
    Rooms = {whole, shared}
    People = {ann, bo, cy}
    Tenant <- TenantOf
    Groups <- GroupsOf
    Declared <- DeclaredBy
    Capacity <- PlacesOf
    Converted = {booked}
    Shared = {shared}
    ByHand <- ByHandOf
    MaxLate = 0
    NoRoom = NoRoom
INVARIANTS
    RoomComesBack
CHECK_DEADLOCK FALSE
