SPECIFICATION MCSpec
CONSTANTS
    s1 = s1
    s2 = s2
    Sessions = {s1, s2}
    Bridged = s1
    r1 = r1
    Runs = {r1}
    b1 = b1
    Bridges = {b1}
    c1 = c1
    Rooms = {c1}
    BusCap = 2
    PendingCap = 1
    MaxEvents = 4
    MaxDrops = 2
    New = New
    None = None
INVARIANTS
    InOrderAndOwn
    GapsExplained
    StreamComplete
CHECK_DEADLOCK FALSE
