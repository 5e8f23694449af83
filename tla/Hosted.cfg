SPECIFICATION MCSpec
CONSTANTS
    None = None
    Runs = {r1, r2}
    Checkouts = {k1}
    MaxConcurrent = 2
    MaxBoxes = 2
    Visited = {1}
    Clients = {c1}
    Retained = 2
    Capacity = 2
    MaxChunks = 4
    McpCalls = {m1, m2}
    Probes = {h1}
    MaxRestarts = 2
    MaxChildren = 3
INVARIANTS
    BoxesAccountedFor
    OneBoxPerCheckout
    NoHoleUnlessTold
    ChildrenAccountedFor
PROPERTIES
    DeadBoxesAreReaped
    AttachedSeeTheEnd
    EveryMcpCallReturns
CHECK_DEADLOCK FALSE
