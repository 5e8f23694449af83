SPECIFICATION Spec
CONSTANTS
    Clients = {c1, c2}
    Retained = 2
    Capacity = 2
    MaxChunks = 4
    None = None
PROPERTIES
    RemovedShellEnds
CHECK_DEADLOCK FALSE
