SPECIFICATION Spec
CONSTANTS
    r1 = r1
    r2 = r2
    Requests = {r1, r2}
    Authors = {r1, r2}
    s1 = s1
    Sessions = {s1}
    CallIds <- MCCallIds
    Tokens <- MCTokens
    KeepHead = 2
    KeepTail = 3
    New = New
    None = None
    Eager = FALSE
    Threshold = 4
    Widths = {0, 1, 2}
    MaxTurns = 2
    ChannelCap = 2
    MaxLocks = 0
    MaxCrashes = 1
INVARIANTS
    EveryRequestSendable
    LastExchangeSent
    RunsDoNotInterleave
    RecordsAgree
PROPERTIES
    EveryRequestEnds
CHECK_DEADLOCK FALSE
