SPECIFICATION Spec
CONSTANTS
    c1 = c1
    Calls = {c1}
    Estimates <- MCEstimates
    Usages <- MCUsages
    Start0 <- MCStart
    MaxNow = 1
    DayLength = 2
    None = None
PROPERTIES
    EveryLeaseIsSettled
CHECK_DEADLOCK FALSE
