SPECIFICATION Spec
CONSTANTS
    c1 = c1
    c2 = c2
    c3 = c3
    Calls = {c1, c2, c3}
    Estimates <- MCEstimates
    Usages <- MCUsages
    Start0 <- MCBudgetOnly
    MaxNow = 3
    DayLength = 2
    None = None
PROPERTIES
    CeilingDeniesForTheDay
CHECK_DEADLOCK FALSE
