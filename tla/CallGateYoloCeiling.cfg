SPECIFICATION Safety
CONSTANTS
    Actions <- MCActions
    Keys <- MCKeys
    KeyOf <- MCKeyOf
    RiskOf <- MCRiskOf
    Denied <- MCDenied
    Unenumerable <- MCUnenumerable
    AskFirst <- MCAskFirst
    AllowListed <- MCAllowListed
    Harmless <- MCHarmless
    Capable <- MCCapable
    Ceiling <- MCCeiling
    Budget = 2
    None = None
    Levels = {"yolo"}
    GrantEnds = None
    MaxNow = 2
    MaxCalls = 4
INVARIANTS
    CeilingSurvivesYolo
CHECK_DEADLOCK FALSE
