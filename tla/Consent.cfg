SPECIFICATION MCSpec
CONSTANTS
    Actions <- MCActions
    Keys <- MCKeys
    KeyOf <- MCKeyOf
    RiskOf <- MCRiskOf
    Denied <- MCDenied
    Unenumerable <- MCUnenumerable
    AskFirst <- MCAskFirst
    AllowListed <- MCAllowListed
    Harmless <- MCHarmless
    Capable <- MCCapable
    Ceiling <- MCCeiling
    Budget = 2
    None = None
    Levels = {"paranoid", "cautious", "balanced", "trusting", "yolo"}
    GrantEnds = 1
    MaxNow = 2
    MaxCalls = 4
    MaxAsks = 2
    MaxAuto = 4
    ServerCalls = {c1, c2, c3}
    ChatLevel = "yolo"
    ServerLevel = "balanced"
INVARIANTS
    RiskyRunsHaveConsent
    DenialSticks
    RulesOutrankMemory
    LenienceIsBounded
    NothingLeftToAnswer
PROPERTIES
    EveryCallReturns
CHECK_DEADLOCK FALSE
