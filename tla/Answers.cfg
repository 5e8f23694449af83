SPECIFICATION AnswersSpec
CONSTANTS
    Asks = {a1, a2}
    Scopes <- MCScopes
    Risks <- MCRisks
    Ceilings <- MCCeilings
    ChannelCeiling <- MCChannelCeiling
    Chats = {c1, c2}
    Threads = {main}
    Main = main
    MaxTaps = 2
    None = None
    Pushes = {p1, p2}
    Unit = 2
    MaxAttempts = 2
    Chunks = {1, 2}
    MaxChars = 4
    MaxGhosts = 1
INVARIANTS
    GrantWithinCeiling
    QueueShowsWhatWaits
    OnlyItsOwnConversation
    TapDecidesItsQuestion
    AnswerDelivered
PROPERTIES
    FirstAnswerCounts
    TapResumesTheRun
    PromiseSpec
    PhonePromise
CHECK_DEADLOCK FALSE
