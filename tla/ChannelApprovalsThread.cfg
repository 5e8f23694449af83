SPECIFICATION MCSpec
CONSTANTS
    Asks = {a1, a2}
    Scopes <- MCScopes
    Risks <- MCRisks
    Ceilings <- MCCeilings
    ChannelCeiling <- MCChannelCeiling
    Chats = {c1, c2}
    Threads = {main, topic}
    Main = main
    MaxTaps = 2
    None = None
PROPERTY TapResumesTheRun
CHECK_DEADLOCK FALSE
