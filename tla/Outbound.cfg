SPECIFICATION MCSpec
CONSTANTS
    c1 = c1
    c2 = c2
    c3 = c3
    Calls = {c1, c2, c3}
    Estimates <- MCEstimates
    Usages <- MCUsages
    Start0 <- MCStart
    MaxNow = 3
    DayLength = 2
    Scale = 12
    None = None
    RouterPools <- MCRouterPools
    RouterProviders <- MCRouterProviders
    RouterRoutes <- MCRouterRoutes
    RouterPoolStart <- MCRouterPoolStart
    RouterStarts <- MCRouterStarts
    RouterEstimates <- MCRouterEstimates
    RouterUsages <- MCRouterUsages
    RouterMaxNow = 2
    Fetches = {f1, f2}
    Profile <- MCProfile
    MachineRungs = 1
    Roster <- MCRoster
    Says <- MCSays
    Reached = {"yoav"}
    Requests = {"yes", "no"}
    Remembered = 1
    Deletes = {d1, d2}
    Paths = {p1, p2}
    MaxName = 2
    MaxFiles = 4
    Fetchers = {l1, l2}
    page1 = page1
    page2 = page2
    Keys <- MCKeys
    Versions = {1, 2}
    Huge <- MCHuge
    Untagged = {1}
    MaxAge <- MCMaxAge
    MaxEntries = 1
    MaxRedirects = 1
    MaxChanging = 1
    CacheMaxNow = 1
    MaxDeaths = 1
SYMMETRY Symmetry
INVARIANTS
    SlotsAreLeases
    RpmHolds
    BillIsExact
    LeasesBalance
    AnswerHeard
    ToldItIsOver
    NothingDestroyed
    BodiesAreTheOrigins
    CacheWithinCap
PROPERTIES
    RefusedTakesNothing
CHECK_DEADLOCK FALSE
