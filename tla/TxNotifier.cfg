CONSTANTS
    c1 = c1
    c2 = c2
    Clients = {c1, c2}
    Scenarios <- MCScenarios
    ReorgSafety = 2
SPECIFICATION FairSpec
INVARIANTS
    IndexedHasSet
    WatchedIsUnseen
    HintIsSafe
    BlocksOnlyAfterRace
    ClientKnows
PROPERTIES
    DetailsLeaveWithBlock
    EventuallyTold
CHECK_DEADLOCK FALSE
