CONSTANTS
    h1 = h1
    h2 = h2
    Htlc = {h1, h2}
    Scenarios <- MCScenarios
    MaxRestarts = 1
    MaxFlaps = 1
    MaxErrors = 1
SPECIFICATION FairSpec
INVARIANTS
    PaidInFull
    AnswerMatchesRecord
PROPERTIES
    EventuallyAnswered
CHECK_DEADLOCK FALSE
