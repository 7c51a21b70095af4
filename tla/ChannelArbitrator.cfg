CONSTANTS
    o1 = o1
    i1 = i1
    Outgoing = {o1}
    Incoming = {i1}
    Scenarios <- MCScenarios
    Delta = 1
    MaxHeight = 2
    MaxFaults = 1
SPECIFICATION FairSpec
INVARIANTS
    AnswerMatchesChain
    ClosedIsRecoverable
    NothingForgotten
PROPERTIES
    EventuallyResolved
CHECK_DEADLOCK FALSE
