CONSTANTS
    h1 = h1
    h2 = h2
    Htlc = {h1, h2}
    MaxRestarts = 1
    MaxFlaps = 1
SPECIFICATION FairSpec
INVARIANTS
    AnswerHasCircuit
    AnsweredFreesCircuit
PROPERTIES
    Relays
    EventuallyAnswered
CHECK_DEADLOCK FALSE
