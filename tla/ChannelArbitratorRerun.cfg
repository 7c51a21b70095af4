CONSTANTS
    o1 = o1
    i1 = i1
    Outgoing = {o1}
    Incoming = {i1}
    Scenarios <- Plain
    Delta = 1
    MaxHeight = 2
    MaxFaults = 1
SPECIFICATION Spec
INVARIANT ResolvedIsAnswered
CHECK_DEADLOCK FALSE
