CONSTANTS
    h1 = h1
    h2 = h2
    Htlc = {h1}
    Scenarios <- SwapOnly
    MaxRestarts = 1
    MaxFlaps = 0
    MaxErrors = 0
SPECIFICATION Spec
INVARIANT SwapIsAtomic
CHECK_DEADLOCK FALSE
