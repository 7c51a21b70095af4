CONSTANTS
    alice = alice
    bob = bob
    Party <- MCParty
    Initiator = alice
    Balance <- MCBalance
    Asset = FALSE
    Reserve = 0
    MaxAcceptedHtlcs = 2
    MaxReceivers = 7
    InitialFee = 1
    Scenarios <- StuckScenarios
    MaxBreaks = 1
SPECIFICATION FairSpec
PROPERTIES
    Completes
CHECK_DEADLOCK FALSE
