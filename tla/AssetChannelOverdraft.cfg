CONSTANTS
    alice = alice
    bob = bob
    Party <- MCParty
    Initiator = alice
    Balance <- MCBalance
    Asset = TRUE
    Reserve = 0
    MaxAcceptedHtlcs = 2
    MaxReceivers = 7
    InitialFee = 1
    Scenarios <- AssetScenarios
    MaxBreaks = 0
SPECIFICATION Spec
INVARIANTS
    BalancesNotNegative
CHECK_DEADLOCK FALSE
