CONSTANTS
    alice = alice
    bob = bob
    Party <- MCParty
    Initiator = alice
    Balance <- MCBalance
    Asset = FALSE
    Reserve = 0
    MaxAcceptedHtlcs = 2
    MaxReceivers = 7
    InitialFee = 1
    Scenarios <- MCScenarios
    MaxBreaks = 2
SPECIFICATION FairSpec
INVARIANTS
    NeverUnsynchronised
    RestoreNeverFails
    CommitmentsAgree
    BalanceConserved
    ForwardedOnce
    LockedInUntilAnswered
    RestsAgreed
PROPERTIES
    SignedIsAcked
CHECK_DEADLOCK FALSE
