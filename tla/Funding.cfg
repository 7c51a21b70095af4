CONSTANTS
    MaxWait = 1
    MaxFaults = 1
    Private = TRUE
SPECIFICATION Spec
INVARIANTS
    FundedIsRemembered
    NoOrphanReservation
    LinkNeedsConfirm
PROPERTIES
    OpeningCompletes
    UsableOnceLoaded
CHECK_DEADLOCK FALSE
