SPECIFICATION Spec
CONSTANTS
    blue = blue
    green = green
    NoOne = NoOne
    Workers <- MCWorkers
    Keys <- MCKeys
    Leases <- MCLeases
    TTL = 3
    MaxDelay = 1
    MaxErrors = 1
CHECK_DEADLOCK FALSE
INVARIANTS SingleOwner NoLeaseLeftBehind
PROPERTIES OnlyOwnerEndsLease ReplacementTakesOver
