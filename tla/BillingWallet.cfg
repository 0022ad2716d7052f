\* Two platform calls of one workspace race for its last credit; either may
\* crash, and the maintenance ticker recovers what it leaves.
CONSTANTS
    w1 = w1
    c1 = c1
    c2 = c2
    NoCall = NoCall
    Tenants = {w1}
    Calls = {c1, c2}
    CallTenant <- MCSharedTenant
    Chargeable <- MCAllChargeable
    MaxCost = 2
    MaxUsage = 2
    MaxGranted = 2
    Welcome = 1
    MaxSettleTries = 2
    MeterForgeEnabled = TRUE
SPECIFICATION FairSpec
INVARIANTS
    Solvent
    TelemetryMatchesLedger
    
PROPERTIES
    NeverChargedMore
    HoldsAreResolved
    ImplementsLedger
CHECK_DEADLOCK FALSE
