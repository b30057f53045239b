SPECIFICATION LimiterSpec
CONSTANTS
    Fields = {a1, a2}
    Handlers = {w1, w2}
    Cost = 1
    Burst = 2
    IdleLimit = 3
    SweepPeriod = 2
    MaxDelay = 1
    MaxTicks = 6
    MaxGrants = 3
SYMMETRY Symmetric
CHECK_DEADLOCK FALSE
INVARIANTS
    BurstBound
PROPERTIES
    RefusedOnlyOverBurst
