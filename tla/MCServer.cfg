SPECIFICATION FairServerSpec
CONSTANTS
    Requests = {r1, r2}
    Streams = {s1}
    MaxQueries = 2
    MaxTries = 2
    MaxOutages = 1
    Free = Free
INVARIANTS
    PoolExclusive
PROPERTIES
    RequestsAnswered
    SignalEnds
    ServesAgain
