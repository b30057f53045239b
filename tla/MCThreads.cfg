SPECIFICATION Spec
CONSTANTS
    Writers = {w1, w2}
    Clients = {c1}
    MaxPosts = 4
    MaxDeletes = 1
    MaxFaults = 1
    MaxThreadDepth = 2
    NoKey = NoKey
INVARIANTS
    ThreadShown
    NothingMissed
