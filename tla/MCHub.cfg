SPECIFICATION FairSpec
CONSTANTS
    Keys = {k1, k2}
    Streams = {s1, s2}
    Publishers = {p1, p2}
    SubBuffer = 2
    MaxEvents = 3
    NoKey = NoKey
    Free = Free
INVARIANTS
    NoSendOnClosed
    MapIsExact
PROPERTIES
    LossNeedsFullBuffer
    ImplementsBroadcast
    PublishReturns
    GoneStreamsEnd
