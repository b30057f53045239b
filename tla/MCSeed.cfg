SPECIFICATION FairSpec
CONSTANTS
    NumUsers = 3
    NumPosts = 1
    Rows <- MCRows
    BatchSize = 2
    MaxFanout = 1
    MaxReplyDepth = 2
    MaxUsers = 4
    MaxPosts = 5
    MaxWrites = 1
    MaxRuns = 2
INVARIANTS
    RerunStops
    RepliesNotified
PROPERTIES
    SeedEnds
CHECK_DEADLOCK FALSE
