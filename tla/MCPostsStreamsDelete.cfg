SPECIFICATION Spec
CONSTANTS
    u1 = u1
    u2 = u2
    w1 = w1
    w2 = w2
    Users = {u1, u2}
    Workers = {w1, w2}
    UserOf <- OneWorkerEach
    Ops = {"CreateReply", "ThreadStream", "DeletePost"}
    SeedPosts <- SeedDeepThread
    MaxPosts = 6
    MaxRequests = 3
    MaxFaults = 0
    MaxThreadDepth = 6
    NoPost = NoPost
    NoUser = NoUser
INVARIANTS
    SameThreadSameKey
