SPECIFICATION Spec
CONSTANTS
    u1 = u1
    u2 = u2
    w1 = w1
    w2 = w2
    Users = {u1, u2}
    Workers = {w1, w2}
    UserOf <- OneWorkerEach
    Ops = {"CreatePost", "CreateReply", "DeletePost", "Repost", "UnRepost", "Like", "Unlike",
           "ThreadStream"}
    SeedPosts <- SeedThread
    MaxPosts = 5
    MaxRequests = 3
    MaxFaults = 1
    MaxThreadDepth = 5
    NoPost = NoPost
    NoUser = NoUser
INVARIANTS
    ThreadsAcyclic
    NotifiesTheAuthor
    AnnouncedAsStored
    ThreadReachesStreams
    RepostsPaired
PROPERTIES
    OnlyAuthorsDelete
    AnswersAreTrue
VIEW WithoutOldRequests
