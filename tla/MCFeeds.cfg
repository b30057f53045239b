SPECIFICATION FairSpec
CONSTANTS
    Users = {1, 2}
    Shapes <- MCShapes
    Lists = {"latest", "following", "recommended", "search", "trending", "users", "followees"}
    PerPage = 1
    TrendingMax = 2
    Hour = 1
    Day = 2
    Seeded = 2
    MaxPosts = 3
    MaxWrites = 2
    MaxTime = 2
INVARIANTS
    PagesComplete
PROPERTIES
    FeedSettles
CHECK_DEADLOCK FALSE
