\* One crawl stores more posts than a page holds.
SPECIFICATION Spec
CONSTANTS
    s1 = s1
    s2 = s2
    Items = {1, 2, 3}
    Stories = {1, 2, 3}
    Blogs = {"blogs"}
    Topics = {}
    Authors = {}
    Tellings <- OneBlog
    FirstBells = {{"blogs"}}
    FollowedAt <- FollowTimes
    FollowsPerPass = 1
    Channels = {phone}
    PerSource = 2
    ItemsPerMessage = 1
    MaxFailures = 1
    SentTtl = 1
    LastInstant = 3
    MaxTies = 3
    MaxOnTheWay = 1
    MaxMishaps = 0
INVARIANT RestIsPickedUp
CHECK_DEADLOCK FALSE
