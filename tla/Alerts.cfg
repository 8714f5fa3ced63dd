\* The blogs and one of two topics are read, a page and a message hold one post,
\* a story may be told again, and one pass is killed or one switch moved.
SPECIFICATION Spec
CONSTANTS
    s1 = s1
    s2 = s2
    Items = {1, 2, 3}
    Stories = {s1, s2}
    Blogs = {"blogs"}
    Topics = {"old", "new"}
    Authors = {}
    Tellings <- ThreePosts
    FirstBells = {{"blogs", "old", "new"}}
    FollowedAt <- FollowTimes
    FollowsPerPass = 1
    Channels = {phone}
    PerSource = 1
    ItemsPerMessage = 1
    MaxFailures = 1
    SentTtl = 1
    LastInstant = 4
    MaxTies = 2
    MaxOnTheWay = 1
    MaxMishaps = 1
INVARIANTS
    TypeOK
    NeverTwice
    NothingPassedOver
PROPERTY ReadingMovesOn
CHECK_DEADLOCK FALSE
