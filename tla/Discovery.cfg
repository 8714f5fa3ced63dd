\* A request and the poller's two jobs; one keyword, two sites of one feed, one mishap.
SPECIFICATION FairSpec
CONSTANTS
    k1 = k1
    a = a
    b = b
    fa = fa
    NoFeed = NoFeed
    Keywords = {k1}
    Sites = {a, b}
    Found <- Finds
    FeedOf <- FeedsOf
    Worthy = {fa}
    InlineLimit = 1
    Batch = 2
    MaxMishaps = 1
INVARIANTS
    TypeOK
    WorthyIsListed
    CountsAreEarned
    SettledRunIsTrue
    MailIsTheEnd
PROPERTY EverythingIsDealtWith
CHECK_DEADLOCK FALSE
