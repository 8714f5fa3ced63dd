\* Two lists; names that collide with the directory and with each other; a feed
\* inserted by another path; a post that arrives twice; a pass that throws or dies.
SPECIFICATION FairSpec
CONSTANTS
    u1 = u1
    u2 = u2
    u3 = u3
    u4 = u4
    typed = typed
    bad = bad
    gone = gone
    s1 = s1
    s2 = s2
    notes = notes
    days = days
    blog = blog
    NoSlug = NoSlug
    Urls = {u1, u2, u3, u4, typed, bad, gone}
    Words = {notes, days, blog}
    BaseOf <- Titles
    Reserved <- Routes
    Invalid = {bad}
    Removed = {gone}
    Listed <- Plain
    Elsewhere = {typed}
    Calm = TRUE
    Subs = {s1, s2}
    Upload <- Lists
    Wants = {s1, s2}
    Batch = 2
    Slice = 3
    Chunk = 1
    Depth = 2
    MaxRepeats = 1
    MaxMishaps = 1
INVARIANTS
    TypeOK
    EntriesBecomeFeeds
    MailedWhenDone
    MailedOnce
PROPERTY HandedOverFinishes
CHECK_DEADLOCK FALSE
