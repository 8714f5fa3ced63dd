\* The directory holds notes-2 and not notes; nothing races and nothing fails.
SPECIFICATION Spec
CONSTANTS
    u1 = u1
    u2 = u2
    u3 = u3
    u4 = u4
    typed = typed
    bad = bad
    gone = gone
    s1 = s1
    s2 = s2
    notes = notes
    days = days
    blog = blog
    NoSlug = NoSlug
    Urls = {u1, u2, u3, u4, typed, bad, gone}
    Words = {notes, days, blog}
    BaseOf <- Titles
    Reserved <- Routes
    Invalid = {bad}
    Removed = {gone}
    Listed <- SecondOnly
    Elsewhere = {}
    Calm = TRUE
    Subs = {s1, s2}
    Upload <- Lists
    Wants = {s1, s2}
    Batch = 2
    Slice = 3
    Chunk = 1
    Depth = 2
    MaxRepeats = 0
    MaxMishaps = 0
INVARIANT EntriesBecomeFeeds
CHECK_DEADLOCK FALSE
