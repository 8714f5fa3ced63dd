\* Five writes of the site: one larger than a transaction may be, one not
\* repeatable, two bad, of which one is recognised as such; two lost connections,
\* an expired wait, a dead process.
SPECIFICATION FairSpec
CONSTANTS
    poller = poller
    web = web
    a = a
    b = b
    c = c
    d = d
    e = e
    Procs = {poller, web}
    Home = poller
    Writes = {a, b, c, d, e}
    Program <- Programs
    Size <- Sizes
    Ceiling = 3
    Bad = {c, d}
    Unread = {c}
    Once = {b}
    Attempts = 2
    MaxFaults = 2
    MaxWaits = 1
    MaxCrashes = 1
INVARIANTS
    TypeOK
    OwnRows
    OneBadCaller
    StoredInOrder
PROPERTIES
    ServicePromised
    EveryCallerAnswered
CHECK_DEADLOCK FALSE
