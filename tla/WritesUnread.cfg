\* The same calls, and nothing else goes wrong.
SPECIFICATION Spec
CONSTANTS
    poller = poller
    web = web
    a = a
    b = b
    c = c
    d = d
    e = e
    Procs = {poller, web}
    Home = poller
    Writes = {a, b, c, d, e}
    Program <- Programs
    Size <- Sizes
    Ceiling = 3
    Bad = {c, d}
    Unread = {c}
    Once = {b}
    Attempts = 2
    MaxFaults = 0
    MaxWaits = 0
    MaxCrashes = 0
INVARIANT NeighboursSurvive
CHECK_DEADLOCK FALSE
