\* One feed, one worker and one press of the refresh button.
SPECIFICATION Spec
CONSTANTS
    a1 = a1
    a2 = a2
    b1 = b1
    Feeds = {a1}
    HostOf <- OnHosts
    Collected = {}
    Submitted = {}
    Workers = {w1}
    Web = {v1}
    BatchSize = 1
    PerHost = 1
    DeadAt = 2
    MaxFailures <- OneFails
    MaxEvents = 1
INVARIANT DeadAfterARun
CHECK_DEADLOCK FALSE
