\* Two hosts, of which one has two feeds; one feed may fail twice.
SPECIFICATION FairSpec
CONSTANTS
    a1 = a1
    a2 = a2
    b1 = b1
    Feeds = {a1, a2, b1}
    HostOf <- OnHosts
    Collected = {b1}
    Submitted = {a2}
    Workers = {w1, w2}
    Web = {v1}
    BatchSize = 2
    PerHost = 1
    DeadAt = 2
    MaxFailures <- OneFails
    MaxEvents = 1
INVARIANTS
    TypeOK
    OneRequestPerHost
    NoFailureInvented
PROPERTIES
    AskedOnce
    RefusalIsBelieved
    HostsShareTheBatch
    TurnComes
CHECK_DEADLOCK FALSE
