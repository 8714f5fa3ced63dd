\* The poller and the admin route overlap over one week, with one crash.
SPECIFICATION FairSpec
CONSTANTS
    Senders = {poller, route}
    Readers = {1, 2}
    LastWeek = 1
    Texts = {textA, textB}
    NoText = NoText
    Limit = 1
    Forces = {FALSE, TRUE}
    MaxOutages = 1
INVARIANTS
    TypeOK
    AtMostOneCopy
    OneTextPerWeek
    ClosedMeansAddressed
    ClosedCountIsExact
PROPERTY StartedWeekFinishes
CHECK_DEADLOCK FALSE
