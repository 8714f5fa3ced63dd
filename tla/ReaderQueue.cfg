\* Two requests at once that add or move, one that takes out or finishes beside them, one mishap.
SPECIFICATION FairSpec
CONSTANTS
    x = x
    y = y
    z = z
    tab = tab
    player = player
    agent = agent
    Items = {x, y, z}
    Requests = {tab, player}
    Removers = {agent}
    RunningOrders <- Orders
    Lanes <- Beginnings
    MaxAsked = 2
    MaxChanges = 1
    MaxMishaps = 1
INVARIANTS
    TypeOK
    PlacesAreDistinct
    HandedOrderIsKept
PROPERTIES
    WaitingKeepsItsPlace
    RequestsEnd
CHECK_DEADLOCK FALSE
