\* Three accounts, two a pass, switched on and off, one pass killed.
SPECIFICATION FairSpec
CONSTANTS
    Accounts = {a1, a2, a3}
    UsersPerPass = 2
    Broken = {}
    MaxOutages = 1
PROPERTY EveryAccountGetsTurns
CHECK_DEADLOCK FALSE
