SPECIFICATION FairSpec
CONSTANTS
    Commands = {c1}
    StopCommands = {}
    Exempt = {}
    Dispatchers = {d1}
    Polls = {p1, p2}
    Results = {r1, r2}
    BatchLimit = 1
    MaxClaims = 3
    MaxRearms = 0
    MaxFaults = 2
CHECK_DEADLOCK FALSE
INVARIANTS
    TypeOK
    DeliveredOnce
    WithdrawnUndelivered
    HandledOnce
PROPERTIES
    SettledStays
    Settles
