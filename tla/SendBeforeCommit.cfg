SPECIFICATION Spec
CONSTANTS
    Commands = {c1}
    StopCommands = {}
    Exempt = {}
    Dispatchers = {d1}
    Polls = {p1}
    Results = {r1}
    BatchLimit = 1
    MaxClaims = 2
    MaxRearms = 0
    MaxFaults = 0
CHECK_DEADLOCK FALSE
INVARIANT
    CommittedBeforeResult
