SPECIFICATION Spec
CONSTANTS
    Commands = {c1}
    StopCommands = {c1}
    Exempt = {}
    Dispatchers = {d1, d2}
    Polls = {p1}
    Results = {r1}
    BatchLimit = 1
    MaxClaims = 3
    MaxRearms = 2
    MaxFaults = 1
SYMMETRY Symmetry
CHECK_DEADLOCK FALSE
PROPERTY
    ReleaseSparesNewerClaim
