SPECIFICATION FairSpec
CONSTANTS
    Intents = {i1, i2}
    Users = {u1}
    Requests = {d1}
    Deliveries = {}
    Sessions = {s1}
    Publishers = {}
    NoUser = nobody
    None = none
    MaxPublishAttempts = 1
    MaxRoleChanges = 0
    MaxFaults = 0
    IdleTxTimeout = TRUE
CHECK_DEADLOCK FALSE
PROPERTIES
    ImplementsContract
    Settles
