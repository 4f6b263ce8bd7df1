SPECIFICATION FairSpec
CONSTANTS
    Intents = {i1}
    Users = {u1, u2, u3}
    Requests = {d1, d2}
    Deliveries = {w1}
    Sessions = {s1}
    Publishers = {}
    NoUser = nobody
    None = none
    MaxPublishAttempts = 1
    IdleTxTimeout = FALSE
    MaxRoleChanges = 0
    MaxFaults = 0
CHECK_DEADLOCK FALSE
PROPERTY RequestsEnd
