SPECIFICATION Spec
CONSTANTS
    Intents = {i1}
    Users = {u1, u2}
    Requests = {d1, d2}
    Deliveries = {w1}
    Sessions = {s1}
    Publishers = {p1, p2}
    NoUser = nobody
    None = none
    MaxPublishAttempts = 1
    MaxRoleChanges = 1
    MaxFaults = 1
    IdleTxTimeout = TRUE
SYMMETRY Symmetry
CHECK_DEADLOCK FALSE
INVARIANTS
    TypeOK
    AtMostOnce
    OnlyReleasedRun
    ApprovalNotLost
    FourEyes
    RecordIsTruthful
    SingleHolder
