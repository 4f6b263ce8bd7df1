SPECIFICATION FairSpec
CONSTANTS
    Requests = {r1, r2}
    Kinds = {"two_phase", "legacy"}
    NoToken = none
    MaxTokens = 2
    MaxEvents = 1
    MaxFaults = 1
CHECK_DEADLOCK FALSE
INVARIANTS
    TypeOK
    RevokedStaysDead
    CurrentIsDurable
PROPERTY
    Recovers
