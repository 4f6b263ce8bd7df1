SPECIFICATION Spec
CONSTANTS
    Requests = {r1, r2}
    Kinds = {"two_phase"}
    NoToken = none
    MaxTokens = 1
    MaxEvents = 1
    MaxFaults = 0
CHECK_DEADLOCK FALSE
INVARIANT
    SavedConfigKeepsCurrent
