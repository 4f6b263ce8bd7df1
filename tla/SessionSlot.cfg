SPECIFICATION Spec
CONSTANTS
    Calls = {c1, c2, c3}
    Sealed = {c3}
    Vision = {c2}
    NoCall = none
CHECK_DEADLOCK FALSE
INVARIANT
    SettledByOwnCall
