SPECIFICATION Spec
CONSTANTS
    c1 = c1
    c2 = c2
    r1 = r1
    r2 = r2
    NoOne = nobody
    Recovered = recovered
    Conns = {c1, c2}
    Instances = {r1, r2}
    Sweepers = {}
    Home <- OnePerReplica
    Ttl = 2
    Margin = 1
    MaxRtt = 1
    Stalls = TRUE
    JobIds = {}
    MaxAttempts = 1
    MaxOffers = 1
    MaxFaults = 0
SYMMETRY Symmetry
INVARIANTS
    TypeOK
    AtMostOneForwarder
    FenceMutesAll
PROPERTY
    AccountedWhenSilent
