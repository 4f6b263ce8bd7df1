SPECIFICATION FairSpec
CONSTANTS
    c1 = c1
    c2 = c2
    r1 = r1
    r2 = r2
    NoOne = nobody
    Recovered = recovered
    Conns = {c1}
    Instances = {r1}
    Sweepers = {r1}
    Home <- OnlyOne
    Ttl = 2
    Margin = 1
    MaxRtt = 1
    Stalls = TRUE
    JobIds = {c1}
    MaxAttempts = 1
    MaxOffers = 0
    MaxFaults = 1
PROPERTIES
    FenceOutlivesRow
    LostIsClosed
    ClosingEnds
