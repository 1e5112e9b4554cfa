SPECIFICATION PoolSpec
CONSTANTS
    None = None
    u1 = u1
    u2 = u2
    u3 = u3
    r1 = r1
    r2 = r2
    Upstream = {u1, u2, u3}
    Req = {r1, r2}
    Rank <- MCRank
    Rise = 2
    Fall = 2
    MaxInst = 2
    Mixes <- MCMixes
INVARIANTS
    CountersExact
    RefusedByAll
PROPERTIES
    OneDelivery
    HealthFollows
CHECK_DEADLOCK FALSE
