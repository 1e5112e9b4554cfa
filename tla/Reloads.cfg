SPECIFICATION Spec
CONSTANTS
    None = None
    Empty = Empty
    a1 = a1
    a2 = a2
    Actor <- Two
    Roles = {"leader", "follower"}
    Ops = {"commit", "retry", "renew"}
    Faults = {"load", "late", "router", "tokens"}
    MaxCommits = 3
    MaxFails = 2
INVARIANTS
    
    AuthFollowsRouter
    RevokedStaysRevoked
 
CHECK_DEADLOCK FALSE
