SPECIFICATION Spec
CONSTANTS
    None = None
    Loop = Loop
    c1 = c1
    c2 = c2
    a1 = a1
    a2 = a2
    r1 = r1
    Cert <- TwoCerts
    Http <- OneCert
    Authz <- TwoAuthz
    Req <- OneReq
    Domains = {"narrow"}
    Ops = {"config", "renew", "age"}
    Faults = {"ca", "cleanup", "write", "crash"}
    MaxEdits = 2
    MaxFails = 1
INVARIANTS
    MetaNeverAhead
    
CHECK_DEADLOCK FALSE
