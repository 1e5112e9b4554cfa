SPECIFICATION Spec
CONSTANTS
    None = None
    Loop = Loop
    c1 = c1
    c2 = c2
    a1 = a1
    a2 = a2
    r1 = r1
    Cert <- OneCert
    Http <- NoCert
    Authz <- TwoAuthz
    Req <- OneReq
    Domains = {"narrow", "wide"}
    Ops = {"config", "renew", "age"}
    Faults = {"ca", "present"}
    MaxEdits = 3
    MaxFails = 2
INVARIANTS
    RecordsWithdrawn
    ChallengesAnswerable
    IssuedPairMatches
 
