SPECIFICATION MCSpec
CONSTANTS
  Client = {a, b}
  User = {root}
  Admin = root
  Req = {r1, r2}
  Token = {t1, t2}
  Sid = {s1}
  Conf <- MCConf
  Groups <- MCGroups
  Mixes <- MCMixes
  NoOne = NoOne
  IPLimit = 2
  UserLimit = 2
  MaxKeys = 1
  StartLimit = 1
  MaxPending = 1
  Lockout = 1
  StartWindow = 1
  PendTTL = 1
  TotpTTL = 1
  SessTTL = 2
  MaxTime = 2
  MaxCalls = 3
  none = none
  None = none
  Confs <- MCConfs
  Shapes <- MCShapes
  Peer = {"lan", "wan", "proxy"}
  HostName = {"a", "b", "c"}
  Cert <- MCCert
  Sourced <- MCSourced
  Country <- MCCountry
  Fleet = {"proxy"}
  Exempt = {"c"}
  MaxReloads = 1
  Key = {k1, k2, k3}
  Caller = {c1, c2}
  Capacity = 2
  Refill = 1
  BlockFor = 1
  Backoff = 2
  BlockMax = 3
  MaxBuckets = 2
  MaxNow = 3
  Nobody = Nobody
  Producer = {p1, p2}
  Sender = {w1, w2}
  Event <- MCEvent
  Targets <- MCTargets
  QueueCapacity = 1
  DedupWindow = 1
  MaxInFlight = 2
  MaxEmits = 3
  MaxTicks = 1
  MaxPosts = 3
  Sub = {"ingress", "docker"}
  Name = {1, 2, 3, 4}
  Domain = {1, 2, 3}
  Source <- MCSource
  Settings <- MCSettings
  OperatorHost <- MCOperatorHost
  PageSize <- MCPageSize
  MaxItems = 2
  MaxEdits = 2
  NoHost = NoHost
  Feed = {1, 2}
  URL = {"u1", "u2"}
  Bodies <- MCBodies
  BadLine = "bad"
  MaxEntries = 2
  FetchEvery = 2
  MaxPasses = 2
  MaxChanges = 3
  Absent = Absent
  CA = {"corp", "lab"}
  Maker = {g1, g2}
  Signer = {q1, q2}
  Retention = 1
  FailOpen = TRUE
  MaxMade = 3
  MaxSerials = 3
  MaxYears = 4
  MaxVersions = 3
  MaxBuilds = 3
  Nil = Nil
INVARIANTS
  GuessesBounded SessionsEarned 
  EveryGatePassed IdentityHonest 
   
  DeliveryExact  
PROPERTIES AssertedArrives 
CHECK_DEADLOCK FALSE
