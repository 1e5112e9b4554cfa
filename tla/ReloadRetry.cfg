SPECIFICATION Spec
CONSTANTS
    None = None
    Empty = Empty
    a1 = a1
    a2 = a2
    Actor <- One
    Roles = {"leader"}
    Ops = {"commit", "retry"}
    Faults = {"router"}
    MaxCommits = 3
    MaxFails = 1
INVARIANT UnchangedMeansLive
CHECK_DEADLOCK FALSE
