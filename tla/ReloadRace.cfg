SPECIFICATION Spec
CONSTANTS
    None = None
    Empty = Empty
    a1 = a1
    a2 = a2
    Actor <- Two
    Roles = {"leader"}
    Ops = {"commit"}
    Faults = {}
    MaxCommits = 3
    MaxFails = 0
INVARIANT NeverDrifts
SYMMETRY Symmetric
CHECK_DEADLOCK FALSE
