SPECIFICATION Spec
CONSTANTS
    None = None
    n1 = n1
    n2 = n2
    Domain <- Names
    Target = {"edge1", "edge2"}
    First = "edge1"
    Foreign = "elsewhere"
    Backend = "pihole"
    Ops = {"config", "commit", "now", "create", "repoint", "delete"}
    Faults = {"backend", "lost", "save", "crash"}
    MaxEdits = 3
    MaxFails = 2
INVARIANTS
    PublishedIsClaimed
 
SYMMETRY Symmetric
CHECK_DEADLOCK FALSE
