SPECIFICATION Spec
CONSTANTS
    None = None
    n1 = n1
    n2 = n2
    Domain <- OneName
    Target = {"edge1", "edge2"}
    First = "edge1"
    Foreign = "elsewhere"
    Backend = "cloudflare"
    Ops = {"config", "commit", "revert", "now", "create", "delete"}
    Faults = {"backend", "lost", "save", "crash"}
    MaxEdits = 4
    MaxFails = 2
PROPERTIES
    OperatorRecordsKept
    WithdrawnStaysWithdrawn
    ZoneConverges
CHECK_DEADLOCK FALSE
