SPECIFICATION Spec
CONSTANTS
    None = None
    Settings = "settings"
    Defaults <- NoEdge
    Ledger = "ledger"
    Name <- IntName
    Token <- TokToken
    Blob <- IntBlob
    Vals <- IntVals
    Batches <- IntBatches
    First <- IntFirst
    Ops = {"save", "create", "delete", "token", "batch", "apply", "revert", "revertObject", "settings", "ledger", "restore"}
    Faults = {"commit"}
    MaxCommits = 5
INVARIANTS
    CommittedValid
    LoadableAtRest
    RotationRevokes
PROPERTIES
    LedgerNotClobbered
    OperationsAtomic
CHECK_DEADLOCK FALSE
