SPECIFICATION Spec
CONSTANTS
    None = None
    Settings = "settings"
    Defaults <- NoEdge
    Ledger = "ledger"
    Name <- FaultName
    Token <- TokToken
    Blob <- FaultBlob
    Vals <- FaultVals
    Batches <- FaultBatches
    First <- FaultFirst
    Ops = {"save", "delete", "token", "edit", "apply", "revert", "revertObject", "ledger", "restore"}
    Faults = {"write", "commit", "cancel", "crash"}
    MaxCommits = 3
INVARIANTS
    AnsweredMeansStored
    BatchAllOrNothing
PROPERTY OperatorObjectsKept
CHECK_DEADLOCK FALSE
