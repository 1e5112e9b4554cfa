SPECIFICATION Spec
CONSTANTS
    None = None
    Settings = "settings"
    Defaults <- NoEdge
    Ledger = "ledger"
    Name <- TokName
    Token <- TokToken
    Blob <- TokBlob
    Vals <- EditVals
    Batches <- NoBatches
    First <- TokFirst
    Ops = {"token", "edit"}
    Faults = {}
    MaxCommits = 4
INVARIANT RotationRevokes
CHECK_DEADLOCK FALSE
