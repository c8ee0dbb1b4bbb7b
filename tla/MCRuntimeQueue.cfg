SPECIFICATION RuntimeSpec
CONSTANTS
    left = left
    right = right
    id1 = id1
    id2 = id2
    first = first
    second = second
    Cameras = {left}
    Requests = {first, second}
    Ids = {id1, id2}
    IdOf <- OwnId
    CameraOf <- OneCamera
    ExpiresAt <- SameDeadline
    DedupGrace = 1
    MaxRecords = 2
    NoRequest = NoRequest
    MaxTime = 1
    MaxBatch = 2
    StorageFaults = TRUE
    Versions = {"v1", "v2"}
    MaxEdits = 0
    MaxCrashes = 1
    MaxPanics = 1
    RedeliverAnswered = FALSE
    MaxInflight = 2
    MaxInflightPerCamera = 2
    MaxCommandRecords = 8
INVARIANTS
    RuntimeTypeOK
    EvidenceKept
    ReportsDurableResult
