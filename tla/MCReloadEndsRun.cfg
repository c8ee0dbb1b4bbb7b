SPECIFICATION RuntimeSpec
CONSTANTS
    left = left
    right = right
    id1 = id1
    id2 = id2
    first = first
    second = second
    Cameras = {left}
    Requests = {first}
    Ids = {id1}
    IdOf <- OwnId
    CameraOf <- OneCamera
    ExpiresAt <- SameDeadline
    DedupGrace = 1
    MaxRecords = 2
    NoRequest = NoRequest
    MaxTime = 0
    MaxBatch = 2
    StorageFaults = FALSE
    Versions = {"v1", "v2"}
    MaxEdits = 1
    MaxCrashes = 0
    MaxPanics = 0
    RedeliverAnswered = FALSE
    MaxInflight = 2
    MaxInflightPerCamera = 2
    MaxCommandRecords = 8
PROPERTIES
    RunsUntilStopped
