SPECIFICATION RuntimeSpec
CONSTANTS
    left = left
    right = right
    id1 = id1
    id2 = id2
    first = first
    second = second
    Cameras = {left, right}
    Requests = {first, second}
    Ids = {id1, id2}
    IdOf <- OwnId
    CameraOf <- TwoCameras
    ExpiresAt <- DeadlinesApart
    DedupGrace = 1
    MaxRecords = 2
    NoRequest = NoRequest
    MaxTime = 2
    MaxBatch = 2
    StorageFaults = FALSE
    Versions = {"v1", "v2"}
    MaxEdits = 0
    MaxCrashes = 0
    MaxPanics = 0
    RedeliverAnswered = FALSE
    MaxInflight = 2
    MaxInflightPerCamera = 2
    MaxCommandRecords = 4
INVARIANTS
    CapacityHonoured
PROPERTIES
    RunsUntilStopped
