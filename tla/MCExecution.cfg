SPECIFICATION MCSpec
CONSTANTS
    cam = cam
    id1 = id1
    id2 = id2
    first = first
    second = second
    third = third
    Cameras = {cam}
    Requests = {first, second, third}
    Ids = {id1, id2}
    IdOf <- MCIdOf
    CameraOf <- MCCameraOf
    ExpiresAt <- MCExpiresAt
    DedupGrace = 1
    MaxRecords = 2
    NoRequest = NoRequest
    MaxTime = 4
    MaxBatch = 2
    StorageFaults = TRUE
INVARIANTS
    AtMostOnce
    FailedNeverExecuted
    SucceededWasExecuted
    LedgerLoadable
PROPERTIES
    ImplementsContract
