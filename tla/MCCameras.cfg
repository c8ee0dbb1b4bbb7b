SPECIFICATION MCSpec
CONSTANTS
    NoWorker = NoWorker
    left = left
    right = right
    recorder = recorder
    publisher = publisher
    MaxCaptures = 2
    Workers <- TwoWorkers
    Slots = 2
    MaxTasks = 3
    Buffered = 1
    MaxChunks = 2
    MaxEdits = 1
    MaxFaults = 1
PROPERTIES
    CaptureUndisturbed
    CapturesReturn
    ReadersCatchUp
    RecordersRun
