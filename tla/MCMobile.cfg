SPECIFICATION MCSpec
CONSTANTS
    Handles <- AllGenerations
    Sources <- AllGenerations
    NoSource = 0
    QueueSize = 1
    MaxStarts = 2
    PipelineSize = 1
    Payload = 4
    SequenceSize = 3
    MaxSkip = 1
    Room = 2
    Pictures <- MCPictures
    MaxPictures = 2
    MaxRequests = 4
    MaxControl = 1
INVARIANTS
    NothingSurvivesStop
    FramesReachOpenSession
    WireDecodable
    FailureIsCurrent
    PicturesRebuilt
PROPERTIES
    StopFinishes
    BackgroundReleases
    FailureReleases
    KeyframeComes
    ClosesUnlessStalled
