SPECIFICATION MCSpec
CONSTANTS
    NoWorker = NoWorker
    Missing = Missing
    left = left
    x = x
    y = y
    z = z
    Order <- OneCamera
    Chosen <- AnySetting
    Publishable = {left}
    Slots = {1, 2, 3, 4}
    MaxResolves = 2
    MaxEdits = 2
    MaxCrashes = 1
    Adapters <- Configurations
    Reports <- Lists
    MaxSize = 2
    Largest = 5
    Endpoints <- ThreeEndpoints
    MaxAddresses = 1
    MaxResults = 2
INVARIANTS
    OneWorker
    TrailersWritten
    CurrentSource
    ResolvedDevice
    SearchComplete
PROPERTIES
    RecorderUndisturbed
