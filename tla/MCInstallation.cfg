SPECIFICATION MCSpec
CONSTANTS
    ann = ann
    bob = bob
    left = left
    right = right
    Operators <- Staff
    Instances <- Slots
    MaxInstances = 2
    MaxCommands = 3
    MaxRecordings = 0
    MaxStops = 1
    MaxCrashes = 1
CHECK_DEADLOCK FALSE
INVARIANTS
    WrittenFileLoads
    StoppedMeansFinished
PROPERTIES
    IncompatibleKept
    ImplementsRegistry
    StopCompletes
    UnpairTakesEffect
