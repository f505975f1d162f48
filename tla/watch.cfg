SPECIFICATION FairSpec
CONSTANTS
    Layers <- MCLayers
    MaxWorkers = 2
    MaxQueue = 3
    MaxVersions = 2
    MaxOutages = 1
    SimBatch = 3
    SimFlush = 2
    MaxObjects = 7
INVARIANTS
    HealthyLayersShown
    IcebergIsCurrent
    SyntheticCascade
PROPERTIES
    SampleEnds
    CompleteAgain
    QuitEnds
CHECK_DEADLOCK FALSE
