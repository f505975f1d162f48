SPECIFICATION Spec
CONSTANTS
    Partitions = {p0, p1}
    Payloads = {"object", "envelope", "undecodable", "raising", "unwritable"}
    RowCount <- MCRowCount
    Undecodable <- MCUndecodable
    Raising <- MCRaising
    Unwritable <- MCUnwritable
    OffsetReset = "earliest"
    Faults = {"appendFails", "answerLost", "commitFails", "crash", "interrupt", "pollFatal", "openFails", "foreign"}
    MaxFaults = 2
    MaxMessages = 3
    BatchSize = 2
    FlushInterval = 1
    MaxFlushAttempts = 2
    RetryBackoff = 1
    MaxRetryBackoff = 2
    MaxBuffered = 3
INVARIANTS
    TypeOK
    AckedRowsDurable
    NothingLost
    PendingMatchesBuffer
    BufferedRowsReplayable
    CleanExitMeansWritten
    MessagesLandWhole
PROPERTIES
    CommittedNeverRegresses
    ImplementsDelivery
