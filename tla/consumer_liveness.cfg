SPECIFICATION FairSpec
CONSTANTS
    Partitions = {p0, p1}
    Payloads = {"object", "envelope", "undecodable"}
    RowCount <- MCRowCount
    Undecodable <- MCUndecodable
    Raising <- MCRaising
    Unwritable <- MCUnwritable
    OffsetReset = "earliest"
    Faults = {"appendFails", "answerLost", "commitFails", "crash", "interrupt", "foreign"}
    MaxFaults = 2
    MaxMessages = 2
    BatchSize = 3
    FlushInterval = 2
    MaxFlushAttempts = 2
    RetryBackoff = 1
    MaxRetryBackoff = 1
    MaxBuffered = 3
PROPERTIES
    EventuallyWritten
    InterruptStops
