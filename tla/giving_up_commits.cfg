SPECIFICATION Spec
CONSTANTS
    Partitions = {p0}
    Payloads = {"object"}
    RowCount <- MCRowCount
    Undecodable <- MCUndecodable
    Raising <- MCRaising
    Unwritable <- MCUnwritable
    OffsetReset = "earliest"
    Faults = {"appendFails"}
    MaxFaults = 2
    MaxMessages = 2
    BatchSize = 1
    FlushInterval = 1
    MaxFlushAttempts = 2
    RetryBackoff = 1
    MaxRetryBackoff = 2
    MaxBuffered = 3
PROPERTIES
    GivingUpCommitsNothing
