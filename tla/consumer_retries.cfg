SPECIFICATION Spec
CONSTANTS
    Partitions = {p0}
    Payloads = {"object", "envelope"}
    RowCount <- MCRowCount
    Undecodable <- MCUndecodable
    Raising <- MCRaising
    Unwritable <- MCUnwritable
    OffsetReset = "earliest"
    Faults = {"appendFails", "foreign", "interrupt", "pollFatal", "openFails"}
    MaxFaults = 4
    MaxMessages = 4
    BatchSize = 2
    FlushInterval = 2
    MaxFlushAttempts = 3
    RetryBackoff = 1
    MaxRetryBackoff = 2
    MaxBuffered = 4
INVARIANTS
    GivingUpStops
    GivingUpIsEarned
    NoDuplicates
PROPERTIES
    BackoffHonoured
