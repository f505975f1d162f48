SPECIFICATION FairSpec
CONSTANTS
    Partitions = {p0, p1}
    Payloads = {"object", "undecodable"}
    RowCount <- MCRowCount
    Undecodable = {"undecodable"}
    Raising = {}
    Unwritable = {}
    OffsetReset = "earliest"
    Faults = {"evicted", "crash", "commitFails", "answerLost"}
    MaxFaults = 1
    MaxMessages = 2
    Members = {m1, m2}
    Nobody = Nobody
    MaxBuffered = 2
INVARIANTS
    OwnerHoldsTheRest
    CopiesBounded
PROPERTIES
    ImplementsSharedDelivery
    SettledNeverRegresses
    EventuallyWritten
CHECK_DEADLOCK FALSE
