SPECIFICATION Spec
CONSTANTS
    PartitionCounts = {1, 3}
    Retentions = {7}
    DefaultPartitions = 1
    DefaultRetention = 7
    NotGiven = NotGiven
    MaxRuns = 2
    MaxNew = 1
INVARIANTS
    SettingsKept
    NoOldReplay
    TopicStands
    PositionFitsLog
PROPERTIES
    DryRunHarmless
CHECK_DEADLOCK FALSE
