SPECIFICATION Spec
CONSTANTS
    NumSinks = 3
    MaxEvents = 3
    UnwindOutcomes = {"returns", "raises"}
INVARIANTS
    SinksIsolated
    FatalStopsEverything
    OpenedSinksAreClosed
    ExitZeroIsClean
CHECK_DEADLOCK FALSE
