SPECIFICATION Spec
CONSTANTS
    Long <- MCLong
    Calendar <- MCCalendar
    DateLike <- MCDateLike
INVARIANTS
    AcceptedSettingsWork
    OneRowPerRecord
    ValuesFitColumns
    TestEventsRecognised
    FirstFittingSize
CHECK_DEADLOCK FALSE
