SPECIFICATION Spec
CONSTANTS
    Long <- MCLong
    Calendar <- MCCalendar
    DateLike <- MCDateLike
INVARIANTS
    TimesGreaterThanZero
CHECK_DEADLOCK FALSE
