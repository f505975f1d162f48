SPECIFICATION Spec
CONSTANTS
    Long <- MCLong
    Calendar <- MCCalendar
    DateLike <- MCDateLike
INVARIANTS
    NeverRaises
CHECK_DEADLOCK FALSE
