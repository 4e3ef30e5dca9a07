SPECIFICATION Spec
CONSTANTS
    Tg = {1, 2}
    DAY = 2
    DAYS = 1
    SHORT = 1
    END = 4
    CALLS = 2
    STARTS = 1
    None = None
INVARIANTS ListedIsPlayable RetentionKept IndexIsNewest
PROPERTIES NeverOverwritten WindowKept
CHECK_DEADLOCK FALSE
