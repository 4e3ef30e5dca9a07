SPECIFICATION Spec
CONSTANTS
    Route = {1, 2}
    ModeOf <- MCModeOf
    Radio = {"a", "b"}
    Console = {"l"}
    Roster <- MCAirband
    Patches = {{}, {1, 2}}
    MOVES = 1
    BACKLOG = 3
    TICK = 60
    STEP = 120
    None = None
INVARIANT SummedNotInterleaved
