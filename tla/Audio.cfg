SPECIFICATION Spec
CONSTANTS
    Route = {1, 2}
    ModeOf <- MCModeOf
    Radio = {"a", "b"}
    Console = {"l"}
    Roster <- MCRoster
    Patches = {{}, {1, 2}}
    MOVES = 1
    BACKLOG = 0
    TICK = 60
    STEP = 120
    None = None
INVARIANTS HeardOnce RadiosAreSummed
PROPERTIES WaitsForThePresent NothingClipped
