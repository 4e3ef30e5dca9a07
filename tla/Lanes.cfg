SPECIFICATION LanesSpec
CONSTANTS
    Tg = {1, 2}
    Unit = {u1, u2}
    Console = {}
    None = None
    ConsoleServer = fx0
    Server <- MCServer
    ServerOf <- MCServerOf
    Session <- NoSession
    SessionServer <- MCSessionServer
    ClassOf <- Trunked
    Quality = {7, 8, 13, 100}
    PatchTables <- Pair
    Subscriber = {u1}
INVARIANTS NothingToldIsLost OneLaneBehind
PROPERTIES LaneHoldsMidCall ReleaseCatchesUp
