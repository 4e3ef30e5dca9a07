SPECIFICATION PressOnceSpec
CONSTANTS
    Tg = {1, 2}
    Unit = {u1}
    Console = {d1}
    None = None
    ConsoleServer = fx0
    Server <- MCServer
    ServerOf <- MCServerOf
    Session <- OneEach
    SessionServer <- MCSessionServer
    ClassOf <- AmSide
    Quality = {100}
    PatchTables <- Pair
    Subscriber = {u1}
INVARIANTS TypeOK HeldByPress
PROPERTY GrantSpec
