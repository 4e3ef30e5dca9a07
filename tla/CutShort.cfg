SPECIFICATION StaySpec
CONSTANTS
    Tg = {1, 2}
    Unit = {"u1"}
    Console = {"d1"}
    None = None
    ConsoleServer = fx0
    Server <- MCServer
    ServerOf <- MCServerOf
    Session <- NoSession
    SessionServer <- MCSessionServer
    ClassOf <- AmSide
    Quality = {100}
    PatchTables <- NoPatch
    Subscriber = {}
    Boards <- MCBoards
    FirstOf <- MCFirstOf
INVARIANT RecordingIsNotCut
