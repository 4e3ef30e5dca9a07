SPECIFICATION CallsSpec
CONSTANTS
    Tg = {1, 2}
    Unit = {"u1"}
    Console = {"d1", "d2"}
    None = None
    ConsoleServer = fx0
    Server <- MCServer
    ServerOf <- MCServerOf
    Session <- NoSession
    SessionServer <- MCSessionServer
    ClassOf <- AmSide
    Quality = {100}
    PatchTables <- Pair
    Subscriber = {}
    Boards <- MCBoards
    FirstOf <- MCFirstOf
INVARIANTS RecordingIsOfACall TalkerIsRecorded LitWhileTalking
PROPERTY QuietAtLast
