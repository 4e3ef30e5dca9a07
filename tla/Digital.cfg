SPECIFICATION SteadySpec
CONSTANTS
    Tg = {1, 2, 3}
    Unit = {u1, u2}
    Console = {d1}
    None = None
    ConsoleServer = fx0
    Server <- MCServer
    ServerOf <- MCServerOf
    Session <- NoSession
    SessionServer <- MCSessionServer
    ClassOf <- Trunked
    Quality = {100}
    PatchTables <- Chain
    Subscriber = {}
SYMMETRY Alike
INVARIANT OneTalkerPerChannel
PROPERTY ArmedOnlyByRefusal
