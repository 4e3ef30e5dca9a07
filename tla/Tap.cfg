SPECIFICATION Spec
CONSTANTS
    Chan = {"c1"}
    Session = {127, 268435456}
    Player = {"a", "b"}
    WIRE = 2
    OUT = 1
    None = None
    Numbers = {128, 16383, 2097152, 2147483647}
    Around <- MCAround
INVARIANTS TapTypeOK Framed RosterFollows ChainIsTheirs VoiceParses
PROPERTIES HearsEveryChannel
