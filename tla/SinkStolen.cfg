SPECIFICATION Spec
CONSTANTS
    Client = {"a"}
    Token = {"t1"}
    TokenOf <- MCTokenOf
    Conn = {k1, k2}
    Sent = {"lit", "dark"}
    QUEUE = 2
    None = None
INVARIANT LiveSocketIsServed
