CONSTANTS
    c1 = c1
    c2 = c2
    Clients = {c1}
    ProbeCount <- MCOneSession
    ProbeLen = 2
    EchoLen = 3
    BufLen = 5
SPECIFICATION Spec
INVARIANT RoundTripIsOwnEcho
