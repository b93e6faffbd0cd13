CONSTANTS
    c1 = c1
    c2 = c2
    Clients = {c1,c2}
    ProbeCount <- MCProbeCount
    ProbeLen = 2
    EchoLen = 3
    BufLen = 5
SPECIFICATION FairSpec
INVARIANTS TypeOK SamplesInOrder ReceivedWereHandled
PROPERTIES SessionsReturn StopEndsRun HandlersDrain KeepsLedger
