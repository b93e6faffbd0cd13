CONSTANTS
    Tracers <- MCTracers
    None = None
    Targets <- MCTargets
    Routers <- MCRouters
    NumFlows = 2
    Route <- MCRoute
    Filters = {"w"}
    MaxHops = 3
    MaxWire = 2
    LbFlows = 2
    Scenarios <- MCScenarios
SPECIFICATION FairSpec
INVARIANTS TypeOK WrongHopNeedsCause ShortTraceNeedsFilter BalancingNeedsCause
PROPERTIES TracesReturn
CHECK_DEADLOCK FALSE
