CONSTANTS
    Tracers <- MCTracers
    None = None
    Targets <- MCTargets
    Routers <- MCRouters
    NumFlows = 2
    Route <- MCRoute
    Filters = {"w"}
    MaxHops = 3
    MaxWire = 2
    LbFlows = 2
    Scenarios <- MCScenarios
SPECIFICATION Spec
INVARIANTS ConnectedIsReached
CHECK_DEADLOCK FALSE
