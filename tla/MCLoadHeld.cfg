CONSTANTS
    Callers <- MCCallers
    PortSet = {53, 80, 443}
    Worlds <- MCWorlds
    Rtts = {10, 40, 100, 250}
    Lost = Lost
    Measures <- MCMeasureCalls
    LoadTasks = {1, 2}
    Servers <- MCServers
    Tasks <- MCTasks
    Prefixes <- MCPrefixes
SPECIFICATION MCSpec
INVARIANTS LoadIsHeld
CHECK_DEADLOCK FALSE
