CONSTANTS
    Protocols <- MCProtocols
    MaxHops = 2
    Routes <- MCRoutes
SPECIFICATION FairSpec
INVARIANTS TypeOK NoHopFromAhead NeverStopsShort DivergenceNeedsCause
PROPERTIES AnalysisReturns
CHECK_DEADLOCK FALSE
