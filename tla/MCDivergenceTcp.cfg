CONSTANTS
    Protocols <- OnlyTcp
    MaxHops = 2
    Routes <- OpenRoute
SPECIFICATION Spec
INVARIANT AcceptedIsReached
CHECK_DEADLOCK FALSE
