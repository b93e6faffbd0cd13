CONSTANTS
    a = a
    b = b
    p = p
    Private = {p}
    Public = {a,b}
    Cloud = {1}
    Transit = {2}
    Others = {3}
    Protocols = 3
    MaxHops = 3
SPECIFICATION Spec
INVARIANTS TypeOK BoundariesMakeThePath SameAddressSameAs CausesMatchScore InterpretationFollowsHops
CHECK_DEADLOCK FALSE
