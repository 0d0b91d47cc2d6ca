\* Default capacity, one call more than it, and a circuit that trips at two failures.
SPECIFICATION Spec
CONSTANTS
    m = m
    n = n
    c1 = c1
    c2 = c2
    c3 = c3
    Scope <- MCScope
    Call <- MCCall
    Limit = 2
    TripFailures = 2
    NULL = NULL
INVARIANTS
    CapacityRespected
    OneProbe
PROPERTIES
    OpenCircuitIsTried
