SPECIFICATION Spec
CONSTANTS
    Process = {p1, p2}
    Worker = {w1, w2}
    Run = {r1, r2, r3}
    Command = {k1, k2}
    Cancel = {c1, c2}
    MaxAttempt = 4
    MaxEpoch = 2
    NULL = NULL
SYMMETRY Symmetric
INVARIANTS
    OneLiveRoot
    ContinuedOnce
    OperationFollowsTurn
PROPERTIES
    SettledStays
    WinnerKeepsClaim
CHECK_DEADLOCK FALSE
