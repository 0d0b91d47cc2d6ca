SPECIFICATION Spec
CONSTANTS
    Process = {p1, p2}
    Worker = {w1}
    Run = {r1, r2}
    Command = {k1}
    Cancel = {c1}
    MaxAttempt = 2
    MaxEpoch = 1
    NULL = NULL
INVARIANTS
    CanceledTurnClosesOperation
CHECK_DEADLOCK FALSE
