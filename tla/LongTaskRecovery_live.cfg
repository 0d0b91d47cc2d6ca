\* a and b in flight together; a crash and user commands at any moment; no symmetry, for liveness.
SPECIFICATION RecoverySpec
CONSTANTS
    a = a
    b = b
    NULL = NULL
    Unit <- MCUnit
    InitialUnit <- MCUnit
    InitialDeps <- SideBySide
    Worker = {w1}
    Optional = {}
    Run = {}
    MaxParallelism = 2
    InitialAttempts = 2
    WaitBudget = 1
    BudgetLimit = 1
    BudgetPauses = TRUE
    UsageSizes = {}
    HasDeadline = FALSE
    Dispositions = {"retry_attempt", "pause_recoverable"}
    MaxEpoch = 12
    MaxGrants = 12
    MaxRecoveries = 3
    MaxInterventions = 2
CHECK_DEADLOCK FALSE
INVARIANT
    AutomaticRecoveryBounded
PROPERTIES
    AbandonedTaskRecovers
    EventuallyAtRest
