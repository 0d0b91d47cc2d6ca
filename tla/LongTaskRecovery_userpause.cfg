\* One unit; a user pause against a dispatched or scheduled automatic resume.
SPECIFICATION RecoverySpec
CONSTANTS
    a = a
    b = b
    NULL = NULL
    Unit = {a}
    InitialUnit = {a}
    InitialDeps <- NoDeps
    Worker = {w1}
    Optional = {}
    Run = {}
    MaxParallelism = 1
    InitialAttempts = 1
    WaitBudget = 1
    BudgetLimit = 1
    BudgetPauses = TRUE
    UsageSizes = {}
    HasDeadline = FALSE
    Dispositions = {"pause_recoverable"}
    MaxEpoch = 4
    MaxGrants = 4
    MaxRecoveries = 1
    MaxInterventions = 1
CHECK_DEADLOCK FALSE
INVARIANTS
    UserPauseHolds
