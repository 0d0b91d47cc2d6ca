\* b depends on a; splits introduce c and d; one unit at a time, one worker id.
SPECIFICATION Spec
CONSTANTS
    a = a
    b = b
    c = c
    d = d
    w1 = w1
    w2 = w2
    NULL = NULL
    Unit <- SplitUnits
    InitialUnit <- MCInitialUnit
    InitialDeps <- ChainDeps
    Worker <- OneWorker
    Optional = {}
    Run = {}
    MaxParallelism = 1
    InitialAttempts = 1
    WaitBudget = 1
    BudgetLimit = 1
    BudgetPauses = TRUE
    UsageSizes = {}
    HasDeadline = FALSE
    Dispositions = {"retry_attempt", "fail_permanent"}
    MaxEpoch = 2
    MaxGrants = 2
    MaxRecoveries = 0
CHECK_DEADLOCK FALSE
INVARIANTS
    CompletionIsEarned
    DependenciesFirst
    SomebodyCanMove
PROPERTIES
    LedgerSpec
