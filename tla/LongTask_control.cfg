\* Two units side by side, b optional: pauses, resumes, budget, deadline, cancellation, every disposition.
SPECIFICATION Spec
CONSTANTS
    a = a
    b = b
    c = c
    d = d
    w1 = w1
    w2 = w2
    NULL = NULL
    Unit <- MCInitialUnit
    InitialUnit <- MCInitialUnit
    InitialDeps <- NoDeps
    Worker <- MCWorker
    Optional = {b}
    Run = {r1}
    MaxParallelism = 2
    InitialAttempts = 1
    WaitBudget = 1
    BudgetLimit = 1
    BudgetPauses = TRUE
    UsageSizes = {2}
    HasDeadline = TRUE
    Dispositions = {"retry_attempt", "resume_checkpoint", "pause_recoverable", "split_part", "fail_permanent", "cancel"}
    MaxEpoch = 2
    MaxGrants = 2
    MaxRecoveries = 1
SYMMETRY Symmetric
CHECK_DEADLOCK FALSE
INVARIANTS
    LatestLeaseSettles
    FailedUnitFailsTask
    OverBudgetStopsWork
PROPERTIES
    CompletedUnitIsFinal
    NoWorkWhenStopped
