\* Two backends overlap; three crashes, stalls, failures or commands.
\* The attempt bound never binds.
SPECIFICATION Spec
CONSTANTS
    p = p
    q = q
    t = t
    NULL = NULL
    Process <- MCProcess
    First = p
    Tool <- MCTool
    MaxAttempt = 9
    MaxInterventions = 3
CHECK_DEADLOCK FALSE
INVARIANTS
    CancelRequestWins
    ReceiptAgrees
PROPERTIES
    LiveLeaseIsKept
    OutcomeSpec
    CancellationSettles
    OrphanSettles
