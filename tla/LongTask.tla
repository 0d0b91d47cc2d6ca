------------------------------ MODULE LongTask ------------------------------
(***************************************************************************)
(* One durable task and its DAG of work units, as the SQLite adapter       *)
(* backend/infrastructure/persistence/sqlite_long_task_repository.py keeps *)
(* them.  Every repository method is one transaction under the connection  *)
(* lock, so every method is one action.                                    *)
(*                                                                         *)
(* Time is abstracted to what the code asks of it: whether a lease is live *)
(* or expired, whether a retry backoff or an automatic resume is due, and  *)
(* whether the deadline has elapsed.  Each of them flips by an action of   *)
(* its own.  Worker ids and lease epochs travel through callers that may   *)
(* crash, stall or repeat a call, so every lease ever granted stays in     *)
(* tokens and may be presented again at any later moment.                  *)
(***************************************************************************)
EXTENDS Naturals, FiniteSets

CONSTANTS
    Unit,             \* unit ids, those a split may introduce included
    InitialUnit,      \* the units of the create command
    Optional,         \* the initial units created with required = 0
    InitialDeps,      \* [InitialUnit -> SUBSET InitialUnit]
    Worker,           \* worker ids
    Run,              \* agent Run ids a unit attempt can be bound to
    NULL,             \* SQL NULL for a worker or a Run
    MaxParallelism,   \* max_parallelism of the task
    InitialAttempts,  \* max_attempts of every created unit
    WaitBudget,       \* retry wait budget, in the units of Backoff
    BudgetLimit,      \* limit on the recorded usage
    BudgetPauses,     \* budget_exhaustion_disposition is pause_recoverable
    UsageSizes,       \* usage one Run can report
    HasDeadline,      \* deadline_at_ms is set
    Dispositions,     \* failure dispositions the host's policy emits
    MaxEpoch,         \* BOUND on the claims of one unit
    MaxGrants,        \* BOUND on max_attempts of one unit
    MaxRecoveries     \* BOUND on automaticRecoveryAttempt

ASSUME UnitAssumption ==
    /\ InitialUnit \subseteq Unit
    /\ Optional \subseteq InitialUnit
    /\ InitialDeps \in [InitialUnit -> SUBSET InitialUnit]
    /\ IsFiniteSet(Unit)

\* The units of a create command form a DAG, as the planned recipes do
\* (agents/novel_analysis/planner_contract.py); a split must leave one.
ASSUME RecipeAssumption ==
    \A S \in SUBSET InitialUnit : S # {} => \E u \in S : InitialDeps[u] \intersect S = {}

ASSUME WorkerAssumption == NULL \notin Worker /\ NULL \notin Run

ASSUME NumberAssumption ==
    /\ MaxParallelism \in Nat \ {0}
    /\ InitialAttempts \in Nat \ {0}
    /\ WaitBudget \in Nat
    /\ BudgetLimit \in Nat
    /\ UsageSizes \subseteq Nat
    /\ MaxEpoch \in Nat
    /\ MaxGrants \in Nat
    /\ MaxRecoveries \in Nat

ASSUME SwitchAssumption == BudgetPauses \in BOOLEAN /\ HasDeadline \in BOOLEAN

VARIABLES
    task,             \* the row of ai_agent_long_tasks
    unit,             \* the rows of ai_agent_long_task_units
    used,             \* usage summed over the recorded Runs
    recorded,         \* Runs with a row in ai_agent_long_task_usage
    deadlineElapsed,  \* deadline_at_ms <= now
    tokens            \* every lease granted so far, as its holder remembers it

vars == <<task, unit, used, recorded, deadlineElapsed, tokens>>

InFlight == {"claimed", "running"}
Waiting  == {"pending", "waiting_retry", "needs_split", "blocked"}
Open     == InFlight \union Waiting
Closed   == {"completed", "expanded", "failed", "canceled"}
Terminal == {"completed", "failed", "canceled"}

\* status "absent" stands for a unit id that has no row yet.
UnitRow == [status: Open \union Closed \union {"absent"},
            required: BOOLEAN, deps: SUBSET Unit,
            attempt: Nat, maxAttempts: Nat,
            worker: Worker \union {NULL}, epoch: Nat,
            lease: {"none", "live", "expired"},
            settledBy: Worker \union {NULL}, run: Run \union {NULL},
            backoff: BOOLEAN, waited: Nat,
            output: Nat]  \* output_ref, named by the lease epoch that produced it

TaskRow == [status: Terminal \union {"pending", "running", "paused"},
            cancelRequested: BOOLEAN,
            total: Nat, done: Nat, failed: Nat,
            reason: {"none", "system", "user", "budget"},
            autoAttempt: Nat, autoWaited: Nat,
            autoResume: {"none", "scheduled", "due", "exhausted"}]

Token == [worker: Worker, unit: Unit, epoch: Nat]

TypeOK ==
    /\ task \in TaskRow
    /\ unit \in [Unit -> UnitRow]
    /\ used \in Nat
    /\ recorded \subseteq Run
    /\ deadlineElapsed \in BOOLEAN
    /\ tokens \subseteq Token

-----------------------------------------------------------------------------
\* Helpers on rows

With(rows, statuses) == {u \in Unit : rows[u].status \in statuses}

RequiredUnits(rows) == {u \in Unit : rows[u].required}

\* Slip: a split does not recount the required units.
RefreshKeepsTotal(t, rows) ==
    [t EXCEPT !.done   = Cardinality(RequiredUnits(rows) \intersect With(rows, {"completed"})),
              !.failed = Cardinality(RequiredUnits(rows) \intersect With(rows, {"failed"}))]

\* _refresh_task_totals: the counters are recomputed from the required rows.
Refresh(t, rows) ==
    [t EXCEPT !.total  = Cardinality(RequiredUnits(rows)),
              !.done   = Cardinality(RequiredUnits(rows) \intersect With(rows, {"completed"})),
              !.failed = Cardinality(RequiredUnits(rows) \intersect With(rows, {"failed"}))]

\* The bulk updates that clear the worker and the lease of the units in S.
Settle(rows, S, status) ==
    [u \in Unit |-> IF u \in S
                    THEN [rows[u] EXCEPT !.status = status, !.worker = NULL, !.lease = "none"]
                    ELSE rows[u]]

\* Slip: a unit goes back to 'pending' with the attempts it had.
RequeueUngranted(rows, S, extra) ==
    [u \in Unit |-> IF u \in S
                    THEN [rows[u] EXCEPT !.status = "pending", !.worker = NULL, !.lease = "none"]
                    ELSE rows[u]]

\* The bulk updates back to 'pending' that also grant further attempts.
Requeue(rows, S, extra) ==
    [u \in Unit |-> IF u \in S
                    THEN [rows[u] EXCEPT !.status = "pending", !.worker = NULL,
                                         !.lease = "none", !.maxAttempts = @ + extra]
                    ELSE rows[u]]

GrantsLeft(S, extra) == \A u \in S : unit[u].maxAttempts + extra <= MaxGrants

\* _retry_not_before_ms: exponential base capped at 60, plus up to a quarter.
BackoffBase(n) ==
    IF n <= 1 THEN 1 ELSE IF n = 2 THEN 2 ELSE IF n = 3 THEN 4
    ELSE IF n = 4 THEN 8 ELSE IF n = 5 THEN 16 ELSE IF n = 6 THEN 32 ELSE 60

Backoff(n) == BackoffBase(n) .. (BackoffBase(n) + BackoffBase(n) \div 4)

\* _schedule_system_recovery: book the next automatic resume, or give up.
ScheduleRecovery(t, delay) ==
    IF t.autoWaited + delay > WaitBudget
    THEN [t EXCEPT !.autoAttempt = @ + 1, !.autoResume = "exhausted"]
    ELSE [t EXCEPT !.autoAttempt = @ + 1, !.autoResume = "scheduled", !.autoWaited = @ + delay]

\* A system pause: reason, recovery schedule and status in one transaction.
PauseBySystem ==
    /\ task.autoAttempt < MaxRecoveries
    /\ \E delay \in Backoff(task.autoAttempt + 1) :
          task' = [ScheduleRecovery(task, delay) EXCEPT !.status = "paused", !.reason = "system"]

\* _cancel_in_transaction writes CANCELED whatever the status was.
CanceledTask(t) == [t EXCEPT !.status = "canceled"]
CancelTask ==
    /\ task' = CanceledTask(task)
    /\ unit' = Settle(unit, With(unit, Open), "canceled")
    /\ UNCHANGED <<used, recorded, deadlineElapsed, tokens>>

\* _expire_deadline_in_transaction
ExpireTask ==
    LET rows == Settle(unit, With(unit, Open), "failed")
        t    == Refresh(task, rows)
    IN /\ unit' = rows
       /\ task' = IF t.status \in Terminal THEN t ELSE [t EXCEPT !.status = "failed"]
       /\ UNCHANGED <<used, recorded, deadlineElapsed, tokens>>

\* _fail_budget: block or fail what is open, then pause or fail the task.
BudgetRows == Settle(unit, With(unit, Open), IF BudgetPauses THEN "blocked" ELSE "failed")

BudgetTask ==
    LET t == Refresh(task, BudgetRows) IN
    IF t.status \in Terminal \/ (BudgetPauses /\ t.status = "paused") THEN t
    ELSE IF BudgetPauses THEN [t EXCEPT !.status = "paused", !.reason = "budget"]
    ELSE [t EXCEPT !.status = "failed"]

\* Slips: no epoch fence; no look at the lease deadline.
HoldsAnyEpoch(tk) ==
    /\ ~deadlineElapsed /\ task.status = "running"
    /\ unit[tk.unit].status \in InFlight
    /\ unit[tk.unit].worker = tk.worker
    /\ unit[tk.unit].lease = "live"

HoldsExpired(tk) ==
    /\ ~deadlineElapsed /\ task.status = "running"
    /\ unit[tk.unit].status \in InFlight
    /\ unit[tk.unit].worker = tk.worker
    /\ unit[tk.unit].epoch = tk.epoch

\* _require_active_unit: the caller still holds the lease it presents.
HoldsLease(tk) ==
    LET row == unit[tk.unit] IN
    /\ ~deadlineElapsed
    /\ task.status = "running"
    /\ row.status \in InFlight
    /\ row.worker = tk.worker
    /\ row.epoch = tk.epoch
    /\ row.lease = "live"

\* Slip: a pending cancellation is not served first.
WorkerCallAnyway(tk) == HoldsLease(tk)

\* Guard of every worker call: pending cancellation is served first.
WorkerCall(tk) == ~task.cancelRequested /\ HoldsLease(tk)

-----------------------------------------------------------------------------
\* create: the task row, its unit rows, nothing claimed.

InitialRow(u) ==
    [status |-> IF u \in InitialUnit THEN "pending" ELSE "absent",
     required |-> u \in InitialUnit \ Optional,
     deps |-> IF u \in InitialUnit THEN InitialDeps[u] ELSE {},
     attempt |-> 0, maxAttempts |-> InitialAttempts,
     worker |-> NULL, epoch |-> 0, lease |-> "none", settledBy |-> NULL,
     run |-> NULL, backoff |-> FALSE, waited |-> 0, output |-> 0]

Init ==
    /\ unit = [u \in Unit |-> InitialRow(u)]
    /\ task = [status |-> "pending", cancelRequested |-> FALSE,
               total |-> Cardinality(InitialUnit \ Optional), done |-> 0, failed |-> 0,
               reason |-> "none", autoAttempt |-> 0, autoWaited |-> 0, autoResume |-> "none"]
    /\ used = 0
    /\ recorded = {}
    /\ deadlineElapsed = FALSE
    /\ tokens = {}

-----------------------------------------------------------------------------
\* The passing of time

DeadlineElapses ==
    /\ HasDeadline /\ ~deadlineElapsed
    /\ deadlineElapsed' = TRUE
    /\ UNCHANGED <<task, unit, used, recorded, tokens>>

LeaseExpires(u) ==
    /\ unit[u].lease = "live"
    /\ unit' = [unit EXCEPT ![u].lease = "expired"]
    /\ UNCHANGED <<task, used, recorded, deadlineElapsed, tokens>>

BackoffElapses(u) ==
    /\ unit[u].status = "waiting_retry" /\ unit[u].backoff
    /\ unit' = [unit EXCEPT ![u].backoff = FALSE]
    /\ UNCHANGED <<task, used, recorded, deadlineElapsed, tokens>>

\* The next automatic resume the task has booked falls due.
AutoResumeFallsDue ==
    /\ task.autoResume = "scheduled"
    /\ task' = [task EXCEPT !.autoResume = "due"]
    /\ UNCHANGED <<unit, used, recorded, deadlineElapsed, tokens>>

-----------------------------------------------------------------------------
\* Task-level calls

Start ==
    /\ ~deadlineElapsed /\ ~task.cancelRequested
    /\ task.status = "pending"
    /\ task' = [task EXCEPT !.status = "running"]
    /\ UNCHANGED <<unit, used, recorded, deadlineElapsed, tokens>>

\* start, a claim or expire_deadline finds the deadline behind it.
ObserveDeadline ==
    /\ deadlineElapsed
    /\ ExpireTask

\* A claim finds the usage at the limit.
ClaimOverBudget ==
    /\ ~deadlineElapsed
    /\ used >= BudgetLimit
    /\ task' = BudgetTask
    /\ unit' = BudgetRows
    /\ UNCHANGED <<used, recorded, deadlineElapsed, tokens>>

RecordUsage(r, n) ==
    /\ r \notin recorded
    /\ recorded' = recorded \union {r}
    /\ used' = used + n
    /\ IF used + n > BudgetLimit
       THEN task' = BudgetTask /\ unit' = BudgetRows
       ELSE UNCHANGED <<task, unit>>
    /\ UNCHANGED <<deadlineElapsed, tokens>>

RequestCancel ==
    /\ task.status \notin Terminal
    /\ ~task.cancelRequested
    /\ task' = [task EXCEPT !.cancelRequested = TRUE]
    /\ UNCHANGED <<unit, used, recorded, deadlineElapsed, tokens>>

\* Any of start, bind, progress, complete, settle, expand, interrupt, pause,
\* resume, finalize and restart recovery finds the request and serves it.
ObserveCancel ==
    /\ task.cancelRequested
    /\ CancelTask

Cancel ==
    /\ task.status \notin Terminal
    /\ CancelTask

Pause(scope) ==
    /\ ~task.cancelRequested
    /\ task.status \in {"pending", "running"}
    /\ GrantsLeft(With(unit, InFlight), 1)
    /\ IF scope = "system"
       THEN PauseBySystem
       ELSE task' = [task EXCEPT !.status = "paused", !.reason = scope]
    /\ unit' = Requeue(unit, With(unit, InFlight), 1)
    /\ UNCHANGED <<used, recorded, deadlineElapsed, tokens>>

\* Slip: every resume starts a fresh ledger.
ClearReasonAlways(t, source) ==
    [t EXCEPT !.reason = "none", !.autoResume = "none", !.autoAttempt = 0, !.autoWaited = 0]

\* _clear_task_state_reason; an automatic resume keeps its ledger.
ClearReason(t, source) ==
    IF source = "automatic"
    THEN [t EXCEPT !.reason = "none", !.autoResume = "none"]
    ELSE [t EXCEPT !.reason = "none", !.autoResume = "none",
                   !.autoAttempt = 0, !.autoWaited = 0]

\* A blocked unit gets one further attempt and a fresh retry ledger.
ResumedRows ==
    LET rows == Requeue(unit, With(unit, {"blocked"}), 1) IN
    [u \in Unit |-> IF unit[u].status = "blocked"
                    THEN [rows[u] EXCEPT !.backoff = FALSE, !.waited = 0]
                    ELSE rows[u]]

ResumePaused(source) ==
    /\ ~task.cancelRequested
    /\ task.status = "paused"
    /\ GrantsLeft(With(unit, {"blocked"}), 1)
    /\ task' = [ClearReason(task, source) EXCEPT !.status = "running"]
    /\ unit' = ResumedRows
    /\ UNCHANGED <<used, recorded, deadlineElapsed, tokens>>

\* Slip: a retry also puts the finished units back.
RetryEverything(extra, source) ==
    /\ ~task.cancelRequested /\ task.status = "failed"
    /\ LET back == With(unit, {"completed", "failed", "canceled"} \union InFlight) IN
       GrantsLeft(back, extra) /\ unit' = Requeue(unit, back, extra)
    /\ task' = [ClearReason(task, source) EXCEPT !.status = "running", !.failed = 0]
    /\ UNCHANGED <<used, recorded, deadlineElapsed, tokens>>

\* resume(additional_attempts > 0) on a failed task
RetryFailed(extra, source) ==
    /\ ~task.cancelRequested
    /\ task.status = "failed"
    /\ LET back == With(unit, {"failed", "canceled"} \union InFlight) IN
       /\ GrantsLeft(back, extra)
       /\ unit' = Requeue(unit, back, extra)
    /\ task' = [ClearReason(task, source) EXCEPT !.status = "running", !.failed = 0]
    /\ UNCHANGED <<used, recorded, deadlineElapsed, tokens>>

\* fail: a permanent host failure closes everything that is open.
Fail ==
    /\ task.status \notin Terminal
    /\ \E named \in SUBSET (RequiredUnits(unit) \intersect With(unit, Waiting)) :
       /\ IF RequiredUnits(unit) \intersect With(unit, InFlight) # {}
             \/ RequiredUnits(unit) \intersect With(unit, Waiting) = {}
          THEN named = {}
          ELSE Cardinality(named) = 1
       /\ LET rows == Settle(Settle(unit, With(unit, InFlight) \union named, "failed"),
                             With(unit, Waiting) \ named, "canceled")
          IN /\ unit' = rows
             /\ task' = [Refresh(task, rows) EXCEPT !.status = "failed"]
    /\ UNCHANGED <<used, recorded, deadlineElapsed, tokens>>

FinalizeIfComplete ==
    LET required(status) == RequiredUnits(unit) \intersect With(unit, status)
        target == IF required({"failed"}) # {} THEN "failed"
                  ELSE IF Cardinality(required({"completed"})) = task.total THEN "completed"
                  ELSE IF required({"blocked"}) # {} /\ required(InFlight) = {} THEN "paused"
                  ELSE "running"
    IN /\ ~task.cancelRequested
       /\ task.status = "running"
       /\ target # "running"
       /\ task' = [task EXCEPT !.status = target]
       /\ UNCHANGED <<unit, used, recorded, deadlineElapsed, tokens>>

\* recover_after_restart: nobody holds a live lease on a running task.
RecoverAfterRestart ==
    /\ task.status = "running"
    /\ \A u \in With(unit, InFlight) : unit[u].lease # "live"
    /\ ~task.cancelRequested
    /\ GrantsLeft(With(unit, InFlight), 1)
    /\ unit' = Requeue(unit, With(unit, InFlight), 1)
    /\ PauseBySystem
    /\ UNCHANGED <<used, recorded, deadlineElapsed, tokens>>

-----------------------------------------------------------------------------
\* Claiming a unit

\* A claim first fails the units whose lease ran out on their last attempt.
Exhausted ==
    {u \in With(unit, InFlight) :
        unit[u].lease # "live" /\ unit[u].attempt >= unit[u].maxAttempts}

RowsAtClaim == Settle(unit, Exhausted, "failed")

\* Slip: a claim does not look at the budget.
ClaimUnmetered ==
    /\ ~deadlineElapsed
    /\ task.status = "running" /\ ~task.cancelRequested
    /\ Cardinality({u \in With(unit, InFlight) : unit[u].lease = "live"}) < MaxParallelism

\* What every claim asks before it looks for a unit.
ClaimAdmitted ==
    /\ ~deadlineElapsed /\ used < BudgetLimit
    /\ task.status = "running" /\ ~task.cancelRequested
    /\ Cardinality({u \in With(unit, InFlight) : unit[u].lease = "live"}) < MaxParallelism

\* Slip: dependencies are not asked for.
ReadyAnyOrder(rows) ==
    {u \in Unit :
        /\ rows[u].attempt < rows[u].maxAttempts
        /\ \/ rows[u].status = "pending"
           \/ rows[u].status = "waiting_retry" /\ ~rows[u].backoff
           \/ rows[u].status \in InFlight /\ rows[u].lease # "live"}

\* The candidate query; ORDER BY position is left open, so any ready unit
\* may be the one granted (claim_unit names its unit anyway).
Ready(rows) ==
    {u \in Unit :
        /\ rows[u].attempt < rows[u].maxAttempts
        /\ \/ rows[u].status = "pending"
           \/ rows[u].status = "waiting_retry" /\ ~rows[u].backoff
           \/ rows[u].status \in InFlight /\ rows[u].lease # "live"
        /\ \A d \in rows[u].deps : rows[d].status = "completed"}

ClaimedRow(row, w) ==
    [row EXCEPT !.status = "claimed", !.attempt = @ + 1, !.worker = w, !.lease = "live",
                !.epoch = @ + 1, !.settledBy = NULL, !.run = NULL, !.backoff = FALSE]

ClaimUnit(w, u) ==
    /\ ClaimAdmitted
    /\ Exhausted \intersect RequiredUnits(unit) = {}
    /\ u \in Ready(RowsAtClaim)
    /\ unit[u].epoch < MaxEpoch
    /\ unit' = [RowsAtClaim EXCEPT ![u] = ClaimedRow(RowsAtClaim[u], w)]
    /\ tokens' = tokens \union {[worker |-> w, unit |-> u, epoch |-> unit[u].epoch + 1]}
    /\ UNCHANGED <<task, used, recorded, deadlineElapsed>>

\* Only optional units ran out of attempts and no unit is granted.
ClaimNothing ==
    /\ ClaimAdmitted
    /\ Exhausted # {} /\ Exhausted \intersect RequiredUnits(unit) = {}
    /\ unit' = RowsAtClaim
    /\ UNCHANGED <<task, used, recorded, deadlineElapsed, tokens>>

\* A required unit ran out of attempts: the claim fails the whole task.  A
\* running task has no other failed required unit (FailedUnitFailsTask).
ClaimAfterExhaustion ==
    /\ ClaimAdmitted
    /\ Exhausted \intersect RequiredUnits(unit) # {}
    /\ LET rows == Settle(RowsAtClaim, With(RowsAtClaim, Open), "canceled")
       IN /\ unit' = rows
          /\ task' = [Refresh(task, rows) EXCEPT !.status = "failed"]
    /\ UNCHANGED <<used, recorded, deadlineElapsed, tokens>>

-----------------------------------------------------------------------------
\* Calls a worker makes with the lease it was granted

\* bind_unit_run: the attempt becomes visible as running under its Run.
BindUnitRun(tk, r) ==
    /\ WorkerCall(tk)
    /\ unit[tk.unit].run = NULL
    /\ \A v \in Unit \ {tk.unit} : unit[v].run # r
    /\ unit' = [unit EXCEPT ![tk.unit].status = "running", ![tk.unit].run = r]
    /\ UNCHANGED <<task, used, recorded, deadlineElapsed, tokens>>

\* renew_unit_lease does not look at a pending cancellation.
RenewUnitLease(tk) ==
    /\ HoldsLease(tk)
    /\ unit' = [unit EXCEPT ![tk.unit].lease = "live"]
    /\ UNCHANGED <<task, used, recorded, deadlineElapsed, tokens>>

\* The unit row of a result delivered under tk.
CompletedRow(row, tk, r) ==
    [row EXCEPT !.status = "completed", !.worker = NULL, !.lease = "none",
                !.settledBy = tk.worker, !.output = tk.epoch,
                !.run = IF r = NULL THEN @ ELSE r]

\* The result may name a Run: the bound one, or a fresh one if none is bound.
CompleteUnit(tk, r) ==
    /\ WorkerCall(tk)
    /\ r \in {NULL, unit[tk.unit].run} \/ unit[tk.unit].run = NULL
    /\ r # NULL => \A v \in Unit \ {tk.unit} : unit[v].run # r
    /\ LET rows == [unit EXCEPT ![tk.unit] = CompletedRow(@, tk, r)]
       IN /\ unit' = rows
          /\ task' = Refresh(task, rows)
    /\ UNCHANGED <<used, recorded, deadlineElapsed, tokens>>

\* The unit row of a failure that waits for its next attempt.
WaitingRow(row, delay, grant) ==
    [row EXCEPT !.status = "waiting_retry", !.worker = NULL, !.lease = "none",
                !.backoff = TRUE, !.waited = @ + delay, !.maxAttempts = @ + grant]

\* resume_checkpoint on the last attempt grants one more.
Grant(row, disposition) ==
    IF disposition = "resume_checkpoint" /\ row.attempt >= row.maxAttempts THEN 1 ELSE 0

\* retry_attempt and resume_checkpoint, within the wait budget; decide_failure
\* retries only while attempts remain.
SettleRetry(tk, disposition) ==
    /\ WorkerCall(tk)
    /\ LET row   == unit[tk.unit]
           grant == Grant(row, disposition)
       IN /\ disposition = "retry_attempt" => row.attempt < row.maxAttempts
          /\ GrantsLeft({tk.unit}, grant)
          /\ \E delay \in Backoff(row.attempt) :
             /\ row.waited + delay <= WaitBudget
             /\ unit' = [unit EXCEPT ![tk.unit] = WaitingRow(@, delay, grant)]
    /\ UNCHANGED <<task, used, recorded, deadlineElapsed, tokens>>

\* The unit row of a failure that ends in 'blocked'.
BlockedRow(row, waited, grant) ==
    [row EXCEPT !.status = "blocked", !.worker = NULL, !.lease = "none",
                !.backoff = FALSE, !.waited = waited, !.maxAttempts = @ + grant]

\* pause_recoverable, or a retry beyond the wait budget; only a systemic
\* failure pauses the task at once and gives its siblings back.
SettleBlocked(tk, disposition, systemic) ==
    /\ WorkerCall(tk)
    /\ LET row     == unit[tk.unit]
           retry   == disposition \in {"retry_attempt", "resume_checkpoint"}
           grant   == Grant(row, disposition)
           rows    == [unit EXCEPT ![tk.unit] =
                          BlockedRow(@, IF retry THEN @.waited ELSE 0, grant)]
           sibling == With(unit, InFlight) \ {tk.unit}
       IN /\ disposition = "retry_attempt" => row.attempt < row.maxAttempts
          /\ retry => \E delay \in Backoff(row.attempt) : row.waited + delay > WaitBudget
          /\ GrantsLeft({tk.unit}, grant)
          /\ IF systemic
             THEN /\ GrantsLeft(sibling, 1)
                  /\ unit' = Requeue(rows, sibling, 1)
                  /\ PauseBySystem
             ELSE unit' = rows /\ UNCHANGED task
    /\ UNCHANGED <<used, recorded, deadlineElapsed, tokens>>

\* The rows after a failure that ends the unit's turn without a retry.
RowsEnded(tk, status) ==
    [Settle(unit, {tk.unit}, status)
        EXCEPT ![tk.unit] = [@ EXCEPT !.waited = 0, !.backoff = FALSE]]

\* split_part leaves the unit for somebody to split.
SettleNeedsSplit(tk) ==
    /\ WorkerCall(tk)
    /\ unit' = RowsEnded(tk, "needs_split")
    /\ UNCHANGED <<task, used, recorded, deadlineElapsed, tokens>>

\* The cancel disposition cancels the task and leaves the siblings alone.
SettleCanceled(tk) ==
    /\ WorkerCall(tk)
    /\ unit' = RowsEnded(tk, "canceled")
    /\ task' = CanceledTask(task)
    /\ UNCHANGED <<used, recorded, deadlineElapsed, tokens>>

\* Slip: the siblings keep working.
SettleFailedAlone(tk) ==
    /\ WorkerCall(tk)
    /\ unit' = RowsEnded(tk, "failed")
    /\ task' = [task EXCEPT !.status = "failed", !.failed = @ + 1]
    /\ UNCHANGED <<used, recorded, deadlineElapsed, tokens>>

\* fail_permanent: the task fails, its pending and in-flight siblings close.
SettleFailed(tk) ==
    /\ WorkerCall(tk)
    /\ unit' = Settle(RowsEnded(tk, "failed"),
                      With(unit, InFlight \union {"pending"}) \ {tk.unit}, "canceled")
    /\ task' = [task EXCEPT !.status = "failed", !.failed = @ + 1]
    /\ UNCHANGED <<used, recorded, deadlineElapsed, tokens>>

SettleUnitFailure(tk) ==
    \/ \E d \in Dispositions \intersect {"retry_attempt", "resume_checkpoint"} :
          SettleRetry(tk, d)
    \/ \E d \in Dispositions \intersect {"retry_attempt", "resume_checkpoint", "pause_recoverable"} :
          \E systemic \in BOOLEAN : SettleBlocked(tk, d, systemic)
    \/ "split_part" \in Dispositions /\ SettleNeedsSplit(tk)
    \/ "cancel" \in Dispositions /\ SettleCanceled(tk)
    \/ "fail_permanent" \in Dispositions /\ SettleFailed(tk)

\* expand_unit: fresh children inherit the parent's dependencies, and who
\* depended on the parent now depends on the replacement units.
Acyclic(rows) ==
    \A S \in SUBSET Unit : S # {} => \E u \in S : rows[u].deps \intersect S = {}

ExpandedRows(u, children, deps, needed, replacement) ==
    [v \in Unit |->
        IF v = u THEN [unit[v] EXCEPT !.status = "expanded", !.required = FALSE,
                                      !.worker = NULL, !.lease = "none",
                                      !.settledBy = unit[u].worker]
        ELSE IF v \in children
        THEN [InitialRow(v) EXCEPT !.status = "pending", !.required = v \in needed,
                                   !.deps = unit[u].deps \union deps[v]]
        ELSE IF u \in unit[v].deps
        THEN [unit[v] EXCEPT !.deps = (@ \ {u}) \union replacement]
        ELSE unit[v]]

ExpandUnit(tk, children, deps, needed, replacement) ==
    LET u    == tk.unit
        rows == ExpandedRows(u, children, deps, needed, replacement)
    IN /\ WorkerCall(tk)
       /\ children # {} /\ children \subseteq With(unit, {"absent"})
       /\ replacement = {} => \A v \in Unit : u \notin unit[v].deps
       /\ Acyclic(rows)
       /\ unit' = rows
       /\ task' = Refresh(task, rows)
       /\ UNCHANGED <<used, recorded, deadlineElapsed, tokens>>

\* A split names new children, what each waits for, and the replacement.
SplitUnit(tk) ==
    \E children \in SUBSET With(unit, {"absent"}) :
    LET known == ((Unit \ With(unit, {"absent"})) \union children) \ {tk.unit} IN
    \E deps \in [children -> SUBSET known] :
    \E needed, replacement \in SUBSET children :
        ExpandUnit(tk, children, deps, needed, replacement)

\* interrupt_unit checkpoints one unit and pauses the task around it.
InterruptUnit(tk) ==
    /\ WorkerCall(tk)
    /\ GrantsLeft({tk.unit}, 1)
    /\ unit' = Requeue(unit, {tk.unit}, 1)
    /\ task' = [task EXCEPT !.status = "paused"]
    /\ UNCHANGED <<used, recorded, deadlineElapsed, tokens>>

-----------------------------------------------------------------------------
Tick ==
    \/ DeadlineElapses \/ AutoResumeFallsDue
    \/ \E u \in Unit : LeaseExpires(u) \/ BackoffElapses(u)

TaskCall ==
    \/ Start \/ ObserveDeadline \/ ClaimOverBudget
    \/ \E r \in Run, n \in UsageSizes : RecordUsage(r, n)
    \/ RequestCancel \/ ObserveCancel \/ Cancel
    \/ Fail \/ FinalizeIfComplete \/ RecoverAfterRestart

PauseOrResume ==
    \/ \E scope \in {"user", "system"} : Pause(scope)
    \/ \E source \in {"user", "automatic"} :
          ResumePaused(source) \/ (\E extra \in 1 .. MaxGrants : RetryFailed(extra, source))

ClaimCall ==
    \/ \E w \in Worker, u \in Unit : ClaimUnit(w, u)
    \/ ClaimNothing
    \/ ClaimAfterExhaustion

UnitCall ==
    \E tk \in tokens :
        \/ \E r \in Run : BindUnitRun(tk, r)
        \/ RenewUnitLease(tk)
        \/ \E r \in Run \union {NULL} : CompleteUnit(tk, r)
        \/ SettleUnitFailure(tk)
        \/ SplitUnit(tk)
        \/ InterruptUnit(tk)

Next == Tick \/ TaskCall \/ PauseOrResume \/ ClaimCall \/ UnitCall

Spec == Init /\ [][Next]_vars

-----------------------------------------------------------------------------
\* Safety

\* A unit in flight carries the latest lease granted for it, and the output of
\* a completed unit came from the latest lease: a worker whose lease was taken
\* over can neither settle the unit nor slip in a stale result.
LatestLeaseSettles ==
    \A u \in Unit :
        /\ \A tk \in tokens : tk.unit = u => tk.epoch <= unit[u].epoch
        /\ unit[u].status \in InFlight =>
              [worker |-> unit[u].worker, unit |-> u, epoch |-> unit[u].epoch] \in tokens
        /\ unit[u].status = "completed" =>
              /\ unit[u].output = unit[u].epoch
              /\ [worker |-> unit[u].settledBy, unit |-> u, epoch |-> unit[u].epoch] \in tokens

\* Work starts only on finished inputs, also after splits rewrote the DAG.
DependenciesFirst ==
    \A u \in With(unit, InFlight \union {"completed"}) :
        \A d \in unit[u].deps : unit[d].status = "completed"

\* The stored counters finalize_if_complete compares agree with the rows, and
\* a completed task owes nothing and was not asked to cancel.
CompletionIsEarned ==
    /\ task.total = Cardinality(RequiredUnits(unit))
    /\ task.done = Cardinality(RequiredUnits(unit) \intersect With(unit, {"completed"}))
    /\ task.status = "completed" =>
          /\ ~task.cancelRequested
          /\ \A u \in RequiredUnits(unit) : unit[u].status = "completed"

\* A running task has no failed required unit, and no UI or recovery worker
\* sees a failed task with a claimed or running unit.
FailedUnitFailsTask ==
    /\ task.status = "running" =>
          \A u \in RequiredUnits(unit) : unit[u].status # "failed"
    /\ task.status = "failed" => With(unit, InFlight) = {}

\* Once the recorded usage exceeds the budget no unit is in anybody's hands,
\* whatever is resumed or retried afterwards.
OverBudgetStopsWork == used > BudgetLimit => With(unit, InFlight) = {}

\* A running task that owes work can move: a unit is in flight, can be claimed or
\* waits out its backoff; or a unit is blocked or waits for a split, or depends on
\* one that failed, was canceled or was split, and somebody outside has to decide.
SomebodyCanMove ==
    task.status = "running" /\ (\E u \in RequiredUnits(unit) : unit[u].status # "completed") =>
        \/ With(unit, InFlight \union {"blocked", "needs_split"}) # {}
        \/ Ready(unit) # {}
        \/ \E u \in With(unit, {"waiting_retry"}) : unit[u].backoff
        \/ \E u \in With(unit, {"pending", "waiting_retry"}) :
              \E d \in unit[u].deps : unit[d].status \in {"failed", "canceled", "expanded"}

\* A completed unit keeps its result for good: no retry, resume, failure or
\* late call of an earlier lease holder touches it.
CompletedUnitIsFinal ==
    [][\A u \in Unit : unit[u].status = "completed" =>
          unit'[u].status = "completed" /\ unit'[u].output = unit[u].output]_vars

WorkOnlyWhenAllowed ==
    deadlineElapsed \/ task.cancelRequested \/ task.status # "running" =>
        \A u \in Unit : /\ unit'[u].epoch = unit[u].epoch
                         /\ unit'[u].status = "completed" => unit[u].status = "completed"

\* Nothing is claimed or completed once cancellation was requested, after the
\* deadline, or while the task is not running.
NoWorkWhenStopped == [][WorkOnlyWhenAllowed]_vars

-----------------------------------------------------------------------------
\* Refinement: a unit is held by the worker whose lease on it is live.

Ledger == INSTANCE WorkLedger WITH
    Nobody <- NULL,
    Limit  <- MaxParallelism,
    phase  <- IF task.status \in {"pending", "paused"} THEN "idle"
              ELSE IF task.status = "running" THEN "open" ELSE task.status,
    need   <- RequiredUnits(unit),
    done   <- With(unit, {"completed"}),
    holder <- [u \in Unit |-> IF unit[u].status \in InFlight /\ unit[u].lease = "live"
                              THEN unit[u].worker ELSE NULL]

\* The task implements the ledger of held, needed and finished work.
LedgerSpec == Ledger!Spec
=============================================================================
