---------------------------- MODULE ScreenplayTurn ----------------------------
(***************************************************************************)
(* One formal Turn of the screenplay agent, its Operation, its long task   *)
(* and the Root Runs that execute it, one after another:                   *)
(* agents/screenplay/conversation_projection.py, conversation_service.py   *)
(* and recovery_service.py.                                                *)
(*                                                                         *)
(* A dispatch is a background task of a backend: it validates, claims the  *)
(* Turn, and begins a Run in one transaction with the Turn and Operation.  *)
(* A first dispatch claims under an id of its own, a resumed one under the *)
(* id of its process and under a reservation that is taken over once its   *)
(* lease has lapsed.  Two backends may share the database for a while; each*)
(* action is one transaction, or one read a later transaction relies on.   *)
(***************************************************************************)
EXTENDS Naturals, FiniteSets

CONSTANTS
    Process,     \* execution owner ids, one per started backend
    Worker,      \* background tasks; the id a first dispatch claims under
    Run,         \* ids of Root Runs; BOUND on how many there are
    Command,     \* idempotency keys of resume requests
    Cancel,      \* idempotency keys of cancel requests
    NULL,        \* SQL NULL
    MaxAttempt,  \* BOUND on turn.attempt
    MaxEpoch     \* BOUND on continuation_epoch

ASSUME IdAssumption ==
    /\ NULL \notin Process \union Worker \union Run \union Command
    /\ Process \intersect Worker = {}

ASSUME BoundAssumption == MaxAttempt \in Nat /\ MaxEpoch \in Nat

VARIABLES
    turn,       \* the row of screenplay_agent_turns
    operation,  \* the row of screenplay_agent_operations
    task,       \* the row of ai_agent_long_tasks
    run,        \* the rows of ai_agent_runs
    resume,     \* the resume rows of screenplay_agent_operation_commands
    canceled,   \* the keys in screenplay_agent_cancel_commands
    worker,     \* where each background task stands, and what it has read
    backend     \* where each backend stands, and what its startup has read

rows == <<turn, operation, task, run, resume, canceled>>
vars == <<rows, worker, backend>>

Lease == {"none", "live", "lapsed"}
Settled == {"completed", "failed", "canceled"}
OperationStatus == {"none", "queued", "running", "paused", "succeeded", "failed", "canceled"}
Open == {"running", "paused"}

Turn == [status: Settled \union {"none", "queued", "planning", "running", "paused"},
         root: Run \union {NULL}, attempt: Nat, owner: Process \union Worker \union {NULL},
         lease: Lease, fence: BOOLEAN]

Operation == [status: OperationStatus, revision: Nat, fence: BOOLEAN]

Task == [status: Open \union {"none", "completed", "failed", "canceled"}, fence: BOOLEAN]

RunRow == [status: {"none", "running", "done", "failed", "canceled"},
           owner: Process \union {NULL}, lease: Lease, fence: BOOLEAN,
           source: Run \union {NULL}, command: Command \union {NULL}]

Reservation == [status: (OperationStatus \ {"queued", "running"}) \union {"starting", "reserved", "bound"},
                owner: Process \union {NULL}, lease: Lease, epoch: Nat,
                source: Run \union {NULL}, revision: Nat, root: Run \union {NULL}]

Point == {"idle", "reserve", "validate", "claim", "resume", "begin", "failed", "pause", "unclaim", "release"}

Dispatch == [at: Point, process: Process \union {NULL}, command: Command \union {NULL},
             epoch: Nat, attempt: Nat]

\* A backend that starts: its checkpoint, then the three steps of the recovery
\* of stale admissions, which carry along the status of the Operation and the
\* claim they read, named by its attempt.
Backend == [at: {"new", "select", "pause", "update", "up", "dead"},
            seen: OperationStatus, claim: Nat]

TypeOK ==
    /\ turn \in Turn
    /\ operation \in Operation
    /\ task \in Task
    /\ run \in [Run -> RunRow]
    /\ resume \in [Command -> Reservation]
    /\ canceled \subseteq Cancel
    /\ worker \in [Worker -> Dispatch]
    /\ backend \in [Process -> Backend]

NoRun == [status |-> "none", owner |-> NULL, lease |-> "none", fence |-> FALSE,
          source |-> NULL, command |-> NULL]
NoReservation == [status |-> "none", owner |-> NULL, lease |-> "none", epoch |-> 0,
                  source |-> NULL, revision |-> 0, root |-> NULL]
Idle == [at |-> "idle", process |-> NULL, command |-> NULL, epoch |-> 0, attempt |-> 0]

Init ==
    /\ turn = [status |-> "none", root |-> NULL, attempt |-> 0, owner |-> NULL,
               lease |-> "none", fence |-> FALSE]
    /\ operation = [status |-> "none", revision |-> 1, fence |-> FALSE]
    /\ task = [status |-> "none", fence |-> FALSE]
    /\ run = [r \in Run |-> NoRun]
    /\ resume = [k \in Command |-> NoReservation]
    /\ canceled = {}
    /\ worker = [w \in Worker |-> Idle]
    /\ backend = [p \in Process |-> [at |-> "new", seen |-> "none", claim |-> 0]]

Up(p) == backend[p].at = "up"
Goes(w, point) == worker' = [worker EXCEPT ![w].at = point]
Ends(w) == worker' = [worker EXCEPT ![w] = Idle]

-----------------------------------------------------------------------------
\* What several transactions do to the rows

\* The Turn in another status, its claim given up.
TurnIs(status) == [turn EXCEPT !.status = status, !.owner = NULL, !.lease = "none"]

\* The Operation in another status; every such write counts its revision.
OperationIs(status) == [operation EXCEPT !.status = status, !.revision = @ + 1]

OperationFenced ==
    [operation EXCEPT !.fence = TRUE, !.revision = IF operation.fence THEN @ ELSE @ + 1]

TaskFenced == IF task.status \in Open THEN [task EXCEPT !.fence = TRUE] ELSE task

\* pause() and resume() of the long task end one that is to be canceled.
PausedTask == [task EXCEPT !.status = IF task.fence THEN "canceled" ELSE "paused"]
ResumedTask ==
    [task EXCEPT !.status = IF task.fence THEN "canceled"
                            ELSE IF @ = "paused" THEN "running" ELSE @]

\* _settle_terminal: what a Turn becomes when its Run ends without success.
Outcome(status, taskStatus) ==
    CASE taskStatus = "paused" -> "paused"
      [] taskStatus # "paused" /\ status = "canceled" /\ turn.fence -> "canceled"
      [] OTHER -> "failed"

\* commit_run_lifecycle with the projector of the product: the Run, the Turn,
\* the Operation and the receipt of the resume request in one transaction.
\* _complete wants a completed task.
Commits(r, status, taskStatus) ==
    LET o == IF status = "done" THEN "succeeded" ELSE Outcome(status, taskStatus)
        k == run[r].command IN
    /\ status = "done" => taskStatus = "completed"
    /\ turn.root = r /\ turn.status = "running" /\ operation.status = "running"
    /\ k # NULL => resume[k].status = "bound" /\ resume[k].root = r
    /\ run' = [run EXCEPT ![r].status = status, ![r].owner = NULL, ![r].lease = "none"]
    /\ turn' = [turn EXCEPT !.status = IF status = "done" THEN "completed" ELSE o]
    /\ operation' = OperationIs(o)
    /\ resume' = IF k = NULL THEN resume
                 ELSE [resume EXCEPT ![k].status = o, ![k].owner = NULL]

-----------------------------------------------------------------------------
\* Admission and the first dispatch

\* admit: the request that brings the Turn.
Admit ==
    /\ \E p \in Process : Up(p)
    /\ turn.status = "none"
    /\ turn' = TurnIs("queued")
    /\ operation' = [operation EXCEPT !.status = "queued"]
    /\ UNCHANGED <<task, run, resume, canceled, worker, backend>>

\* The request and every repeat of it dispatch the Turn; validate wants it queued.
DispatchTurn(p, w) ==
    /\ Up(p) /\ worker[w].at = "idle" /\ turn.owner # w
    /\ turn.status = "queued" /\ turn.attempt < MaxAttempt
    /\ worker' = [worker EXCEPT ![w] =
          [Idle EXCEPT !.at = "claim", !.process = p, !.attempt = turn.attempt + 1]]
    /\ UNCHANGED <<rows, backend>>

First(w) == worker[w].command = NULL

\* The id a claim is made under.
Claimant(w) == IF First(w) THEN w ELSE worker[w].process

ClaimedBy(w) ==
    turn' = [turn EXCEPT !.status = "planning", !.owner = Claimant(w), !.lease = "live",
                         !.attempt = worker[w].attempt]

\* ScreenplayReplacementTurnLifecycle.before_submit
CanClaimTurn(w) ==
    /\ turn.status = "queued" /\ turn.attempt + 1 = worker[w].attempt
    /\ ~turn.fence

ClaimTurn(w) ==
    /\ worker[w].at = "claim" /\ First(w)
    /\ \/ CanClaimTurn(w) /\ ClaimedBy(w) /\ Goes(w, "begin")
       \/ ~CanClaimTurn(w) /\ Goes(w, "failed") /\ UNCHANGED turn
    /\ UNCHANGED <<operation, task, run, resume, canceled, backend>>

\* The conditional updates of the begin projector on the Turn.
HoldsClaim(w) ==
    /\ turn.status = "planning" /\ turn.owner = Claimant(w)
    /\ turn.attempt = worker[w].attempt
    /\ turn.lease = "live" /\ ~turn.fence

Begun(w, r, source) ==
    /\ run[r].status = "none"
    /\ run' = [run EXCEPT ![r] = [NoRun EXCEPT !.status = "running", !.owner = worker[w].process,
                  !.lease = "live", !.source = source, !.command = worker[w].command]]
    /\ turn' = [TurnIs("running") EXCEPT !.root = r]
    /\ operation' = OperationIs("running")

\* ScreenplayReplacementRunBeginProjector.project
CanBegin(w) == HoldsClaim(w) /\ turn.root = NULL /\ operation.status = "queued"

BeginRun(w) ==
    /\ worker[w].at = "begin" /\ First(w)
    /\ \/ CanBegin(w) /\ (\E r \in Run : Begun(w, r, NULL)) /\ Ends(w)
       \/ ~CanBegin(w) /\ Goes(w, "failed") /\ UNCHANGED <<turn, operation, run>>
    /\ UNCHANGED <<task, resume, canceled, backend>>

\* Slip: the Turn is failed whoever holds it.
FailsAnyTurn(w) == turn.status \in {"queued", "planning"}

\* ScreenplayReplacementTurnLifecycle.on_start_failed
FailsTurn(w) ==
    \/ turn.status = "queued" /\ turn.attempt + 1 = worker[w].attempt
    \/ turn.status = "planning" /\ turn.owner = w /\ turn.attempt = worker[w].attempt

StartFailed(w) ==
    /\ worker[w].at = "failed" /\ First(w)
    /\ IF FailsTurn(w)
       THEN /\ turn' = TurnIs("failed")
            /\ operation' = IF operation.status = "queued" THEN OperationIs("failed") ELSE operation
       ELSE UNCHANGED <<turn, operation>>
    /\ Ends(w)
    /\ UNCHANGED <<task, run, resume, canceled, backend>>

-----------------------------------------------------------------------------
\* Resuming a paused Operation

\* _require_resume_scope
InScope(revision, source) ==
    /\ operation.status = "paused" /\ operation.revision = revision /\ ~operation.fence
    /\ turn.status = "paused" /\ turn.root = source /\ ~turn.fence
    /\ source # NULL /\ run[source].status = "canceled"

\* A reservation that may be taken over by a repeat of its request.
CanTakeOver(k) ==
    \/ resume[k].status = "reserved"
    \/ resume[k].status = "starting" /\ resume[k].lease = "lapsed"

\* Another request with the same digest.
Equivalent(k) ==
    \E j \in Command \ {k} :
        resume[j].status # "none" /\ resume[j].revision = operation.revision

\* reserve_resume, where it asks for a dispatch
Reserve(k, p) ==
    \/ /\ resume[k].status = "none" /\ ~Equivalent(k)
       /\ InScope(operation.revision, turn.root)
       /\ resume' = [resume EXCEPT ![k] =
              [NoReservation EXCEPT !.status = "starting", !.owner = p, !.lease = "live",
                  !.epoch = 1, !.source = turn.root, !.revision = operation.revision]]
    \/ /\ CanTakeOver(k) /\ resume[k].epoch < MaxEpoch
       /\ InScope(resume[k].revision, resume[k].source)
       /\ resume' = [resume EXCEPT ![k].status = "starting", ![k].owner = p,
                                   ![k].lease = "live", ![k].epoch = @ + 1]

\* prepare_resume, and dispatch_resumed_operation.
DispatchResume(p, w, k) ==
    /\ Up(p) /\ worker[w].at = "idle" /\ turn.owner # w
    /\ Reserve(k, p)
    /\ worker' = [worker EXCEPT ![w] = [Idle EXCEPT !.at = "reserve", !.process = p, !.command = k]]
    /\ UNCHANGED <<turn, operation, task, run, canceled, backend>>

\* resume_reserved reserves again; what is in the way ends the task silently.
ReserveAgain(w) ==
    LET k == worker[w].command
        p == worker[w].process IN
    /\ worker[w].at = "reserve"
    /\ \/ Reserve(k, p) /\ Goes(w, "validate")
       \/ /\ ~CanTakeOver(k) /\ UNCHANGED resume
          /\ IF resume[k].status = "starting" /\ resume[k].owner = p
             THEN Goes(w, "validate") ELSE Ends(w)
       \/ /\ CanTakeOver(k) /\ ~InScope(resume[k].revision, resume[k].source)
          /\ Ends(w) /\ UNCHANGED resume
    /\ UNCHANGED <<turn, operation, task, run, canceled, backend>>

\* ScreenplayReplacementContinuationLifecycle.validate
IsValid(k) ==
    /\ turn.status = "paused" /\ turn.root = resume[k].source /\ ~turn.fence
    /\ operation.status = "paused" /\ operation.revision = resume[k].revision /\ ~operation.fence
    /\ task.status = "paused" /\ ~task.fence

ValidateResume(w) ==
    LET k == worker[w].command IN
    /\ worker[w].at = "validate"
    /\ IF IsValid(k)
       THEN /\ turn.attempt < MaxAttempt
            /\ worker' = [worker EXCEPT ![w].at = "claim", ![w].epoch = resume[k].epoch,
                                        ![w].attempt = turn.attempt + 1]
       ELSE Goes(w, "release")
    /\ UNCHANGED <<rows, backend>>

\* before_submit of the continuation, its first transaction
CanClaimPaused(w) ==
    /\ turn.status = "paused" /\ turn.root = resume[worker[w].command].source
    /\ turn.attempt + 1 = worker[w].attempt /\ ~turn.fence

ClaimPaused(w) ==
    /\ worker[w].at = "claim" /\ ~First(w)
    /\ \/ CanClaimPaused(w) /\ ClaimedBy(w) /\ Goes(w, "resume")
       \/ ~CanClaimPaused(w) /\ Goes(w, "failed") /\ UNCHANGED turn
    /\ UNCHANGED <<operation, task, run, resume, canceled, backend>>

\* before_submit of the continuation, then: the long task is resumed.
ResumeTask(w) ==
    /\ worker[w].at = "resume"
    /\ task' = IF task.status \in Open \/ task.fence THEN ResumedTask ELSE task
    /\ Goes(w, IF task.status \in Open \/ task.fence THEN "begin" ELSE "failed")
    /\ UNCHANGED <<turn, operation, run, resume, canceled, backend>>

\* Slip: what validate saw is not looked at again.
TrustsValidation(w) == run[resume[worker[w].command].source].status = "canceled"

\* _project_continuation
CanContinue(w) ==
    LET c == resume[worker[w].command] IN
    /\ run[c.source].status = "canceled"
    /\ c.status = "starting" /\ c.owner = worker[w].process /\ c.epoch = worker[w].epoch
    /\ HoldsClaim(w) /\ turn.root = c.source
    /\ operation.status = "paused" /\ ~operation.fence

Bind(k, r) ==
    resume' = [resume EXCEPT ![k].status = "bound", ![k].root = r, ![k].lease = "none"]

ContinueRun(w) ==
    LET k == worker[w].command IN
    /\ worker[w].at = "begin" /\ ~First(w)
    /\ \/ /\ CanContinue(w)
          /\ \E r \in Run : Begun(w, r, resume[k].source) /\ Bind(k, r)
          /\ Ends(w)
       \/ ~CanContinue(w) /\ Goes(w, "failed") /\ UNCHANGED <<turn, operation, run, resume>>
    /\ UNCHANGED <<task, canceled, backend>>

\* on_start_failed of the continuation: the claim is read, the task paused, and
\* the Turn given back, in three steps.
OwnsClaim(w) ==
    /\ turn.status = "planning" /\ turn.root = resume[worker[w].command].source
    /\ turn.owner = Claimant(w) /\ turn.attempt = worker[w].attempt

ReadClaim(w) ==
    /\ worker[w].at = "failed" /\ ~First(w)
    /\ Goes(w, IF OwnsClaim(w) THEN "pause" ELSE "unclaim")
    /\ UNCHANGED <<rows, backend>>

PauseAgain(w) ==
    /\ worker[w].at = "pause"
    /\ task' = IF task.status = "running" THEN PausedTask ELSE task
    /\ Goes(w, "unclaim")
    /\ UNCHANGED <<turn, operation, run, resume, canceled, backend>>

\* Slip: the Turn is paused in whatever status it is.
GivesBackAnyTurn(w) == turn.attempt = worker[w].attempt

GivesBack(w) ==
    /\ turn.status = "planning" /\ turn.owner = Claimant(w) /\ turn.attempt = worker[w].attempt

Unclaim(w) ==
    /\ worker[w].at = "unclaim"
    /\ turn' = IF GivesBack(w) THEN TurnIs("paused") ELSE turn
    /\ Goes(w, "release")
    /\ UNCHANGED <<operation, task, run, resume, canceled, backend>>

\* release_resume_reservation
Release(w) ==
    LET k == worker[w].command IN
    /\ worker[w].at = "release"
    /\ resume' = IF resume[k].status = "starting" /\ resume[k].owner = worker[w].process
                 THEN [resume EXCEPT ![k].status = "reserved", ![k].owner = NULL, ![k].lease = "none"]
                 ELSE resume
    /\ Ends(w)
    /\ UNCHANGED <<turn, operation, task, run, canceled, backend>>

\* What is between two transactions of a dispatch fails: the model binding, the
\* Core, the database.
DispatchFails(w) ==
    /\ \/ worker[w].at = "reserve" /\ Ends(w)
       \/ worker[w].at = "validate" /\ Goes(w, "release")
       \/ worker[w].at \in {"claim", "resume", "begin"} /\ Goes(w, "failed")
    /\ UNCHANGED <<rows, backend>>

-----------------------------------------------------------------------------
\* The Run: Core executes it, the product sees its task and its end.

Executing(r) == run[r].status = "running" /\ run[r].lease = "live" /\ Up(run[r].owner)

CreateTask(r) ==
    /\ Executing(r) /\ ~run[r].fence
    /\ task.status = "none" /\ run[r].source = NULL
    /\ task' = [task EXCEPT !.status = "running"]
    /\ UNCHANGED <<turn, operation, run, resume, canceled, worker, backend>>

\* A task that is to be canceled ends canceled.
StopTask(r) ==
    /\ Executing(r) /\ task.status = "running"
    /\ \E status \in IF task.fence THEN {"canceled"} ELSE {"completed", "paused", "failed"} :
          task' = [task EXCEPT !.status = status]
    /\ UNCHANGED <<turn, operation, run, resume, canceled, worker, backend>>

\* The executor ends its Run once its task has stopped; "failed" stands for
\* blocked too.
EndRun(r) ==
    /\ Executing(r) /\ task.status # "running"
    /\ \E status \in IF run[r].fence THEN {"canceled"} ELSE {"done", "failed", "canceled"} :
          Commits(r, status, task.status)
    /\ UNCHANGED <<task, canceled, worker, backend>>

\* Orphan recovery of a Run nobody executes, in two transactions: a task that
\* can go on is paused first, unless the Run is to be canceled.
IsOrphan(r) ==
    /\ \E p \in Process : Up(p)
    /\ run[r].status = "running" /\ run[r].lease = "lapsed"

PauseOrphan(r) ==
    /\ IsOrphan(r) /\ ~run[r].fence
    /\ task.status = "running"
    /\ task' = PausedTask
    /\ UNCHANGED <<turn, operation, run, resume, canceled, worker, backend>>

\* Then the Run ends: canceled if it was to be or its task was open when the
\* recovery decided, before the pause; any other Run fails.
EndOrphan(r) ==
    /\ IsOrphan(r)
    /\ \/ /\ run[r].fence \/ task.status \in {"paused", "canceled"}
          /\ Commits(r, "canceled", task.status)
       \/ /\ ~run[r].fence /\ task.status \notin Open
          /\ Commits(r, "failed", task.status)
    /\ UNCHANGED <<task, canceled, worker, backend>>

-----------------------------------------------------------------------------
\* Cancellation

\* Slip: only the Turn is canceled.
CancelsTurnOnly ==
    /\ turn' = [TurnIs("canceled") EXCEPT !.fence = TRUE]
    /\ operation' = OperationFenced
    /\ task' = TaskFenced

\* _settle_product_cancel, after the fences are set.
CancelsProduct ==
    /\ turn' = [TurnIs("canceled") EXCEPT !.fence = TRUE]
    /\ operation' = [OperationFenced EXCEPT !.status = "canceled", !.revision = @ + 1]
    /\ task' = IF task.status \in Open THEN [task EXCEPT !.status = "canceled", !.fence = TRUE]
               ELSE task

\* request_cancel: a repeated key changes nothing, an ended Turn is left alone,
\* and a Turn without a Run to drain is canceled at once.
RequestCancel(c) ==
    /\ \E p \in Process : Up(p)
    /\ turn.status # "none" /\ c \notin canceled
    /\ canceled' = canceled \union {c}
    /\ \/ /\ turn.status \in Settled
          /\ UNCHANGED <<turn, operation, task>>
       \/ /\ turn.status \in {"queued", "planning", "paused"}
          /\ turn.root = NULL \/ turn.status = "paused"
          /\ CancelsProduct
       \/ /\ turn.status \in {"planning", "running"}
          /\ turn.root # NULL
          /\ turn' = [turn EXCEPT !.fence = TRUE]
          /\ operation' = OperationFenced
          /\ task' = TaskFenced
    /\ UNCHANGED <<run, resume, worker, backend>>

\* AgentCancellationService fences the Run, and its projector the product; the
\* Turn's own cancel asks for it, and so does the route of the Runs.
FenceRun(r) ==
    /\ \E p \in Process : Up(p)
    /\ run[r].status = "running" /\ ~run[r].fence
    /\ turn.root = r
    /\ run' = [run EXCEPT ![r].fence = TRUE]
    /\ turn' = [turn EXCEPT !.fence = TRUE]
    /\ operation' = OperationFenced
    /\ task' = TaskFenced
    /\ UNCHANGED <<resume, canceled, worker, backend>>

-----------------------------------------------------------------------------
\* Time, crashes and startup

LapseRun(r) ==
    /\ run[r].lease = "live"
    /\ run' = [run EXCEPT ![r].lease = "lapsed"]
    /\ UNCHANGED <<turn, operation, task, resume, canceled, worker, backend>>

LapseReservation(k) ==
    /\ resume[k].lease = "live"
    /\ resume' = [resume EXCEPT ![k].lease = "lapsed"]
    /\ UNCHANGED <<turn, operation, task, run, canceled, worker, backend>>

\* A reservation is made before the claim, for as long: it has lapsed by then.
LapseTurn ==
    /\ turn.lease = "live"
    /\ turn' = [turn EXCEPT !.lease = "lapsed"]
    /\ resume' = [k \in Command |->
          IF resume[k].lease = "live" THEN [resume[k] EXCEPT !.lease = "lapsed"] ELSE resume[k]]
    /\ UNCHANGED <<operation, task, run, canceled, worker, backend>>

Crash(p) ==
    /\ backend[p].at \notin {"new", "dead"}
    /\ backend' = [backend EXCEPT ![p] = [at |-> "dead", seen |-> "none", claim |-> 0]]
    /\ worker' = [w \in Worker |-> IF worker[w].process = p THEN Idle ELSE worker[w]]
    /\ UNCHANGED rows

\* recover_after_restart: a task no live Run works at is paused.
Checkpoint(p) ==
    /\ backend[p].at = "new"
    /\ backend' = [backend EXCEPT ![p].at = "select"]
    /\ task' = IF task.status = "running" /\ (\A r \in Run : run[r].lease # "live")
               THEN PausedTask ELSE task
    /\ UNCHANGED <<turn, operation, run, resume, canceled, worker>>

IsStale ==
    /\ turn.status = "planning" /\ turn.lease = "lapsed"
    /\ turn.root = NULL \/ run[turn.root].status # "running"

\* recover_stale_admissions: the read, the pause of the task, the update.
SelectStale(p) ==
    /\ backend[p].at = "select"
    /\ backend' = [backend EXCEPT ![p] =
          IF IsStale THEN [at |-> "pause", seen |-> operation.status, claim |-> turn.attempt]
          ELSE [at |-> "up", seen |-> "none", claim |-> 0]]
    /\ UNCHANGED <<rows, worker>>

PauseStale(p) ==
    /\ backend[p].at = "pause"
    /\ task' = IF task.status = "running" THEN PausedTask ELSE task
    /\ backend' = [backend EXCEPT ![p].at = "update"]
    /\ UNCHANGED <<turn, operation, run, resume, canceled, worker>>

\* Slip: the Turn that was selected is not looked at again.
IsSelected(p) == turn.status # "none"

\* The cutoff is that of the read, so a claim made since, whose lease ends after
\* it, is not met even if that lease has lapsed by now.
IsLapsed(p) ==
    /\ turn.status = "planning" /\ turn.lease = "lapsed"
    /\ turn.attempt = backend[p].claim

RecoverStale(p) ==
    /\ backend[p].at = "update"
    /\ turn' = IF ~IsLapsed(p) THEN turn
               ELSE IF turn.fence THEN TurnIs("canceled")
               ELSE IF backend[p].seen = "paused" THEN TurnIs("paused") ELSE TurnIs("queued")
    /\ backend' = [backend EXCEPT ![p] = [at |-> "up", seen |-> "none", claim |-> 0]]
    /\ UNCHANGED <<operation, task, run, resume, canceled, worker>>

-----------------------------------------------------------------------------
Next ==
    \/ Admit \/ LapseTurn
    \/ \E p \in Process :
          \/ Crash(p) \/ Checkpoint(p) \/ SelectStale(p) \/ PauseStale(p) \/ RecoverStale(p)
          \/ \E w \in Worker :
                \/ DispatchTurn(p, w)
                \/ \E k \in Command : DispatchResume(p, w, k)
    \/ \E w \in Worker :
          \/ ClaimTurn(w) \/ BeginRun(w) \/ StartFailed(w)
          \/ ReserveAgain(w) \/ ValidateResume(w) \/ ClaimPaused(w) \/ ResumeTask(w)
          \/ ContinueRun(w) \/ ReadClaim(w) \/ PauseAgain(w) \/ Unclaim(w) \/ Release(w)
          \/ DispatchFails(w)
    \/ \E r \in Run :
          \/ CreateTask(r) \/ StopTask(r) \/ EndRun(r) \/ PauseOrphan(r) \/ EndOrphan(r)
          \/ FenceRun(r) \/ LapseRun(r)
    \/ \E k \in Command : LapseReservation(k)
    \/ \E c \in Cancel : RequestCancel(c)

Spec == Init /\ [][Next]_vars

-----------------------------------------------------------------------------
\* At most one Root executes, and it is the one the running Turn names: however
\* often the Turn is dispatched, claimed, recovered and resumed, no Run is left
\* executing behind its back (the begin projector runs in the Run's transaction).
OneLiveRoot ==
    \A r \in Run : run[r].status = "running" => turn.status = "running" /\ turn.root = r

\* The Turn is begun once, and every paused Run is continued by one Run only,
\* whoever took the resume reservation over: the Roots form a chain.
ContinuedOnce ==
    \A r, s \in Run :
        run[r].status # "none" /\ run[s].status # "none" /\ run[r].source = run[s].source => r = s

Agreed ==
    {<<"none", "none">>, <<"queued", "queued">>, <<"planning", "queued">>,
     <<"planning", "paused">>, <<"running", "running">>, <<"paused", "paused">>,
     <<"completed", "succeeded">>, <<"failed", "failed">>, <<"canceled", "canceled">>}

\* Turn and Operation, two rows written by separate statements of claims,
\* projectors, cancels and recovery, never contradict each other.  A Turn that
\* the recovery of a stale admission ends is the exception: it leaves the
\* Operation as it is.
OperationFollowsTurn ==
    \/ <<turn.status, operation.status>> \in Agreed
    \/ turn.status = "canceled" /\ turn.fence /\ operation.status = "paused"

\* A Turn that is completed, failed or canceled stays so: no late dispatch,
\* failed start, recovery or cancel changes it or its Operation
\* (design 2026-08-11, section 12: an ended task is not modified again).
SettledStays ==
    [][turn.status \in Settled => turn'.status = turn.status /\ operation'.status = operation.status]_vars

\* A first dispatch that holds the claim keeps it whatever the other dispatches
\* of the Turn do: each fails on its own (on_start_failed).
WinnerKeepsClaim ==
    [][\A v, w \in Worker :
          /\ v # w /\ worker'[v] # worker[v]
          /\ turn.status = "planning" /\ turn.owner = w /\ worker[w] = worker'[w]
          /\ worker[w].at = "begin" /\ worker[w].attempt = turn.attempt
          => turn' = turn]_vars

\* A canceled Turn has closed its Operation, as the design of 2026-08-13 says
\* of a cancel by hand.
CanceledTurnClosesOperation == turn.status = "canceled" => operation.status = "canceled"
=============================================================================
