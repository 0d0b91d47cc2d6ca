------------------------------ MODULE RunControl ------------------------------
(***************************************************************************)
(* Execution ownership, cancellation and orphan settlement of one Agent    *)
(* Run: infrastructure/persistence/run_execution_store.py, the terminal    *)
(* commit of sqlite_run_repository.py and sqlite_agent_output_repository.py,*)
(* application/agent_cancellation_service.py, the settlement of            *)
(* agent_orphan_recovery_service.py and the tool idempotency gateway.      *)
(*                                                                         *)
(* A process is one backend with its own owner id.  Inside it three kinds  *)
(* of coroutine compete for the row under that same id: the executor of    *)
(* the Run, cancel requests, and the orphan monitor, which cancels through *)
(* the same service.  Startup does not assume that an earlier process is   *)
(* dead, so processes may overlap.  A store call is one transaction and    *)
(* one action; between two calls anybody may act.                          *)
(***************************************************************************)
EXTENDS Naturals, FiniteSets

CONSTANTS
    Process,         \* owner ids, one per started backend
    First,           \* the process that created the Run
    Tool,            \* ids of side-effecting tool calls
    NULL,            \* SQL NULL for the owner
    MaxAttempt,      \* BOUND on execution_attempt
    MaxInterventions \* BOUND on crashes, stalls, failures and commands

ASSUME ProcessAssumption == First \in Process /\ NULL \notin Process

ASSUME BoundAssumption == MaxAttempt \in Nat \ {0} /\ MaxInterventions \in Nat

VARIABLES
    run,           \* the row of ai_agent_runs
    receipt,       \* the row of ai_agent_run_cancellations
    journal,       \* terminal statuses with a lifecycle event run:<id>:<status>
    recorded,      \* tool calls with a row in ai_agent_tool_receipts
    effects,       \* how often each tool call took effect
    backend,       \* each process: "new", "up" or "dead"
    executor,      \* processes with a live executor of the Run
    canceler,      \* where each cancel() call stands
    monitor,       \* where each orphan monitor stands, and what it has read
    interventions

actors == <<backend, executor, canceler, monitor>>
vars == <<run, receipt, journal, recorded, effects, actors, interventions>>

Final == {"done", "failed", "blocked", "canceled"}

\* cancel() called by a user command, or by the monitor of the process.
Caller == Process \X {"user", "monitor"}

RunRow == [status: Final \union {"running"},
           owner: Process \union {NULL},
           lease: {"none", "live", "expired"},
           attempt: Nat, cancelRequested: BOOLEAN, epoch: Nat]

Receipt == [status: {"none", "draining", "completed"}, epoch: Nat,
            final: Final \union {"none"}]

Monitor == [at: {"idle", "listed", "cancel", "canceling", "commit", "receipt", "release"},
            owner: Process \union {NULL}, attempt: Nat,
            decision: {"none", "cancel", "pause_recoverable", "fail"}]

\* A monitor that holds no candidate.
IdleMonitor == [at |-> "idle", owner |-> NULL, attempt |-> 0, decision |-> "none"]

CancelPoint == {"idle", "load", "fence", "claim", "commit", "release", "complete", "raised"}

TypeOK ==
    /\ run \in RunRow
    /\ receipt \in Receipt
    /\ journal \subseteq Final
    /\ recorded \subseteq Tool
    /\ effects \in [Tool -> Nat]
    /\ backend \in [Process -> {"new", "up", "dead"}]
    /\ executor \subseteq Process
    /\ canceler \in [Caller -> CancelPoint]
    /\ monitor \in [Process -> Monitor]
    /\ interventions \in 0 .. MaxInterventions

Intervene ==
    /\ interventions < MaxInterventions
    /\ interventions' = interventions + 1

\* create: the creating process owns the Run and executes it.
Init ==
    /\ run = [status |-> "running", owner |-> First, lease |-> "live", attempt |-> 1,
              cancelRequested |-> FALSE, epoch |-> 0]
    /\ receipt = [status |-> "none", epoch |-> 0, final |-> "none"]
    /\ journal = {}
    /\ recorded = {}
    /\ effects = [t \in Tool |-> 0]
    /\ backend = [p \in Process |-> IF p = First THEN "up" ELSE "new"]
    /\ executor = {First}
    /\ canceler = [c \in Caller |-> "idle"]
    /\ monitor = [p \in Process |-> IdleMonitor]
    /\ interventions = 0

-----------------------------------------------------------------------------
\* The store

\* Slip: a Run nobody owns is not looked for.
UnheldExpired == run.lease = "expired"

Unheld == run.owner = NULL \/ run.lease # "live"

\* The conditional updates that take the Run for a new attempt.
TakeOver(p) ==
    /\ run.attempt < MaxAttempt
    /\ run' = [run EXCEPT !.owner = p, !.lease = "live", !.attempt = @ + 1]

CanClaim == run.status = "running" /\ ~run.cancelRequested /\ Unheld

\* Slip: a Run is canceled from under its live executor.
CanClaimToCancelHeld == run.status = "running" /\ run.cancelRequested

CanClaimToCancel == run.status = "running" /\ run.cancelRequested /\ Unheld

\* Slip: a Run that is asked to cancel is left to others.
CanClaimUncanceled(m) ==
    /\ run.status = "running" /\ ~run.cancelRequested
    /\ run.attempt = m.attempt /\ run.owner = m.owner
    /\ Unheld

\* claim_orphan: the row is still as list_orphans has read it.
CanClaimOrphan(m) ==
    /\ run.status = "running"
    /\ run.attempt = m.attempt /\ run.owner = m.owner
    /\ Unheld

\* release: whoever of the process made the claim.
Release(p) ==
    run' = IF run.status = "running" /\ run.owner = p
           THEN [run EXCEPT !.owner = NULL, !.lease = "none"]
           ELSE run

\* Slip: a cancel request is overlooked.
MayCommitAnyStatus(p, status) ==
    run.status = "running" /\ run.owner = p /\ run.lease = "live"

\* apply_commit_in_ambient_transaction
MayCommit(p, status) ==
    /\ run.status = "running"
    /\ run.owner = p /\ run.lease = "live"
    /\ run.cancelRequested => status = "canceled"

\* update_run_status ends the Run and gives up its lease.
Ended(status) == [run EXCEPT !.status = status, !.owner = NULL, !.lease = "none"]

\* commit_run_lifecycle: an event that is there already is a replay.
Commits(p, status) ==
    IF status \in journal
    THEN run.status = status /\ UNCHANGED <<run, journal>>
    ELSE /\ MayCommit(p, status)
         /\ run' = Ended(status)
         /\ journal' = journal \union {status}

Refuses(p, status) ==
    IF status \in journal THEN run.status # status ELSE ~MayCommit(p, status)

\* The row after a first request.
Fenced == [run EXCEPT !.cancelRequested = TRUE, !.epoch = @ + 1]

\* _fence_run_cancellation succeeds on a first and on a repeated request.
Fence ==
    \/ /\ receipt.status = "none" /\ run.status = "running"
       /\ run' = Fenced
       /\ receipt' = [status |-> "draining", epoch |-> run.epoch + 1, final |-> "none"]
    \/ /\ receipt.status = "draining"
       /\ run' = IF run.status = "running" THEN [run EXCEPT !.cancelRequested = TRUE] ELSE run
       /\ UNCHANGED receipt

FenceRaises ==
    \/ receipt.status = "none" /\ run.status # "running"
    \/ receipt.status = "completed"

\* Slip: the receipt closes while the Run still runs.
CompleteReceiptEarly ==
    receipt' = IF receipt.status = "draining"
               THEN [receipt EXCEPT !.status = "completed", !.final = "canceled"]
               ELSE receipt

\* complete_cancellation
CompleteReceipt ==
    receipt' = IF run.status # "running" /\ receipt.status = "draining"
               THEN [receipt EXCEPT !.status = "completed", !.final = run.status]
               ELSE receipt

-----------------------------------------------------------------------------
\* Time and processes

Occupied(p) ==
    \/ p \in executor
    \/ \E k \in {"user", "monitor"} : canceler[<<p, k>>] # "idle"
    \/ monitor[p].at # "idle"

\* A lease that nobody renews any more runs out.
LeaseExpires ==
    /\ run.lease = "live" /\ ~Occupied(run.owner)
    /\ run' = [run EXCEPT !.lease = "expired"]
    /\ UNCHANGED <<receipt, journal, recorded, effects, actors, interventions>>

\* It also runs out under a coroutine that works, if that one is held up.
Stall ==
    /\ run.lease = "live" /\ Occupied(run.owner) /\ Intervene
    /\ run' = [run EXCEPT !.lease = "expired"]
    /\ UNCHANGED <<receipt, journal, recorded, effects, actors>>

StartProcess(p) ==
    /\ backend[p] = "new"
    /\ backend' = [backend EXCEPT ![p] = "up"]
    /\ UNCHANGED <<run, receipt, journal, recorded, effects, executor, canceler, monitor, interventions>>

\* Every coroutine of the process is gone; another process is still to come.
Crash(p) ==
    /\ backend[p] = "up" /\ Intervene
    /\ \E q \in Process \ {p} : backend[q] # "dead"
    /\ backend' = [backend EXCEPT ![p] = "dead"]
    /\ executor' = executor \ {p}
    /\ canceler' = [c \in Caller |-> IF c[1] = p THEN "idle" ELSE canceler[c]]
    /\ monitor' = [monitor EXCEPT ![p] = IdleMonitor]
    /\ UNCHANGED <<run, receipt, journal, recorded, effects>>

-----------------------------------------------------------------------------
\* The executor of the Run

Claim(p) ==
    /\ backend[p] = "up" /\ p \notin executor
    /\ CanClaim
    /\ TakeOver(p)
    /\ executor' = executor \union {p}
    /\ UNCHANGED <<receipt, journal, recorded, effects, backend, canceler, monitor,
                   interventions>>

ExecutorCommits(p, status) ==
    /\ p \in executor
    /\ Commits(p, status)
    /\ executor' = executor \ {p}
    /\ UNCHANGED <<receipt, recorded, effects, backend, canceler, monitor,
                   interventions>>

\* An executor that finds its lease lost, or the Run ended, stops.
ExecutorStops(p) ==
    /\ p \in executor
    /\ run.status # "running" \/ run.owner # p \/ run.lease # "live"
    /\ executor' = executor \ {p}
    /\ UNCHANGED <<run, receipt, journal, recorded, effects, backend, canceler, monitor, interventions>>

\* The supervisor gives the Run back without ending it.
ExecutorReleases(p) ==
    /\ p \in executor /\ Intervene
    /\ Release(p)
    /\ executor' = executor \ {p}
    /\ UNCHANGED <<receipt, journal, recorded, effects, backend, canceler, monitor>>

\* Slip: a cancel request does not stop tools.
ExecuteCanceled(p, t) ==
    /\ p \in executor
    /\ run.status = "running" /\ run.owner = p /\ run.lease = "live"
    /\ t \notin recorded
    /\ effects' = [effects EXCEPT ![t] = @ + 1]
    /\ recorded' = recorded \union {t}
    /\ UNCHANGED <<run, receipt, journal, actors, interventions>>

\* execute_once: checks, effect and receipt are one transaction; a recorded
\* call is answered from its receipt.
ExecuteOnce(p, t) ==
    /\ p \in executor
    /\ ~run.cancelRequested
    /\ run.status = "running" /\ run.owner = p /\ run.lease = "live"
    /\ t \notin recorded
    /\ effects' = [effects EXCEPT ![t] = @ + 1]
    /\ recorded' = recorded \union {t}
    /\ UNCHANGED <<run, receipt, journal, actors, interventions>>

-----------------------------------------------------------------------------
\* AgentCancellationService.cancel

Goes(c, point) == canceler' = [canceler EXCEPT ![c] = point]

\* A user's request answers with the error; the monitor sees it.
Raises(c) == Goes(c, IF c[2] = "user" THEN "idle" ELSE "raised")

UserCancels(p) ==
    /\ backend[p] = "up" /\ canceler[<<p, "user">>] = "idle"
    /\ Intervene
    /\ Goes(<<p, "user">>, "load")
    /\ UNCHANGED <<run, receipt, journal, recorded, effects, backend, executor, monitor>>

CancelLoad(c) ==
    /\ canceler[c] = "load"
    /\ IF receipt.status = "completed" THEN Goes(c, "idle")
       ELSE IF receipt.status = "none" /\ run.status # "running" THEN Raises(c)
       ELSE Goes(c, "fence")
    /\ UNCHANGED <<run, receipt, journal, recorded, effects, backend, executor, monitor, interventions>>

CancelFence(c) ==
    /\ canceler[c] = "fence"
    /\ \/ Fence /\ Goes(c, "claim")
       \/ FenceRaises /\ Raises(c) /\ UNCHANGED <<run, receipt>>
    /\ UNCHANGED <<journal, recorded, effects, backend, executor, monitor,
                   interventions>>

\* _terminalize_without_live_executor, up to its claim
CancelClaim(c) ==
    /\ canceler[c] = "claim"
    /\ IF CanClaimToCancel
       THEN TakeOver(c[1]) /\ Goes(c, "commit")
       ELSE Goes(c, "complete") /\ UNCHANGED <<run>>
    /\ UNCHANGED <<receipt, journal, recorded, effects, backend, executor, monitor,
                   interventions>>

CancelCommit(c) ==
    /\ canceler[c] = "commit"
    /\ \/ Commits(c[1], "canceled") /\ Goes(c, "complete")
       \/ Refuses(c[1], "canceled") /\ Goes(c, "release") /\ UNCHANGED <<run, journal>>
    /\ UNCHANGED <<receipt, recorded, effects, backend, executor, monitor,
                   interventions>>

\* The projection fails; or the child tree does, before the guarded commit.
CancelCommitFails(c) ==
    /\ canceler[c] = "commit" /\ Intervene
    /\ Goes(c, "release") \/ Raises(c)
    /\ UNCHANGED <<run, receipt, journal, recorded, effects, backend, executor, monitor>>

CancelRelease(c) ==
    /\ canceler[c] = "release"
    /\ Release(c[1])
    /\ Raises(c)
    /\ UNCHANGED <<receipt, journal, recorded, effects, backend, executor, monitor,
                   interventions>>

CancelComplete(c) ==
    /\ canceler[c] = "complete"
    /\ CompleteReceipt
    /\ Goes(c, "idle")
    /\ UNCHANGED <<run, journal, recorded, effects, backend, executor, monitor,
                   interventions>>

CancelStep(c) ==
    \/ CancelLoad(c) \/ CancelFence(c) \/ CancelClaim(c)
    \/ CancelCommit(c) \/ CancelRelease(c) \/ CancelComplete(c)

\* request_cancellation, and the writes of it that need no receipt.
RequestCancellation ==
    /\ run.status = "running" /\ ~run.cancelRequested /\ Intervene
    /\ run' = [run EXCEPT !.cancelRequested = TRUE]
    /\ UNCHANGED <<receipt, journal, recorded, effects, actors>>

\* Deleting a novel source ends its Runs in the same statement.
DeleteSource ==
    /\ run.status = "running" /\ Intervene
    /\ run' = [Ended("canceled") EXCEPT !.cancelRequested = TRUE]
    /\ UNCHANGED <<receipt, journal, recorded, effects, actors>>

-----------------------------------------------------------------------------
\* The orphan monitor of a process

Moves(p, point) == monitor' = [monitor EXCEPT ![p].at = point]

\* list_orphans; whether a recoverable task hangs on the Run is left open.
MonitorLists(p) ==
    /\ backend[p] = "up" /\ monitor[p].at = "idle"
    /\ run.status = "running" /\ Unheld
    /\ \E decision \in IF run.cancelRequested THEN {"cancel"} ELSE {"pause_recoverable", "fail"} :
          monitor' = [monitor EXCEPT ![p] =
              [at |-> "listed", owner |-> run.owner, attempt |-> run.attempt,
               decision |-> decision]]
    /\ UNCHANGED <<run, receipt, journal, recorded, effects, backend, executor, canceler, interventions>>

MonitorClaims(p) ==
    /\ monitor[p].at = "listed"
    /\ IF CanClaimOrphan(monitor[p])
       THEN /\ TakeOver(p)
            /\ Moves(p, IF monitor[p].decision = "cancel" THEN "cancel" ELSE "commit")
       ELSE /\ monitor' = [monitor EXCEPT ![p] = IdleMonitor]
            /\ UNCHANGED <<run>>
    /\ UNCHANGED <<receipt, journal, recorded, effects, backend, executor, canceler,
                   interventions>>

MonitorCancels(p) ==
    /\ monitor[p].at = "cancel"
    /\ Moves(p, "canceling") /\ Goes(<<p, "monitor">>, "load")
    /\ UNCHANGED <<run, receipt, journal, recorded, effects, backend, executor,
                   interventions>>

MonitorCancelReturns(p) ==
    /\ monitor[p].at = "canceling"
    /\ canceler[<<p, "monitor">>] \in {"idle", "raised"}
    /\ Moves(p, IF canceler[<<p, "monitor">>] = "idle" THEN "commit" ELSE "release")
    /\ Goes(<<p, "monitor">>, "idle")
    /\ UNCHANGED <<run, receipt, journal, recorded, effects, backend, executor,
                   interventions>>

\* The terminal status of a decision.
StatusOf(decision) == IF decision = "fail" THEN "failed" ELSE "canceled"

MonitorCommits(p) ==
    LET m == monitor[p] IN
    /\ m.at = "commit"
    /\ \/ /\ Commits(p, StatusOf(m.decision))
          /\ IF m.decision = "cancel" THEN Moves(p, "receipt")
             ELSE monitor' = [monitor EXCEPT ![p] = IdleMonitor]
       \/ /\ Refuses(p, StatusOf(m.decision))
          /\ Moves(p, "release") /\ UNCHANGED <<run, journal>>
    /\ UNCHANGED <<receipt, recorded, effects, backend, executor, canceler,
                   interventions>>

MonitorCommitFails(p) ==
    /\ monitor[p].at = "commit" /\ Intervene
    /\ Moves(p, "release")
    /\ UNCHANGED <<run, receipt, journal, recorded, effects, backend, executor, canceler>>

MonitorCompletesReceipt(p) ==
    /\ monitor[p].at = "receipt"
    /\ CompleteReceipt
    /\ monitor' = [monitor EXCEPT ![p] = IdleMonitor]
    /\ UNCHANGED <<run, journal, recorded, effects, backend, executor, canceler,
                   interventions>>

\* The coordinator gives back what it could not settle.
MonitorReleases(p) ==
    /\ monitor[p].at = "release"
    /\ Release(p)
    /\ monitor' = [monitor EXCEPT ![p] = IdleMonitor]
    /\ UNCHANGED <<receipt, journal, recorded, effects, backend, executor, canceler,
                   interventions>>

MonitorStep(p) ==
    \/ MonitorLists(p) \/ MonitorClaims(p) \/ MonitorCancels(p) \/ MonitorCancelReturns(p)
    \/ MonitorCommits(p) \/ MonitorCompletesReceipt(p) \/ MonitorReleases(p)

-----------------------------------------------------------------------------
Next ==
    \/ LeaseExpires \/ Stall \/ RequestCancellation \/ DeleteSource
    \/ \E p \in Process :
          \/ StartProcess(p) \/ Crash(p)
          \/ Claim(p) \/ ExecutorStops(p) \/ ExecutorReleases(p)
          \/ \E status \in Final : ExecutorCommits(p, status)
          \/ \E t \in Tool : ExecuteOnce(p, t)
          \/ UserCancels(p) \/ MonitorStep(p) \/ MonitorCommitFails(p)
    \/ \E c \in Caller : CancelStep(c) \/ CancelCommitFails(c)

\* A backend is started again; its monitor polls; what a coroutine began it
\* goes on with; a lease nobody works under runs out; an executor that is asked
\* to cancel ends its Run.  A Run that nobody cancels may run for ever.
Fairness ==
    /\ WF_vars(LeaseExpires)
    /\ \A p \in Process :
          /\ WF_vars(StartProcess(p))
          /\ WF_vars(MonitorStep(p))
          /\ WF_vars(ExecutorStops(p))
          /\ WF_vars(run.cancelRequested /\ ExecutorCommits(p, "canceled"))
    /\ \A c \in Caller : WF_vars(CancelStep(c))

Spec == Init /\ [][Next]_vars /\ Fairness

-----------------------------------------------------------------------------
\* A Run whose cancellation was requested ends canceled or not at all,
\* whichever of executor, cancel call, monitor and deletion ends it.
CancelRequestWins ==
    run.cancelRequested /\ run.status # "running" => run.status = "canceled"

\* The receipt never contradicts the Run, as load_cancellation_receipt checks:
\* its epoch is the Run's, it stays open while the Run runs, and the final
\* status it names is the Run's.
ReceiptAgrees ==
    /\ receipt.status # "none" =>
          receipt.epoch = run.epoch /\ run.epoch > 0 /\ run.cancelRequested
    /\ receipt.status = "completed" =>
          run.status # "running" /\ receipt.final = run.status

\* The journal announces no end the Run did not come to, and at most one: two
\* settlers never both write a terminal lifecycle event.
JournalTellsStatus == journal \subseteq {run.status}

\* A live lease is not taken over: no process is robbed of a Run it still
\* holds, however old the listing is another process acts on.
LiveLeaseIsKept ==
    [][run.lease = "live" => run'.attempt = run.attempt]_vars

\* A Run that has ended is never claimed, released or ended again.
EndedRunIsFinal == [][run.status # "running" => run' = run]_vars

\* A tool call takes effect at most once, over crashes, take-overs and repeats.
EachToolOnce == \A t \in Tool : effects[t] <= 1

\* Once the cancellation is fenced no further tool takes effect.
FenceStopsTools == [][receipt.status # "none" => effects' = effects]_vars

\* A Run whose cancellation was requested does end.
CancellationSettles == run.cancelRequested ~> run.status # "running"

\* A Run that lost its executor is ended by a monitor, or executed again.
OrphanSettles ==
    run.status = "running" /\ executor = {} ~> run.status # "running" \/ executor # {}

-----------------------------------------------------------------------------
\* Refinement: what is left of the rows for whoever watches the Run.

Outcome == INSTANCE RunOutcome WITH
    Status  <- Final,
    outcome <- IF run.status = "running" THEN "open" ELSE run.status,
    asked   <- run.cancelRequested,
    answer  <- IF receipt.status = "none" THEN "none"
               ELSE IF receipt.status = "draining" THEN "pending" ELSE receipt.final,
    told    <- journal,
    times   <- effects

\* The contending backends keep the promise of one Run.
OutcomeSpec == Outcome!Spec
=============================================================================
