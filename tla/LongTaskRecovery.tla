-------------------------- MODULE LongTaskRecovery --------------------------
(***************************************************************************)
(* Who drives the durable task of module LongTask, and what brings it back *)
(* when nobody does: the automatic recovery of Novel Analysis              *)
(* (agents/novel_analysis/automatic_recovery.py and recovery_service.py),  *)
(* the startup checkpoint (main.py) and the orphan monitor                 *)
(* (application/agent_orphan_recovery_service.py).                         *)
(*                                                                         *)
(* A continuation resumes the task first and submits its Root Run after    *)
(* that, so a crash between the two leaves a running task with no Run.     *)
(* The recovery scan reads the task row, and what it dispatches acts on    *)
(* that row later.                                                         *)
(***************************************************************************)
EXTENDS LongTask

CONSTANT MaxInterventions  \* BOUND on crashes and user commands

ASSUME InterventionAssumption == MaxInterventions \in Nat

VARIABLES
    up,             \* the backend process has started its monitors
    dispatch,       \* this task in the recovery service's _dispatching set
    continuation,   \* the process side of the Root Run that drives the task
    root,           \* the execution lease of that Root Run
    userHold,       \* observer: the last user command was a pause
    interventions   \* crashes and user commands so far

control == <<up, dispatch, continuation, root, userHold, interventions>>
allVars == <<vars, control>>

Intervene ==
    /\ interventions < MaxInterventions
    /\ interventions' = interventions + 1

LiveWork == {u \in With(unit, InFlight) : unit[u].lease = "live"}

\* The Run that created the task drives it until it stops running.
RecoveryInit ==
    /\ Init
    /\ up = TRUE
    /\ dispatch = "idle"
    /\ continuation = "executing"
    /\ root = "live"
    /\ userHold = FALSE
    /\ interventions = 0

-----------------------------------------------------------------------------
\* The executor: starts the task, claims, settles, finalizes.

ExecutorCall == Start \/ ClaimCall \/ FinalizeIfComplete

Execute ==
    /\ continuation = "executing"
    /\ ExecutorCall
    /\ UNCHANGED control

\* Only worker calls with a live lease have an effect, whoever makes them.
HolderSettles ==
    /\ \E tk \in tokens : CompleteUnit(tk, NULL) \/ SettleUnitFailure(tk)
    /\ UNCHANGED control

HolderInterrupts ==
    /\ \E tk \in tokens : InterruptUnit(tk)
    /\ UNCHANGED control

\* A live worker renews its lease; a dead one, or a stalled one, loses it.
UnitLeaseLapses ==
    /\ \E u \in Unit : LeaseExpires(u)
    /\ UNCHANGED control

BackoffLapses ==
    /\ \E u \in Unit : BackoffElapses(u)
    /\ UNCHANGED control

\* The Root Run commits its terminal status after the task stopped running.
RootEnds ==
    /\ continuation = "executing"
    /\ task.status \notin {"pending", "running"}
    /\ continuation' = "none"
    /\ root' = "none"
    /\ UNCHANGED <<vars, up, dispatch, userHold, interventions>>

\* An executor that could not renew the Root lease stops driving the task.
RootLeaseLapses ==
    /\ root = "live"
    /\ root' = "expired"
    /\ continuation' = IF continuation = "executing" THEN "none" ELSE continuation
    /\ UNCHANGED <<vars, up, dispatch, userHold, interventions>>

-----------------------------------------------------------------------------
\* Automatic recovery

ResumeFallsDue ==
    /\ AutoResumeFallsDue
    /\ UNCHANGED control

\* Slip: the scan picks up a paused task that has no resume booked.
RecoverUnbooked ==
    /\ up /\ dispatch = "idle"
    /\ task.status = "paused" /\ ~task.cancelRequested
    /\ dispatch' = "dispatched"
    /\ UNCHANGED <<vars, up, continuation, root, userHold, interventions>>

RecoverDue ==
    /\ up /\ dispatch = "idle"
    /\ task.status = "paused" /\ task.reason = "system"
    /\ task.autoResume = "due" /\ ~task.cancelRequested
    /\ dispatch' = "dispatched"
    /\ UNCHANGED <<vars, up, continuation, root, userHold, interventions>>

\* The dispatched worker validates PAUSED, then resumes the task.
AutomaticResume ==
    /\ dispatch = "dispatched"
    /\ ResumePaused("automatic")
    /\ dispatch' = "busy"
    /\ continuation' = "starting"
    /\ UNCHANGED <<up, root, userHold, interventions>>

\* validate() refuses, or the continuation has come to its end.
DispatchEnds ==
    /\ \/ dispatch = "dispatched" /\ task.status # "paused"
       \/ dispatch = "busy" /\ continuation = "none"
    /\ dispatch' = "idle"
    /\ UNCHANGED <<vars, up, continuation, root, userHold, interventions>>

SubmitRun ==
    /\ continuation = "starting"
    /\ continuation' = "executing"
    /\ root' = "live"
    /\ UNCHANGED <<vars, up, dispatch, userHold, interventions>>

\* on_start_failed: the task goes back to a system pause.
StartFails ==
    /\ continuation = "starting"
    /\ continuation' = "none"
    /\ IF task.status = "running" THEN Pause("system") ELSE UNCHANGED vars
    /\ UNCHANGED <<up, dispatch, root, userHold, interventions>>

-----------------------------------------------------------------------------
\* The user

\* Pause and cancel also cancel the task's Root Runs: one without a live
\* executor is settled by the command, a live one by its executor (RootEnds).
CancelRoots == root' = IF root = "expired" THEN "none" ELSE root

\* A pause of a task that is already paused returns it as it is.
UserPause ==
    /\ up /\ Intervene
    /\ Pause("user") \/ (task.status = "paused" /\ UNCHANGED vars)
    /\ CancelRoots
    /\ userHold' = TRUE
    /\ UNCHANGED <<up, dispatch, continuation>>

UserResume ==
    /\ up /\ Intervene
    /\ ResumePaused("user")
    /\ continuation' = "starting"
    /\ userHold' = FALSE
    /\ UNCHANGED <<up, dispatch, root>>

UserCancel ==
    /\ up /\ Intervene
    /\ Cancel
    /\ CancelRoots
    /\ UNCHANGED <<up, dispatch, continuation, userHold>>

-----------------------------------------------------------------------------
\* Crash, startup and the orphan monitor

Crash ==
    /\ up /\ Intervene
    /\ up' = FALSE
    /\ dispatch' = "idle"
    /\ continuation' = "none"
    /\ UNCHANGED <<vars, root, userHold>>

\* Startup checkpoints a running task once, if no lease on it is live.
Restart ==
    /\ ~up
    /\ up' = TRUE
    /\ IF task.status = "running" /\ LiveWork = {} /\ root # "live"
       THEN RecoverAfterRestart
       ELSE UNCHANGED vars
    /\ UNCHANGED <<dispatch, continuation, root, userHold, interventions>>

\* Slip: the Run is settled and its task forgotten.
SettleOrphanRun ==
    /\ up /\ root = "expired" /\ LiveWork = {}
    /\ root' = "none"
    /\ UNCHANGED <<vars, up, dispatch, continuation, userHold, interventions>>

\* An expired Root Run is settled once no unit of its task is live: the task
\* is paused as durable_task_interrupted, the Run becomes terminal.
RecoverOrphan ==
    /\ up /\ root = "expired" /\ LiveWork = {}
    /\ root' = "none"
    /\ IF task.status \in {"pending", "running"}
       THEN Pause("system")
       ELSE UNCHANGED vars
    /\ UNCHANGED <<up, dispatch, continuation, userHold, interventions>>

-----------------------------------------------------------------------------
RecoveryNext ==
    \/ Execute \/ HolderSettles \/ HolderInterrupts
    \/ UnitLeaseLapses \/ BackoffLapses \/ RootEnds \/ RootLeaseLapses
    \/ ResumeFallsDue \/ RecoverDue \/ AutomaticResume \/ DispatchEnds
    \/ SubmitRun \/ StartFails
    \/ UserPause \/ UserResume \/ UserCancel
    \/ Crash \/ Restart \/ RecoverOrphan

\* A lease nobody renews runs out; a live executor and its workers go on; the
\* monitors keep polling; a crashed backend is started again.
Fairness ==
    /\ WF_allVars(Execute) /\ WF_allVars(HolderSettles)
    /\ WF_allVars(continuation # "executing" /\ UnitLeaseLapses)
    /\ WF_allVars(BackoffLapses)
    /\ WF_allVars(RootEnds)
    /\ WF_allVars(continuation # "executing" /\ RootLeaseLapses)
    /\ WF_allVars(ResumeFallsDue)
    /\ WF_allVars(RecoverDue) /\ WF_allVars(AutomaticResume)
    /\ WF_allVars(DispatchEnds) /\ WF_allVars(SubmitRun)
    /\ WF_allVars(Restart) /\ WF_allVars(RecoverOrphan)

RecoverySpec == RecoveryInit /\ [][RecoveryNext]_allVars /\ Fairness

-----------------------------------------------------------------------------
RecoveryTypeOK ==
    /\ up \in BOOLEAN
    /\ dispatch \in {"idle", "dispatched", "busy"}
    /\ continuation \in {"none", "starting", "executing"}
    /\ root \in {"none", "live", "expired"}
    /\ userHold \in BOOLEAN
    /\ interventions \in 0 .. MaxInterventions

\* Between two user commands the wait ledger pays for every automatic resume:
\* at most one system pause more than the booked waits, which stay within the
\* budget, whatever is dispatched, interrupted, resumed or checkpointed.
AutomaticRecoveryBounded ==
    /\ task.autoWaited <= WaitBudget
    /\ task.autoAttempt <= task.autoWaited + 1

\* A running task with no driver, no Root Run the orphan monitor could find, and
\* no startup ahead that would checkpoint it: the startup looks once, and passes
\* by a task one of whose unit leases is still live.
Forgotten ==
    /\ task.status = "running" /\ continuation = "none" /\ root = "none"
    /\ up \/ LiveWork # {}

\* A running task that lost its driver is paused, driven again or finished,
\* wherever the crash fell between leases, resume and submission.
AbandonedTaskRecovers ==
    task.status = "running" /\ continuation = "none" /\ ~Forgotten ~>
        task.status # "running" \/ continuation # "none"

\* Retries, take-overs, checkpoints and automatic resumes come to an end: the
\* task finishes, or stays paused until the user decides.
EventuallyAtRest ==
    <>[](\/ task.status \in Terminal \/ Forgotten
         \/ task.status = "paused" /\ task.autoResume \notin {"scheduled", "due"})

\* A task comes to be forgotten in one way only: the backend dies between the
\* resume and the submission of its Run, while a unit lease is still live.
OnlyCrashForgets ==
    [][~Forgotten /\ Forgotten' =>
          continuation = "starting" /\ up /\ ~up' /\ LiveWork # {}]_allVars

\* The design plan promises that a user pause stays paused.
UserPauseHolds == userHold => task.status # "running"
=============================================================================
