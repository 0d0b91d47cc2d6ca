-------------------------- MODULE RunControl_proofs --------------------------
(***************************************************************************)
(* Proofs about RunControl, for every set of processes and tool calls.     *)
(*                                                                         *)
(* The many actions touch the Run, its receipt and its journal in only     *)
(* five ways (Step).  A lemma per group of actions shows which; after that *)
(* every property is proved once per way and not once per action.          *)
(***************************************************************************)
EXTENDS RunControl, TLAPS

rows == <<run, receipt, journal>>

RowsTyped == run \in RunRow /\ receipt \in Receipt /\ journal \subseteq Final

\* A running Run changes hands, or is asked to cancel.
Passes ==
    /\ run.status = "running" /\ run'.status = "running"
    /\ run'.epoch = run.epoch
    /\ run.cancelRequested => run'.cancelRequested
    /\ run.lease = "live" => run'.attempt = run.attempt
    /\ run'.lease = "live" => run'.owner \in Process
    /\ UNCHANGED <<receipt, journal>>

\* A first cancellation is fenced.
FencesFirst ==
    /\ run.status = "running" /\ receipt.status = "none"
    /\ run' = Fenced
    /\ receipt' = [status |-> "draining", epoch |-> run.epoch + 1, final |-> "none"]
    /\ UNCHANGED journal

\* A running Run ends.
Ends ==
    /\ run.status = "running" /\ run'.status \in Final
    /\ run'.epoch = run.epoch
    /\ run.cancelRequested => run'.cancelRequested
    /\ run'.cancelRequested => run'.status = "canceled"
    /\ run'.attempt = run.attempt
    /\ run'.lease = "none"
    /\ journal' \subseteq journal \union {run'.status}
    /\ UNCHANGED receipt

\* The receipt is completed.
Closes == CompleteReceipt /\ UNCHANGED <<run, journal>>

\* The lease is held by a process, and only while the Run runs.
HeldRun == run.lease = "live" => run.owner \in Process /\ run.status = "running"

Step == RowsTyped' /\ (UNCHANGED rows \/ Passes \/ FencesFirst \/ Ends \/ Closes)

-----------------------------------------------------------------------------
\* The store operations are such steps.

\* Nothing written is a step.
LEMMA IdleStep == ASSUME RowsTyped, UNCHANGED rows PROVE Step
  BY DEF Step, rows, RowsTyped

\* A claim passes the Run on, if the Run is running and nobody holds it.
LEMMA TakeOverStep ==
    ASSUME RowsTyped, NEW p \in Process, TakeOver(p),
           run.status = "running", run.lease # "live", UNCHANGED <<receipt, journal>>
    PROVE  Step
  <1>1. run.attempt + 1 \in Nat
    BY SMT DEF RowsTyped, RunRow
  <1>2. run' \in RunRow
    BY <1>1, Zenon DEF RowsTyped, RunRow, TakeOver
  <1>3. Passes
    BY DEF Passes, TakeOver, RowsTyped, RunRow
  <1> QED
    BY <1>2, <1>3 DEF Step, RowsTyped

\* A lease that runs out passes the Run on to nobody.
LEMMA ExpiryStep ==
    ASSUME RowsTyped, run.lease = "live", run.status = "running",
           run' = [run EXCEPT !.lease = "expired"],
           UNCHANGED <<receipt, journal>>
    PROVE  Step
  <1>1. run' \in RunRow
    BY Zenon DEF RowsTyped, RunRow
  <1>2. Passes
    BY DEF Passes, RowsTyped, RunRow
  <1> QED
    BY <1>1, <1>2 DEF Step, RowsTyped

\* A release changes only a running Run.
LEMMA ReleaseStep ==
    ASSUME RowsTyped, NEW p, Release(p), UNCHANGED <<receipt, journal>>
    PROVE  Step
  <1>1. CASE run.status = "running" /\ run.owner = p
    <2>1. run' = [run EXCEPT !.owner = NULL, !.lease = "none"]
      BY <1>1 DEF Release
    <2>2. run' \in RunRow
      BY <2>1, Zenon DEF RowsTyped, RunRow
    <2>3. Passes
      BY <1>1, <2>1 DEF Passes, RowsTyped, RunRow
    <2> QED
      BY <2>2, <2>3 DEF Step, RowsTyped
  <1>2. CASE ~(run.status = "running" /\ run.owner = p)
    BY <1>2, IdleStep DEF Release, rows
  <1> QED
    BY <1>1, <1>2

\* The row of an ended Run is a row.
LEMMA EndedType ==
    ASSUME RowsTyped, NEW status \in Final
    PROVE  /\ Ended(status) \in RunRow
           /\ Ended(status).status = status /\ Ended(status).epoch = run.epoch
           /\ Ended(status).attempt = run.attempt /\ Ended(status).lease = "none"
           /\ Ended(status).cancelRequested = run.cancelRequested
  <1>1. Ended(status) \in RunRow
    BY Zenon DEF RowsTyped, RunRow, Ended
  <1> QED
    BY <1>1 DEF RowsTyped, RunRow, Ended

\* A terminal commit ends a running Run or repeats what the journal has.
LEMMA CommitStep ==
    ASSUME RowsTyped, NEW p, NEW status \in Final, Commits(p, status), UNCHANGED receipt
    PROVE  Step
  <1>1. CASE status \in journal
    BY <1>1, IdleStep DEF Commits, rows
  <1>2. CASE status \notin journal
    <2>1. MayCommit(p, status) /\ run' = Ended(status) /\ journal' = journal \union {status}
      BY <1>2 DEF Commits
    <2>2. RowsTyped'
      BY <2>1, EndedType DEF RowsTyped
    <2>3. Ends
      BY <2>1, EndedType DEF Ends, MayCommit
    <2> QED
      BY <2>2, <2>3 DEF Step
  <1> QED
    BY <1>1, <1>2

\* A first fence opens the receipt; a repeated one passes the Run at most.
LEMMA FenceStep ==
    ASSUME RowsTyped, HeldRun, Fence, UNCHANGED journal
    PROVE  Step
  <1>1. run.epoch + 1 \in Nat
    BY SMT DEF RowsTyped, RunRow
  <1>2. CASE receipt.status = "none" /\ run.status = "running"
    <2>1. run' = Fenced /\ receipt' = [status |-> "draining", epoch |-> run.epoch + 1,
                                       final |-> "none"]
      BY <1>2 DEF Fence
    <2>2. run' \in RunRow
      BY <1>1, <2>1, Zenon DEF RowsTyped, RunRow, Fenced
    <2>3. receipt' \in Receipt
      BY <1>1, <2>1 DEF Receipt
    <2> QED
      BY <1>2, <2>1, <2>2, <2>3 DEF Step, RowsTyped, FencesFirst
  <1>3. CASE receipt.status = "draining" /\ run.status = "running"
    <2>1. run' = [run EXCEPT !.cancelRequested = TRUE] /\ UNCHANGED receipt
      BY <1>3 DEF Fence
    <2>2. run' \in RunRow
      BY <2>1, Zenon DEF RowsTyped, RunRow
    <2>3. Passes
      BY <1>3, <2>1 DEF Passes, RowsTyped, RunRow, HeldRun
    <2> QED
      BY <2>1, <2>2, <2>3 DEF Step, RowsTyped
  <1>4. CASE receipt.status = "draining" /\ run.status # "running"
    BY <1>4, IdleStep DEF Fence, rows
  <1> QED
    BY <1>2, <1>3, <1>4 DEF Fence

\* Completing a receipt copies the end of the Run into it.
LEMMA CloseStep ==
    ASSUME RowsTyped, CompleteReceipt, UNCHANGED <<run, journal>>
    PROVE  Step
  <1>1. receipt' \in Receipt
    <2>1. run.status \in Final \union {"running"} /\ receipt \in Receipt
      BY DEF RowsTyped, RunRow
    <2>2. CASE run.status # "running" /\ receipt.status = "draining"
      <3>1. receipt' = [receipt EXCEPT !.status = "completed", !.final = run.status]
        BY <2>2 DEF CompleteReceipt
      <3>2. run.status \in Final \union {"none"}
        BY <2>1, <2>2
      <3> QED
        BY <2>1, <3>1, <3>2, Zenon DEF Receipt
    <2>3. CASE ~(run.status # "running" /\ receipt.status = "draining")
      BY <2>1, <2>3 DEF CompleteReceipt
    <2> QED
      BY <2>2, <2>3
  <1> QED
    BY <1>1 DEF Step, RowsTyped, Closes

-----------------------------------------------------------------------------
\* Every action is a step of the rows, a step of the tools, and keeps the
\* coroutines well typed.

\* One tool call takes effect and is recorded, while the Run runs and no
\* cancellation is asked.
ToolStep ==
    \/ UNCHANGED <<recorded, effects>>
    \/ /\ run.status = "running" /\ ~run.cancelRequested /\ UNCHANGED rows
       /\ \E t \in Tool \ recorded :
             effects' = [effects EXCEPT ![t] = @ + 1] /\ recorded' = recorded \union {t}

ToolsTyped == recorded \subseteq Tool /\ effects \in [Tool -> Nat]

ActorsTyped ==
    /\ backend \in [Process -> {"new", "up", "dead"}]
    /\ executor \subseteq Process
    /\ canceler \in [Caller -> CancelPoint]
    /\ monitor \in [Process -> Monitor]
    /\ interventions \in 0 .. MaxInterventions

\* What every step does.
Effect == Step /\ ToolStep /\ ActorsTyped'

\* TypeOK says that rows, tools and coroutines are typed.
LEMMA TypeParts == TypeOK <=> RowsTyped /\ ToolsTyped /\ ActorsTyped
  BY DEF TypeOK, RowsTyped, ToolsTyped, ActorsTyped

\* A bounded event counts itself.
LEMMA InterveneType ==
    ASSUME ActorsTyped, Intervene
    PROVE  interventions' \in 0 .. MaxInterventions
  BY BoundAssumption, SMT DEF ActorsTyped, Intervene

\* A cancel call and a monitor move from one typed point to another.
LEMMA GoesType ==
    ASSUME ActorsTyped, NEW c, NEW point \in CancelPoint, Goes(c, point)
    PROVE  canceler' \in [Caller -> CancelPoint]
  BY Zenon DEF ActorsTyped, Goes

\* An error sends a cancel call to a typed point.
LEMMA RaisesType ==
    ASSUME ActorsTyped, NEW c, Raises(c)
    PROVE  canceler' \in [Caller -> CancelPoint]
  <1>1. PICK point \in {"idle", "raised"} : Goes(c, point)
    BY DEF Raises
  <1> QED
    BY <1>1, GoesType DEF CancelPoint

\* A monitor moves from one typed point to another.
LEMMA MovesType ==
    ASSUME ActorsTyped, NEW p \in Process,
           NEW point \in {"idle", "listed", "cancel", "canceling", "commit", "receipt", "release"},
           Moves(p, point)
    PROVE  monitor' \in [Process -> Monitor]
  <1>0. monitor[p] \in Monitor
    BY DEF ActorsTyped
  <1>1. [monitor[p] EXCEPT !.at = point] \in Monitor
    BY <1>0, Zenon DEF Monitor
  <1> QED
    BY <1>1, Zenon DEF ActorsTyped, Moves

\* Dropping a candidate leaves the monitor typed.
LEMMA IdleType ==
    ASSUME ActorsTyped, NEW p \in Process, monitor' = [monitor EXCEPT ![p] = IdleMonitor]
    PROVE  monitor' \in [Process -> Monitor]
  <1>1. IdleMonitor \in Monitor
    BY DEF IdleMonitor, Monitor
  <1> QED
    BY <1>1, Zenon DEF ActorsTyped

\* Time, new and dying processes.
LEMMA ProcessEffect ==
    ASSUME TypeOK, HeldRun, NEW p \in Process,
           LeaseExpires \/ Stall \/ StartProcess(p) \/ Crash(p)
    PROVE  Effect
  <1> USE TypeParts
  <1>1. CASE LeaseExpires
    <2>1. Step
      BY <1>1, ExpiryStep DEF LeaseExpires, HeldRun
    <2> QED
      BY <1>1, <2>1 DEF LeaseExpires, Effect, ToolStep, ActorsTyped, actors
  <1>2. CASE Stall
    <2>1. Step
      BY <1>2, ExpiryStep DEF Stall, HeldRun
    <2> QED
      BY <1>2, <2>1, InterveneType DEF Stall, Effect, ToolStep, ActorsTyped, actors
  <1>3. CASE StartProcess(p)
    <2>1. Step
      BY <1>3, IdleStep DEF StartProcess, rows
    <2> QED
      BY <1>3, <2>1 DEF StartProcess, Effect, ToolStep, ActorsTyped
  <1>4. CASE Crash(p)
    <2>1. Step
      BY <1>4, IdleStep DEF Crash, rows
    <2>2. monitor' \in [Process -> Monitor]
      BY <1>4, IdleType DEF Crash
    <2>3. canceler' \in [Caller -> CancelPoint]
      BY <1>4 DEF Crash, ActorsTyped, CancelPoint
    <2> QED
      BY <1>4, <2>1, <2>2, <2>3, InterveneType DEF Crash, Effect, ToolStep, ActorsTyped
  <1> QED
    BY <1>1, <1>2, <1>3, <1>4

\* The executor.
LEMMA ExecutorEffect ==
    ASSUME TypeOK, NEW p \in Process,
           \/ Claim(p) \/ ExecutorStops(p) \/ ExecutorReleases(p)
           \/ \E status \in Final : ExecutorCommits(p, status)
           \/ \E t \in Tool : ExecuteOnce(p, t),
           HeldRun
    PROVE  Effect
  <1> USE TypeParts
  <1>1. CASE Claim(p)
    <2>1. Step
      <3>1. run.status = "running" /\ run.lease # "live" /\ TakeOver(p)
        BY <1>1, ProcessAssumption DEF Claim, CanClaim, Unheld, HeldRun
      <3> QED
        BY <1>1, <3>1, TakeOverStep DEF Claim
    <2> QED
      BY <1>1, <2>1 DEF Claim, TakeOver, Effect, ToolStep, ActorsTyped
  <1>2. CASE ExecutorStops(p)
    <2>1. Step
      BY <1>2, IdleStep DEF ExecutorStops, rows
    <2> QED
      BY <1>2, <2>1 DEF ExecutorStops, Effect, ToolStep, ActorsTyped
  <1>3. CASE ExecutorReleases(p)
    <2>1. Step
      BY <1>3, ReleaseStep DEF ExecutorReleases
    <2> QED
      BY <1>3, <2>1, InterveneType DEF ExecutorReleases, Effect, ToolStep, ActorsTyped
  <1>4. ASSUME NEW status \in Final, ExecutorCommits(p, status) PROVE Effect
    <2>1. Step
      BY <1>4, CommitStep DEF ExecutorCommits
    <2> QED
      BY <1>4, <2>1 DEF ExecutorCommits, Effect, ToolStep, ActorsTyped
  <1>5. ASSUME NEW t \in Tool, ExecuteOnce(p, t) PROVE Effect
    <2>1. Step
      BY <1>5, IdleStep DEF ExecuteOnce, rows
    <2> QED
      BY <1>5, <2>1 DEF ExecuteOnce, Effect, ToolStep, ActorsTyped, actors, rows
  <1> QED
    BY <1>1, <1>2, <1>3, <1>4, <1>5

\* The commands of the user that write at once.
LEMMA CommandEffect ==
    ASSUME TypeOK, HeldRun, NEW p \in Process,
           RequestCancellation \/ DeleteSource \/ UserCancels(p)
    PROVE  Effect
  <1> USE TypeParts
  <1>1. CASE RequestCancellation
    <2>1. run' = [run EXCEPT !.cancelRequested = TRUE] /\ UNCHANGED <<receipt, journal>>
      BY <1>1 DEF RequestCancellation
    <2>2. run' \in RunRow
      BY <2>1, Zenon DEF RowsTyped, RunRow
    <2>3. Passes
      BY <1>1, <2>1 DEF RequestCancellation, Passes, RowsTyped, RunRow, HeldRun
    <2>4. Step
      BY <2>1, <2>2, <2>3 DEF Step, RowsTyped
    <2> QED
      BY <1>1, <2>4, InterveneType DEF RequestCancellation, Effect, ToolStep, ActorsTyped, actors
  <1>2. CASE DeleteSource
    <2>1. run' = [Ended("canceled") EXCEPT !.cancelRequested = TRUE]
      BY <1>2 DEF DeleteSource
    <2>2. "canceled" \in Final
      BY DEF Final
    <2>3. run' \in RunRow
      BY <2>1, <2>2, EndedType, Zenon DEF RunRow
    <2>4. Ends
      BY <1>2, <2>1, <2>2, EndedType DEF DeleteSource, Ends, RunRow
    <2>5. Step
      BY <1>2, <2>3, <2>4 DEF DeleteSource, Step, RowsTyped
    <2> QED
      BY <1>2, <2>5, InterveneType DEF DeleteSource, Effect, ToolStep, ActorsTyped, actors
  <1>3. CASE UserCancels(p)
    <2>1. Step
      BY <1>3, IdleStep DEF UserCancels, rows
    <2>2. canceler' \in [Caller -> CancelPoint]
      BY <1>3, GoesType DEF UserCancels, CancelPoint
    <2> QED
      BY <1>3, <2>1, <2>2, InterveneType DEF UserCancels, Effect, ToolStep, ActorsTyped
  <1> QED
    BY <1>1, <1>2, <1>3

\* A cancel call.
LEMMA CancelEffect ==
    ASSUME TypeOK, HeldRun, NEW c \in Caller, CancelStep(c) \/ CancelCommitFails(c)
    PROVE  Effect
  <1> USE TypeParts
  <1>0. PICK p \in Process, kind \in {"user", "monitor"} : c = <<p, kind>>
    BY DEF Caller
  <1>a. c[1] = p /\ c[2] = kind
    BY <1>0
  <1>1. CASE CancelLoad(c)
    <2>1. Step
      BY <1>1, IdleStep DEF CancelLoad, rows
    <2>2. canceler' \in [Caller -> CancelPoint]
      BY <1>1, GoesType, RaisesType DEF CancelLoad, CancelPoint
    <2> QED
      BY <1>1, <2>1, <2>2 DEF CancelLoad, Effect, ToolStep, ActorsTyped
  <1>2. CASE CancelFence(c)
    <2>1. Step
      BY <1>2, FenceStep, IdleStep DEF CancelFence, rows
    <2>2. canceler' \in [Caller -> CancelPoint]
      BY <1>2, GoesType, RaisesType DEF CancelFence, CancelPoint
    <2> QED
      BY <1>2, <2>1, <2>2 DEF CancelFence, Effect, ToolStep, ActorsTyped
  <1>3. CASE CancelClaim(c)
    <2>1. CASE CanClaimToCancel
      <3>1. TakeOver(p) /\ UNCHANGED <<receipt, journal>>
        BY <1>3, <1>a, <2>1 DEF CancelClaim
      <3>2. run.status = "running" /\ run.lease # "live"
        BY <2>1, ProcessAssumption DEF CanClaimToCancel, Unheld, HeldRun
      <3>3. Step
        BY <3>1, <3>2, TakeOverStep
      <3>4. canceler' \in [Caller -> CancelPoint]
        BY <1>3, <2>1, GoesType DEF CancelClaim, CancelPoint
      <3> QED
        BY <1>3, <3>1, <3>3, <3>4 DEF CancelClaim, TakeOver, Effect, ToolStep, ActorsTyped
    <2>2. CASE ~CanClaimToCancel
      <3>1. Step
        BY <1>3, <2>2, IdleStep DEF CancelClaim, rows
      <3>2. canceler' \in [Caller -> CancelPoint]
        BY <1>3, <2>2, GoesType DEF CancelClaim, CancelPoint
      <3> QED
        BY <1>3, <2>2, <3>1, <3>2 DEF CancelClaim, Effect, ToolStep, ActorsTyped
    <2> QED
      BY <2>1, <2>2
  <1>4. CASE CancelCommit(c)
    <2>1. Step
      BY <1>4, CommitStep, IdleStep DEF CancelCommit, rows, Final
    <2>2. canceler' \in [Caller -> CancelPoint]
      BY <1>4, GoesType DEF CancelCommit, CancelPoint
    <2> QED
      BY <1>4, <2>1, <2>2 DEF CancelCommit, Effect, ToolStep, ActorsTyped
  <1>5. CASE CancelCommitFails(c)
    <2>1. Step
      BY <1>5, IdleStep DEF CancelCommitFails, rows
    <2>2. canceler' \in [Caller -> CancelPoint]
      BY <1>5, GoesType, RaisesType DEF CancelCommitFails, CancelPoint
    <2> QED
      BY <1>5, <2>1, <2>2, InterveneType DEF CancelCommitFails, Effect, ToolStep, ActorsTyped
  <1>6. CASE CancelRelease(c)
    <2>1. Step
      BY <1>6, ReleaseStep DEF CancelRelease
    <2>2. canceler' \in [Caller -> CancelPoint]
      BY <1>6, RaisesType DEF CancelRelease
    <2> QED
      BY <1>6, <2>1, <2>2 DEF CancelRelease, Effect, ToolStep, ActorsTyped
  <1>7. CASE CancelComplete(c)
    <2>1. Step
      BY <1>7, CloseStep DEF CancelComplete
    <2>2. canceler' \in [Caller -> CancelPoint]
      BY <1>7, GoesType DEF CancelComplete, CancelPoint
    <2> QED
      BY <1>7, <2>1, <2>2 DEF CancelComplete, Effect, ToolStep, ActorsTyped
  <1> QED
    BY <1>1, <1>2, <1>3, <1>4, <1>5, <1>6, <1>7 DEF CancelStep

\* The orphan monitor.
LEMMA MonitorEffect ==
    ASSUME TypeOK, HeldRun, NEW p \in Process, MonitorStep(p) \/ MonitorCommitFails(p)
    PROVE  Effect
  <1> USE TypeParts
  <1>0. monitor[p] \in Monitor
    BY DEF ActorsTyped
  <1>1. CASE MonitorLists(p)
    <2>1. Step
      BY <1>1, IdleStep DEF MonitorLists, rows
    <2>2. PICK decision \in {"cancel", "pause_recoverable", "fail"} :
              monitor' = [monitor EXCEPT ![p] =
                  [at |-> "listed", owner |-> run.owner, attempt |-> run.attempt,
                   decision |-> decision]]
      BY <1>1 DEF MonitorLists
    <2>3. [at |-> "listed", owner |-> run.owner, attempt |-> run.attempt,
           decision |-> decision] \in Monitor
      BY DEF Monitor, RowsTyped, RunRow
    <2>4. monitor' \in [Process -> Monitor]
      BY <2>2, <2>3, Zenon DEF ActorsTyped
    <2> QED
      BY <1>1, <2>1, <2>4 DEF MonitorLists, Effect, ToolStep, ActorsTyped
  <1>2. CASE MonitorClaims(p)
    <2>1. CASE CanClaimOrphan(monitor[p])
      <3>1. TakeOver(p) /\ UNCHANGED <<receipt, journal>>
        BY <1>2, <2>1 DEF MonitorClaims
      <3>2. run.status = "running" /\ run.lease # "live"
        BY <2>1, ProcessAssumption DEF CanClaimOrphan, Unheld, HeldRun
      <3>3. Step
        BY <3>1, <3>2, TakeOverStep
      <3>4. monitor' \in [Process -> Monitor]
        BY <1>2, <2>1, MovesType DEF MonitorClaims
      <3> QED
        BY <1>2, <3>1, <3>3, <3>4 DEF MonitorClaims, TakeOver, Effect, ToolStep, ActorsTyped
    <2>2. CASE ~CanClaimOrphan(monitor[p])
      <3>1. Step
        BY <1>2, <2>2, IdleStep DEF MonitorClaims, rows
      <3>2. monitor' \in [Process -> Monitor]
        BY <1>2, <2>2, IdleType DEF MonitorClaims
      <3> QED
        BY <1>2, <2>2, <3>1, <3>2 DEF MonitorClaims, Effect, ToolStep, ActorsTyped
    <2> QED
      BY <2>1, <2>2
  <1>3. CASE MonitorCancels(p)
    <2>1. Step
      BY <1>3, IdleStep DEF MonitorCancels, rows
    <2>2. monitor' \in [Process -> Monitor] /\ canceler' \in [Caller -> CancelPoint]
      BY <1>3, MovesType, GoesType DEF MonitorCancels, CancelPoint
    <2> QED
      BY <1>3, <2>1, <2>2 DEF MonitorCancels, Effect, ToolStep, ActorsTyped
  <1>4. CASE MonitorCancelReturns(p)
    <2>1. Step
      BY <1>4, IdleStep DEF MonitorCancelReturns, rows
    <2>2. monitor' \in [Process -> Monitor] /\ canceler' \in [Caller -> CancelPoint]
      BY <1>4, MovesType, GoesType DEF MonitorCancelReturns, CancelPoint
    <2> QED
      BY <1>4, <2>1, <2>2 DEF MonitorCancelReturns, Effect, ToolStep, ActorsTyped
  <1>5. CASE MonitorCommits(p)
    <2>1. StatusOf(monitor[p].decision) \in Final
      BY DEF StatusOf, Final
    <2>2. Step
      BY <1>5, <2>1, CommitStep, IdleStep DEF MonitorCommits, rows
    <2>3. monitor' \in [Process -> Monitor]
      BY <1>5, MovesType, IdleType DEF MonitorCommits
    <2> QED
      BY <1>5, <2>2, <2>3 DEF MonitorCommits, Effect, ToolStep, ActorsTyped
  <1>6. CASE MonitorCommitFails(p)
    <2>1. Step
      BY <1>6, IdleStep DEF MonitorCommitFails, rows
    <2>2. monitor' \in [Process -> Monitor]
      BY <1>6, MovesType DEF MonitorCommitFails
    <2> QED
      BY <1>6, <2>1, <2>2, InterveneType DEF MonitorCommitFails, Effect, ToolStep, ActorsTyped
  <1>7. CASE MonitorCompletesReceipt(p)
    <2>1. Step
      BY <1>7, CloseStep DEF MonitorCompletesReceipt
    <2>2. monitor' \in [Process -> Monitor]
      BY <1>7, IdleType DEF MonitorCompletesReceipt
    <2> QED
      BY <1>7, <2>1, <2>2 DEF MonitorCompletesReceipt, Effect, ToolStep, ActorsTyped
  <1>8. CASE MonitorReleases(p)
    <2>1. Step
      BY <1>8, ReleaseStep DEF MonitorReleases
    <2>2. monitor' \in [Process -> Monitor]
      BY <1>8, IdleType DEF MonitorReleases
    <2> QED
      BY <1>8, <2>1, <2>2 DEF MonitorReleases, Effect, ToolStep, ActorsTyped
  <1> QED
    BY <1>1, <1>2, <1>3, <1>4, <1>5, <1>6, <1>7, <1>8 DEF MonitorStep

\* So does every step of the system.
LEMMA NextEffect == ASSUME TypeOK, HeldRun, Next PROVE Effect
  BY ProcessAssumption, ProcessEffect, ExecutorEffect, CommandEffect, CancelEffect,
     MonitorEffect DEF Next

-----------------------------------------------------------------------------
\* The inductive invariant: what the Run, the receipt and the journal say of
\* each other, and one effect for each recorded tool call.

RecordedOnce == \A t \in Tool : effects[t] = IF t \in recorded THEN 1 ELSE 0

Inv ==
    /\ TypeOK
    /\ HeldRun
    /\ CancelRequestWins
    /\ ReceiptAgrees
    /\ JournalTellsStatus
    /\ RecordedOnce

\* Create writes a Run that satisfies it.
LEMMA InitInv == Init => Inv
  <1> SUFFICES ASSUME Init PROVE Inv
    OBVIOUS
  <1> USE ProcessAssumption DEF Init
  <1>1. RowsTyped
    BY DEF RowsTyped, RunRow, Receipt, Final
  <1>2. ToolsTyped
    BY DEF ToolsTyped
  <1>3. ActorsTyped
    <2>1. IdleMonitor \in Monitor
      BY DEF IdleMonitor, Monitor
    <2>2. interventions \in 0 .. MaxInterventions
      BY BoundAssumption, SMT
    <2>3. canceler \in [Caller -> CancelPoint]
      BY DEF CancelPoint
    <2> QED
      BY <2>1, <2>2, <2>3 DEF ActorsTyped
  <1>4. HeldRun /\ CancelRequestWins /\ ReceiptAgrees /\ JournalTellsStatus /\ RecordedOnce
    BY DEF HeldRun, CancelRequestWins, ReceiptAgrees, JournalTellsStatus, RecordedOnce
  <1> QED
    BY <1>1, <1>2, <1>3, <1>4, TypeParts DEF Inv

\* Each way to touch the rows keeps what they say of each other.
LEMMA StepKeepsRows ==
    ASSUME Inv, Step
    PROVE  HeldRun' /\ CancelRequestWins' /\ ReceiptAgrees' /\ JournalTellsStatus'
  <1> USE DEF Inv
  <1>0. RowsTyped /\ RowsTyped'
    BY TypeParts DEF Step
  <1>1. CASE UNCHANGED rows
    BY <1>1 DEF rows, HeldRun, CancelRequestWins, ReceiptAgrees, JournalTellsStatus
  <1>2. CASE Passes
    <2>1. HeldRun' /\ CancelRequestWins'
      BY <1>2 DEF Passes, HeldRun, CancelRequestWins
    <2>2. ReceiptAgrees'
      BY <1>2 DEF Passes, ReceiptAgrees
    <2>3. JournalTellsStatus'
      BY <1>2 DEF Passes, JournalTellsStatus
    <2> QED
      BY <2>1, <2>2, <2>3
  <1>3. CASE FencesFirst
    <2>1. /\ run'.status = run.status /\ run'.lease = run.lease /\ run'.owner = run.owner
          /\ run'.cancelRequested /\ run'.epoch = run.epoch + 1
      BY <1>0, <1>3 DEF FencesFirst, Fenced, RowsTyped, RunRow
    <2>2. run.epoch + 1 > 0
      BY <1>0, SMT DEF RowsTyped, RunRow
    <2>3. HeldRun' /\ CancelRequestWins'
      BY <1>3, <2>1 DEF FencesFirst, HeldRun, CancelRequestWins
    <2>4. ReceiptAgrees'
      BY <1>3, <2>1, <2>2 DEF FencesFirst, ReceiptAgrees
    <2>5. JournalTellsStatus'
      BY <1>3, <2>1 DEF FencesFirst, JournalTellsStatus
    <2> QED
      BY <2>3, <2>4, <2>5
  <1>4. CASE Ends
    <2>1. HeldRun' /\ CancelRequestWins'
      BY <1>4 DEF Ends, HeldRun, CancelRequestWins
    <2>2. ReceiptAgrees'
      BY <1>4 DEF Ends, ReceiptAgrees
    <2>3. journal = {}
      BY <1>0, <1>4 DEF Ends, JournalTellsStatus, RowsTyped, Final
    <2>4. JournalTellsStatus'
      BY <1>4, <2>3 DEF Ends, JournalTellsStatus
    <2> QED
      BY <2>1, <2>2, <2>4
  <1>5. CASE Closes
    <2>1. CASE run.status # "running" /\ receipt.status = "draining"
      <3>1. receipt' = [receipt EXCEPT !.status = "completed", !.final = run.status]
        BY <1>5, <2>1 DEF Closes, CompleteReceipt
      <3>2. receipt'.epoch = receipt.epoch /\ receipt'.final = run.status
        BY <1>0, <3>1 DEF RowsTyped, Receipt
      <3> QED
        BY <1>5, <2>1, <3>2 DEF Closes, HeldRun, CancelRequestWins, ReceiptAgrees,
                                JournalTellsStatus
    <2>2. CASE ~(run.status # "running" /\ receipt.status = "draining")
      BY <1>5, <2>2 DEF Closes, CompleteReceipt, HeldRun, CancelRequestWins, ReceiptAgrees,
                        JournalTellsStatus
    <2> QED
      BY <2>1, <2>2
  <1> QED
    BY <1>1, <1>2, <1>3, <1>4, <1>5 DEF Step

\* Tool calls keep one effect for each record.
LEMMA ToolStepKeeps ==
    ASSUME ToolsTyped, RecordedOnce, ToolStep
    PROVE  ToolsTyped' /\ RecordedOnce'
  <1>1. CASE UNCHANGED <<recorded, effects>>
    BY <1>1 DEF ToolsTyped, RecordedOnce
  <1>2. ASSUME NEW t \in Tool \ recorded,
               effects' = [effects EXCEPT ![t] = @ + 1], recorded' = recorded \union {t}
        PROVE  ToolsTyped' /\ RecordedOnce'
    BY <1>2, SMT DEF ToolsTyped, RecordedOnce
  <1> QED
    BY <1>1, <1>2 DEF ToolStep

\* The invariant is inductive.
LEMMA NextInv == Inv /\ [Next]_vars => Inv'
  <1> SUFFICES ASSUME Inv, [Next]_vars PROVE Inv'
    OBVIOUS
  <1>1. CASE Next
    <2>1. Step /\ ToolStep /\ ActorsTyped'
      BY <1>1, NextEffect DEF Inv, Effect
    <2>2. HeldRun' /\ CancelRequestWins' /\ ReceiptAgrees' /\ JournalTellsStatus'
      BY <2>1, StepKeepsRows
    <2>3. ToolsTyped' /\ RecordedOnce'
      BY <2>1, ToolStepKeeps, TypeParts DEF Inv
    <2>4. RowsTyped'
      BY <2>1 DEF Step
    <2>5. TypeOK'
      BY <2>1, <2>3, <2>4 DEF TypeOK, RowsTyped, ToolsTyped, ActorsTyped
    <2> QED
      BY <2>2, <2>3, <2>5 DEF Inv
  <1>2. CASE UNCHANGED vars
    BY <1>2 DEF vars, actors, Inv, TypeOK, HeldRun, CancelRequestWins, ReceiptAgrees,
                JournalTellsStatus, RecordedOnce
  <1> QED
    BY <1>1, <1>2

\* Every reachable state satisfies it.
THEOREM RunInvariant == Spec => []Inv
  BY InitInv, NextInv, PTL DEF Spec

\* Every variable keeps its type.
THEOREM RunTypeCorrect == Spec => []TypeOK
  <1>1. Inv => TypeOK
    BY DEF Inv
  <1> QED
    BY <1>1, RunInvariant, PTL

\* A Run whose cancellation was requested ends canceled, for any number of
\* backends that execute, cancel and settle it.
THEOREM CancelRequestAlwaysWins == Spec => []CancelRequestWins
  <1>1. Inv => CancelRequestWins
    BY DEF Inv
  <1> QED
    BY <1>1, RunInvariant, PTL

\* The cancellation receipt never contradicts the Run.
THEOREM ReceiptAlwaysAgrees == Spec => []ReceiptAgrees
  <1>1. Inv => ReceiptAgrees
    BY DEF Inv
  <1> QED
    BY <1>1, RunInvariant, PTL

\* The journal never announces an end the Run did not come to.
THEOREM JournalAlwaysTellsStatus == Spec => []JournalTellsStatus
  <1>1. Inv => JournalTellsStatus
    BY DEF Inv
  <1> QED
    BY <1>1, RunInvariant, PTL

\* No tool call takes effect twice, however many tools and take-overs.
THEOREM EachToolAtMostOnce == Spec => []EachToolOnce
  <1>1. Inv => EachToolOnce
    BY SMT DEF Inv, RecordedOnce, EachToolOnce
  <1> QED
    BY <1>1, RunInvariant, PTL

-----------------------------------------------------------------------------
\* What a step may never do.

KeepsLiveLease == run.lease = "live" => run'.attempt = run.attempt

KeepsEnd == run.status # "running" => run' = run

KeepsEffects == receipt.status # "none" => effects' = effects

\* All three follow from the invariant and the five ways to touch the rows.
LEMMA StepKeeps ==
    Inv /\ [Next]_vars => [KeepsLiveLease]_vars /\ [KeepsEnd]_vars /\ [KeepsEffects]_vars
  <1> SUFFICES ASSUME Inv, Next PROVE KeepsLiveLease /\ KeepsEnd /\ KeepsEffects
    OBVIOUS
  <1>1. Step /\ ToolStep
    BY NextEffect DEF Inv, Effect
  <1>2. RowsTyped
    BY TypeParts DEF Inv
  <1>3. KeepsLiveLease
    <2>1. FencesFirst => run'.attempt = run.attempt
      BY <1>2 DEF FencesFirst, Fenced, RowsTyped, RunRow
    <2> QED
      BY <1>1, <2>1 DEF KeepsLiveLease, Step, rows, Passes, Ends, Closes
  <1>4. KeepsEnd
    BY <1>1 DEF KeepsEnd, Step, rows, Passes, FencesFirst, Ends, Closes
  <1>5. KeepsEffects
    BY <1>1 DEF KeepsEffects, ToolStep, Inv, ReceiptAgrees
  <1> QED
    BY <1>3, <1>4, <1>5

\* No process takes a Run over whose lease is live, for any number of them.
THEOREM LiveLeaseStaysKept == Spec => LiveLeaseIsKept
  <1>1. Inv /\ [Next]_vars => [KeepsLiveLease]_vars
    BY StepKeeps
  <1>2. Spec => [][KeepsLiveLease]_vars
    BY <1>1, RunInvariant, PTL DEF Spec
  <1> QED
    BY <1>2, PTL DEF KeepsLiveLease, LiveLeaseIsKept

\* Nothing changes a Run that has ended.
THEOREM EndedRunStaysFinal == Spec => EndedRunIsFinal
  <1>1. Inv /\ [Next]_vars => [KeepsEnd]_vars
    BY StepKeeps
  <1>2. Spec => [][KeepsEnd]_vars
    BY <1>1, RunInvariant, PTL DEF Spec
  <1> QED
    BY <1>2, PTL DEF KeepsEnd, EndedRunIsFinal

\* No tool takes effect after the fence.
THEOREM FenceAlwaysStopsTools == Spec => FenceStopsTools
  <1>1. Inv /\ [Next]_vars => [KeepsEffects]_vars
    BY StepKeeps
  <1>2. Spec => [][KeepsEffects]_vars
    BY <1>1, RunInvariant, PTL DEF Spec
  <1> QED
    BY <1>2, PTL DEF KeepsEffects, FenceStopsTools

-----------------------------------------------------------------------------
\* The contending backends implement RunOutcome: each of the five ways to touch
\* the rows is a step of it, or none that it sees.

\* What RunOutcome sees of the rows.
SeenOutcome(r) == IF r.status = "running" THEN "open" ELSE r.status
SeenAnswer(c) == IF c.status = "none" THEN "none"
                 ELSE IF c.status = "draining" THEN "pending" ELSE c.final

\* Passing the Run on is unseen, unless it asks to cancel.
LEMMA PassesSeen ==
    ASSUME Inv, Passes, RowsTyped', UNCHANGED effects PROVE [Outcome!Next]_(Outcome!promise)
  <1>1. /\ SeenOutcome(run) = "open" /\ SeenOutcome(run') = "open"
        /\ UNCHANGED <<receipt, journal, effects>>
    BY DEF Passes, SeenOutcome
  <1>2. run.cancelRequested \in BOOLEAN /\ run'.cancelRequested \in BOOLEAN
    BY DEF Inv, TypeOK, RowsTyped, RunRow
  <1>3. CASE run'.cancelRequested = run.cancelRequested
    <2>1. UNCHANGED Outcome!promise
      BY <1>1, <1>3 DEF Outcome!promise, SeenOutcome
    <2> QED
      BY <2>1
  <1>4. CASE ~run.cancelRequested /\ run'.cancelRequested
    <2>1. Outcome!Ask
      BY <1>1, <1>2, <1>4 DEF Outcome!Ask, SeenOutcome
    <2> QED
      BY <2>1 DEF Outcome!Next
  <1> QED
    BY <1>2, <1>3, <1>4 DEF Passes

\* A first fence is one.
LEMMA FenceSeen ==
    ASSUME Inv, FencesFirst, UNCHANGED effects PROVE Outcome!Next
  <1>1. run'.status = "running" /\ run'.cancelRequested = TRUE
    BY DEF FencesFirst, Fenced, Inv, TypeOK, RunRow
  <1>2. receipt.status = "none" /\ receipt'.status = "draining" /\ run.status = "running"
    BY DEF FencesFirst
  <1>3. Outcome!Fence
    BY <1>1, <1>2 DEF Outcome!Fence, FencesFirst
  <1> QED
    BY <1>3 DEF Outcome!Next

\* A Run ends as it was asked to, and the journal tells of no other end.
LEMMA EndSeen ==
    ASSUME Inv, Ends, RowsTyped', UNCHANGED effects PROVE Outcome!Next
  <1>1. /\ run.status = "running" /\ run'.status \in Final /\ run'.status # "running"
        /\ UNCHANGED <<receipt, effects>>
    BY DEF Ends, Final
  <1>2. run.cancelRequested \in BOOLEAN /\ run'.cancelRequested \in BOOLEAN
    BY DEF Inv, TypeOK, RowsTyped, RunRow
  <1>3. /\ run'.cancelRequested \in {run.cancelRequested, TRUE}
        /\ run'.cancelRequested => run'.status = "canceled"
    BY <1>2 DEF Ends
  <1>4. journal = {}
    BY <1>1 DEF Inv, TypeOK, JournalTellsStatus, Final
  <1>5. journal' \in {journal, {run'.status}}
    BY <1>4 DEF Ends
  <1>6. Outcome!End(run'.status)
    BY <1>1, <1>3, <1>5 DEF Outcome!End
  <1> QED
    BY <1>1, <1>6 DEF Outcome!Next

\* A completed receipt answers with the end the Run came to.
LEMMA AnswerSeen ==
    ASSUME Inv, Closes, UNCHANGED effects PROVE [Outcome!Next]_(Outcome!promise)
  <1>1. UNCHANGED <<run, journal>> /\ receipt \in Receipt
    BY DEF Closes, Inv, TypeOK
  <1>2. CASE run.status # "running" /\ receipt.status = "draining"
    <2>1. receipt' = [receipt EXCEPT !.status = "completed", !.final = run.status]
      BY <1>2 DEF Closes, CompleteReceipt
    <2>2. receipt'.status = "completed" /\ receipt'.final = run.status
      BY <1>1, <2>1 DEF Receipt
    <2>3. run.status \in Final \union {"running"}
      BY DEF Inv, TypeOK, RunRow
    <2>4. Outcome!Answer
      BY <1>1, <1>2, <2>2, <2>3 DEF Outcome!Answer, Final
    <2> QED
      BY <2>4 DEF Outcome!Next
  <1>3. CASE ~(run.status # "running" /\ receipt.status = "draining")
    <2>1. UNCHANGED Outcome!promise
      BY <1>1, <1>3 DEF Closes, CompleteReceipt, Outcome!promise
    <2> QED
      BY <2>1
  <1> QED
    BY <1>2, <1>3

\* A tool call takes effect for the first time.
LEMMA ActSeen ==
    ASSUME Inv, UNCHANGED rows, run.status = "running", ~run.cancelRequested,
           NEW t \in Tool \ recorded, effects' = [effects EXCEPT ![t] = @ + 1]
    PROVE  Outcome!Next
  <1>1. effects[t] = 0
    BY DEF Inv, RecordedOnce
  <1>2. effects' = [effects EXCEPT ![t] = 1]
    BY <1>1
  <1>3. Outcome!Act(t)
    BY <1>1, <1>2 DEF Outcome!Act, rows
  <1> QED
    BY <1>3 DEF Outcome!Next

\* A step the rows do not see.
LEMMA StillSeen ==
    ASSUME UNCHANGED rows, UNCHANGED effects PROVE UNCHANGED Outcome!promise
  BY DEF rows, Outcome!promise

\* Every step is a step of RunOutcome, or one it does not see.
LEMMA OutcomeStep == Inv /\ Inv' /\ [Next]_vars => [Outcome!Next]_(Outcome!promise)
  <1> SUFFICES ASSUME Inv, Inv', [Next]_vars PROVE [Outcome!Next]_(Outcome!promise)
    OBVIOUS
  <1>1. CASE UNCHANGED vars
    BY <1>1, StillSeen DEF vars, rows
  <1>2. CASE Next
    <2>1. Step /\ ToolStep
      BY <1>2, NextEffect DEF Inv, Effect
    <2>2. CASE UNCHANGED effects
      BY <2>1, <2>2, PassesSeen, FenceSeen, EndSeen, AnswerSeen, StillSeen DEF Step
    <2>3. CASE ~UNCHANGED effects
      <3>1. PICK t \in Tool \ recorded :
               /\ effects' = [effects EXCEPT ![t] = @ + 1]
               /\ run.status = "running" /\ ~run.cancelRequested /\ UNCHANGED rows
        BY <2>1, <2>3 DEF ToolStep
      <3> QED
        BY <3>1, ActSeen
    <2> QED
      BY <2>2, <2>3
  <1> QED
    BY <1>1, <1>2

\* A created Run has promised nothing yet.
LEMMA OutcomeInit == Init => Outcome!Init
  BY DEF Init, Outcome!Init

\* The contending backends keep the promise of one Run, however many there are:
\* it ends once, canceled if asked; tools act once and before; the journal and
\* the answer to a cancellation tell how it ended.
THEOREM RunKeepsPromise == Spec => OutcomeSpec
  <1>1. Inv /\ Inv' /\ [Next]_vars => [Outcome!Next]_(Outcome!promise)
    BY OutcomeStep
  <1> QED
    BY <1>1, OutcomeInit, RunInvariant, PTL DEF Spec, OutcomeSpec, Outcome!Spec

=============================================================================
