# PurrTypos: verified models of the agent control plane

PurrTypos is a local-first novel-writing application: a React front end, an
Electron host and a FastAPI backend that keeps everything in one SQLite
database. The part of it that is hard to get right is the durable control of
agent work: tasks that run for hours, are split over several workers, survive
crashes of the backend, are paused and resumed by users and by the system, and
must never lose, duplicate or resurrect work; and, around it, the two places
where that work meets the author's own: the revisions of a screenplay project
and the Markdown files shared with an external editor. This directory models
these parts in TLA+, checks them with TLC and proves their central facts with
TLAPS.

## 1. Inventory

| part | state it keeps | operations | how it interacts | what is hard |
| --- | --- | --- | --- | --- |
| Long-task repository (`backend/infrastructure/persistence/sqlite_long_task_repository.py`) | one row per task, one per work unit (status, dependencies, attempts, lease, epoch), usage rows | create, start, claim, bind, renew, complete, settle failure, split, interrupt, pause, resume, cancel, fail, finalize, restart recovery | called by the executor of the external `purra` package, by product services and by the startup code | late calls of workers whose lease was taken over; cancellation, deadline and budget against units in flight; splits rewriting the DAG; counters that decide completion |
| Novel Analysis recovery (`backend/agents/novel_analysis/automatic_recovery.py`, `recovery_service.py`, `product_service.py`) | in-process set of dispatched tasks | scan for due tasks, dispatch, validate, resume, submit a Root Run, pause, cancel | reads task rows, acts on them later | crash between resume and submission; user commands against a dispatched recovery; termination of automatic recovery |
| Startup and orphan monitor (`backend/main.py`, `orphan_run_monitor.py`, `agent_orphan_recovery_service.py`) | none of its own | checkpoint abandoned tasks, settle Runs whose lease expired | reads unit leases, settles Runs, pauses tasks | liveness after a crash with leases still live |
| Run execution control (`run_execution_store.py`, `sqlite_run_repository.py`, `agent_cancellation_service.py`) | owner, lease, attempt and cancellation receipt of a Run | claim, renew, release, commit, request and complete cancellation, claim orphans | executor, cancellation worker and orphan monitor compete for the row | a stale executor committing; cancellation racing the terminal commit |
| Provider health (`provider_health_repository.py`) | circuit state, call leases, recovery ramp | acquire, release, record success and failure | every model call | half-open probes, late results, capacity leases of dead processes |
| Writing chat requests (`writing_chat_request_store.py`) | one receipt per request | reserve, claim, before submit, bind Run, cancel, reject | renderer, submit task, cancel request | cancel before, during and after the Run is bound; one piece of work per session; a start that settles the requests of a living backend |
| Screenplay turns (`agents/screenplay/conversation_projection.py`, `recovery_service.py`, `conversation_service.py`) | turn, operation, reservations of resumes, cancel receipts | admit, dispatch, claim, begin, reserve, validate, continue, commit, cancel, recover stale admissions | routes, background tasks, Run projectors and startup write the rows of one turn | two dispatches of one turn; a resume taken over after its lease; a cancel between claim and begin; a failed start after another one's claim; startup recovery in three transactions |
| Screenplay projects (`sqlite_screenplay_v2_repository.py`, `revision_projector.py`, `truncation_service.py`) | immutable revisions, heads, working copies, decisions, finalization, command receipts | ten commands of the author; compile, project, truncate of agent tasks | windows send commands by what they have read; tasks project by what they have read | stale windows, lost answers, archive and truncation against tasks in flight, merging over a baseline |
| Shared material files (`material_transaction.py`, `creation_material_service.py`, `database/connection.py`) | files, intents, displaced copies, receipt rows | synchronize, stage, prepare, commit, roll back, recover | one database transaction with files as participants, against an editor | crash between two system calls, cancellation during COMMIT, an editor between check and rename, or in a file just created |
| Memory delivery (`memory_delivery.py`) | outbox rows and source heads | record revision or deletion, deliver, recover | source transactions, background delivery, external memory store | duplicate and reordered delivery, attempt limits, crash during delivery |
| Approval gateway, artifact claims, output journal | approval rows and futures, writer leases, event journal | resolve, time out, acquire, append | tools, executor, routers | timeout against decision, writer take-over |
| Tool idempotency gateway (`sqlite_tool_idempotency_gateway.py`) | tool receipts | execute once | tools of a Run | replay after crash (in `RunControl`) |
| Agents' content (Novel Analysis execution, screenplay units, writing), story memory, compaction, continuation, backup, routers, front end, desktop host | product data | text and projections | use the control plane above | mostly data; left out, see section 14 |

`PROJECT.json` lists every component with its status and every hazard at the
line where it bites.

## 2. Plan

1. `LongTask`, with the abstract `WorkLedger` it implements, and its proofs
   (this is the core of the system: everything long-running goes through it);
2. `LongTaskRecovery`, which composes the task with its recovery, startup and
   user commands, for liveness;
3. `RunControl`: execution leases, cancellation, orphan settlement and tool
   idempotency of a Run, and its proofs;
4. `ProviderHealth` and `ChatRequest`, and their proofs;
5. `MaterialCommit`, `Screenplay` and `ScreenplayTurn`, the product side: files,
   revisions, and the turn that joins a conversation to Runs and tasks;
6. proofs about item 5, then the refinement `LongTask => WorkLedger` and the
   rest of the safety properties of `LongTask`;
7. proofs about what composes: that the task makes progress possible, that
   recovery keeps what the task keeps and is bounded, and that the contenders of
   `RunControl` keep the promise of `RunOutcome`, the chat requests that of
   `ChatSession`;
8. artifact writer claims, approvals and memory delivery.

Items 1 to 7 exist. Item 8 is open:
artifact claims repeat the lease pattern of `LongTask`; an approval is settled
inside one process by whichever of decision, timeout and cancellation the event
loop runs first; and what a second memory delivery does is decided by the
external store (`purra_mem0`), which this repository does not define.

Every module takes its bounds as CONSTANTS, has one action per operation and no
RECURSIVE operator, so that it can be proved about as well as checked.

## 3. The long task: `LongTask`, `MCLongTask`, `WorkLedger`

`LongTask` is one row of `ai_agent_long_tasks` with its rows of
`ai_agent_long_task_units`. Each repository method runs in one
`BEGIN IMMEDIATE` transaction under the connection lock, so each method is one
atomic action, and the interesting interleavings are those of whole calls by
callers that hold old information.

| variable | code |
| --- | --- |
| `task` | status, `cancel_requested_at_ms` set or not, stored counters (`total`, `done`, `failed`), state reason, automatic-recovery ledger in the metadata |
| `unit[u]` | status, required, dependencies, attempt and `max_attempts`, worker, lease epoch, lease deadline relative to now, worker that settled it, bound Run, retry backoff, wait ledger, `output_ref` |
| `used`, `recorded` | sum and keys of `ai_agent_long_task_usage` |
| `deadlineElapsed` | `deadline_at_ms <= now` |
| `tokens` | what callers remember: every (worker, unit, epoch) ever granted |

| action | method |
| --- | --- |
| `Start`, `Pause`, `ResumePaused`, `RetryFailed`, `Cancel`, `Fail`, `RequestCancel`, `FinalizeIfComplete`, `RecoverAfterRestart`, `RecordUsage` | the method of the same name (`resume` is two actions: of a paused and of a failed task) |
| `ClaimUnit`, `ClaimNothing`, `ClaimAfterExhaustion`, `ClaimOverBudget` | the outcomes of `_claim_unit` |
| `BindUnitRun`, `RenewUnitLease`, `CompleteUnit`, `SettleUnitFailure`, `SplitUnit` / `ExpandUnit`, `InterruptUnit` | worker calls, with any lease in `tokens` |
| `ObserveDeadline`, `ObserveCancel` | the deadline or cancellation branch that starts almost every method |
| `DeadlineElapses`, `LeaseExpires`, `BackoffElapses`, `AutoResumeFallsDue` | time; the last is the scheduled time of the next automatic resume |

Abstractions, all deliberate:

- Time is reduced to the comparisons the code makes. A lease flips from live to
  expired at any moment, so every timing of a renewal, a claim and a late call
  is covered; backoff lengths remain numbers because they are added up and
  compared with the wait budget.
- Calls that change nothing (a refused call, an idempotent replay, a renewal of
  a live lease, a stale compare-and-swap on `revision`) are stutters.
- `output` is the epoch of the lease under which the result was delivered. That
  is all the properties need to tell a fresh result from a stale one.
- `ORDER BY position` is left open: the claim may take any ready unit.
- `update_unit_progress`, the event log, `bind_run`'s binding row and the
  contents of metadata, checkpoints and failures are left out.
- The policy that chooses a failure disposition is external; the model allows
  every disposition in `Dispositions`, restricted by what
  `tests/test_purra_recovery.py:128-139` says of `decide_failure` (a retry is
  chosen only while attempts remain).
- Definitions whose comment starts with "Slip" are what a plausible mistake
  would look like; no action of the specification uses them, and each property
  is known to fail when its slip takes the place of the correct definition.

`WorkLedger` is the abstract promise, without attempts, leases, budgets or
reasons: work is held by at most `Limit` workers, finished once by its holder
while the task is open, split into fresh units, and completed only when nothing
needed is missing. `LongTask!Ledger` instantiates it; a unit's holder is the
worker whose lease is live, so that an expiry is a loss and a take-over is a
loss followed by a new hold.

`SomebodyCanMove` is what keeps the task from standing still: a running task
that owes work has a unit in flight, one that can be claimed, one that waits out
its backoff, or one that waits for a decision from outside. It relates the
attempts that seven methods take and grant to the claim query, which skips a
unit with no attempt left and one whose dependencies are not completed. What it
admits as waiting for outside is part of the code: a `blocked` unit waits for a
pause and a resume; `needs_split` for the executor's `expand_unit`; and a unit
that depends on a `failed` optional one, or on one that was split before, waits
until somebody cancels or fails the task, since no query ever claims it.

## 4. Recovery: `LongTaskRecovery`, `MCLongTaskRecovery`

`LongTaskRecovery` extends `LongTask` with those who drive it. `continuation`
is the process that resumes the task and then submits its Root Run, two steps
with a possible crash in between; `root` is the lease of that Root Run;
`dispatch` is the task's membership in the `_dispatching` set of the recovery
service, which reads the task row at the scan (`RecoverDue`) and acts on it
later (`AutomaticResume`). A crash forgets the process state and keeps rows and
leases; a restart checkpoints the task when no unit of it and no Root Run is
live (`main.py` 158-166); the orphan monitor settles a lapsed Root Run and
pauses its task.

Settling an orphan is several transactions in the code and one action here; an
executor that lost its Root lease stops at once, where the code notices at its
next renewal (the unit-level calls it may still make are allowed to everybody
who holds a token, so nothing they can do is lost).

The startup looks once. A task is `Forgotten` when it runs with no driver, no
Root Run the orphan monitor could find, and no checkpoint ahead; that happens
when the backend dies between the resume and the submission of the Run while a
sibling's unit lease from before is still live (`OnlyCrashForgets`), which takes
two units in flight together. `AbandonedTaskRecovers` and `EventuallyAtRest`
make an exception for it, and only for it; see the observations of section 11.
`AutomaticRecoveryBounded` is the safety side of `EventuallyAtRest`: between two
user commands the wait ledger stays within its budget and pays for every
automatic resume. `request_cancel` and usage
recording are not called by this product and are left out of `RecoveryNext`.
When a Root Run ends, which is the external runtime's decision, is assumed to
be after the task stopped running. Two pairs of calls are one action each, since
nothing is decided between them by what others may have changed: the validation
of a continuation and the resume in its `before_submit` (the resume repeats the
checks in its own transaction), and the pause or cancel of a task and the
cancellation of its Root, which `RunControl` treats.

## 5. One Run: `RunControl`, `MCRunControl`

`RunControl` is one row of `ai_agent_runs` and those who compete for it. A
process is one started backend with its own owner id. Processes overlap:
`main.py` says of startup that it "does not prove that another process holding
a live lease is dead", and the leases exist for that case. Within a process
three kinds of coroutine act under the same owner id: the executor of the Run,
calls of `AgentCancellationService.cancel` by users, and the orphan monitor,
which cancels through the same service.

| variable | code |
| --- | --- |
| `run` | status, `execution_owner`, lease deadline relative to now, `execution_attempt`, `cancel_requested_at_ms` set or not, `cancellation_epoch` |
| `receipt` | the row of `ai_agent_run_cancellations` (`none` when absent) |
| `journal` | terminal statuses with a lifecycle event, whose id is `run:<id>:<status>` |
| `recorded`, `effects` | tool receipts, and how often each tool really took effect |
| `backend`, `executor` | which processes live and which of them execute the Run |
| `canceler`, `monitor` | the program counters of cancel calls and monitors, with the candidate a monitor has read |

| action | code |
| --- | --- |
| `Claim`, `ExecutorStops`, `ExecutorReleases`, `ExecutorCommits` | the lease store and the guarded terminal commit, as the runtime calls them |
| `ExecuteOnce` | the tool idempotency gateway: checks, effect and receipt in one transaction |
| `CancelLoad`, `CancelFence`, `CancelClaim`, `CancelCommit`, `CancelRelease`, `CancelComplete` | one action per store call of `cancel`, in its order; `CancelCommitFails` is an exception between claim and commit |
| `RequestCancellation`, `DeleteSource` | the two writers that do not go through the cancellation service |
| `MonitorLists` .. `MonitorReleases` | `list_orphans`, `claim_orphan`, and `settle` store call by store call; `MonitorCommitFails` is an exception in it |
| `LeaseExpires`, `Stall`, `StartProcess`, `Crash` | time and processes |

Abstractions. A renewal of a live lease is a stutter; a lease lapses once
nothing of its owner works on the Run, or (a counted `Stall`) under a coroutine
that was held up too long. Whether a recoverable task hangs on an orphan is
evidence from other tables and left open, so the monitor may pause or fail any
orphan nobody asked to cancel. `OrphanRecoveryCoordinator` is external; that it
claims a candidate, settles it and gives back what it could not settle is what
`tests/test_run_execution_control.py:353-723` shows. An executor, also
external, may claim, commit any final status, release or use tools at any time
the store allows. A tool handler is taken to return a `ToolHandlerResult`; for
anything else `execute_once` commits the effect and writes no receipt
(`sqlite_tool_idempotency_gateway.py:76`), and a repeated call takes effect
again. Child Runs, plans, steps, checkpoints, model-attempt budgets,
the recovery of paused tasks (see `LongTaskRecovery`) and the tombstone that
outlives a deleted Run are left out.

`RunOutcome` is what the Run promises to whoever watches it, without owners,
leases, attempts or the steps of a cancellation: it ends at most once; asked to
cancel, it ends `canceled`; the journal tells of no other end; a tool takes
effect at most once, and only before a cancellation is asked for; a fenced
cancellation is answered with the end the Run really had. `RunControl!Outcome`
instantiates it over the rows, and `OutcomeSpec` says that every step of every
contender is one of its steps or leaves what a watcher sees alone.

## 6. A model endpoint: `ProviderHealth`, `MCProviderHealth`

`ProviderHealth` is one endpoint: the rows of `ai_provider_health` of the
models it serves (scopes), and the rows of `ai_provider_call_leases` that all
of them share. A call acquires a lease, runs for any length of time, reports
what it learned about the provider and releases the lease, each in one
transaction, as `model_runner.py` does.

| variable | code |
| --- | --- |
| `health[s]` | state, failure count, the failure window run out or not, and whether `open_until_ms`, `probe_expires_at_ms` and `ramp_until_ms` are still to come |
| `lease[c]` | the scope of the unexpired lease row of a call, or `NULL` |
| `call[c]` | whether the call runs, has reported, or is nothing yet |

| action | code |
| --- | --- |
| `Acquire`, `AcquireRefused` | `acquire` with `_admit_locked` and `_capacity_limit`; a refusal matters only when it writes the first row of a scope |
| `RecordSuccess`, `RecordFailure`, `EndUnreported`, `Release` | the ends of a call; a canceled call reports nothing |
| `WindowEnds`, `CoolingEnds`, `ProbeExpires`, `RampEnds`, `LeaseExpires` | deadlines |
| `Crash` | the process dies, its rows stay |

Abstractions. A deadline is a Boolean that may flip at any moment, which covers
every order of deadlines, results and retries; in exchange the lengths (60 s
window, 30 s ramp, 15 to 120 s of cooling, 150 s of lease) are not seen. Above
`TripFailures` the failure count only sets the length of the cooling, so it
stops there. A change of the configured capacity, the event log and `admit`
without a lease, which the product does not call, are left out.

## 7. Chat requests: `ChatRequest`, `ChatSession`, `MCChatRequest`

`ChatRequest` is the receipts of the chat requests of one session. The
renderer reserves a request before anything runs; the stream route claims it
and gives it to one task, which checks, submits and binds its Run; until then
the receipt is all that a cancel, a reloaded page or a restart can go by.
Backends may overlap: nothing keeps a second one from opening the database, and
`main.py` recovers the requests before it binds its port.

| variable | code |
| --- | --- |
| `receipt[r]` | status, `run_id` set or not, cancel requested and applied |
| `run[r]` | the Run whose binding names the request: status, still of this session or truncated, cancel requested |
| `stale` | reserved requests whose expected history is no longer the session's |
| `starter[r]`, `canceler[r]` | the program counters of the task in `AgentRunService.run` and of the cancel route |
| `home[r]`, `caller[r]` | the backend in which this task runs, and the one that serves this route |
| `up` | the backends that run |

| action | code |
| --- | --- |
| `Reserve`, `Claim`, `RequestCancel`, `MarkCancelApplied` | the store's methods, called by the routes |
| `Validate`, `BeforeSubmit`, `CreateRun`, `StartFails`, `OnRunStarted`, `OnRunStartedFails`, `AwaitEnd`, `OnStartFailed` | the task, await by await; `StartFails` is an exception before the Run exists or out of the submission that created it |
| `CancelRun` | the route hands the Run to the cancellation service (`RunControl`) |
| `PageBindsRun` | the page recovery route binds a Run it finds |
| `TruncateHistory`, `HistoryChanges` | finished turns are removed, or written late |
| `StartBackend`, `Crash` | `recover_unbound` at a start, beside whoever runs; the tasks and routes of a backend die with it |

Abstractions. The Run is external; what matters of it is that it is created
with the binding of its request, that it may end at any time, and that it ends
once it was asked to cancel or its backend died, which `RunControl` checks.
Reserving a known id again is a stutter; the digest and the scope of a request,
deletion of the session (refused while anything of it is active) and Runs
without a reservation are left out. `Claim` is the claim and the creation of the
task that owns it: between the two only the backend's death can come, which
leaves what a death right after them leaves.

`ChatSession` is what the conversation promises its author, without receipts,
starters, routes or crashes. A request is taken when no other one waits or is
worked on; it is refused or worked on, once; work that is tied to its request is
told of the cancel, whichever came first; only what is over is withdrawn. What
was refused does not start, with one exception, which overlapping backends make:
a start settles the receipt of a request whose task has passed its last check,
and that task creates the Run all the same. Such a request is `disowned` until
its Run is created or its task ends, and its Run is a `stray`, of which the
request never learns but which can be told to stop. `ChatRequest!Life` reads the
life of a request off its receipt, its Run and its starter; `SessionSpec`, the
refinement, says among other things that a Run under a settled receipt came
about in this way and in no other.

`OneOwnedWork` is about what the session owns: an open request, or a Run that
runs for one which is not settled. A stray is not owned, and a second request
may be reserved beside it before it is created (see the observations of section
11); two pieces of owned work there never are. A start is the step that
settles the one open request, or no step at all; a rebinding by the page, a
failed start and a crash are mostly no steps either.

## 8. Shared files: `MaterialCommit`, `MCMaterialCommit`

Creation materials are Markdown files the author may edit with any editor. A
change made through the application alters rows and files in one host
transaction: the files take part in it as participants that are prepared before
COMMIT and settled after it. `MaterialCommit` is that transaction with its
files, one action per system call that another party can observe.

| variable | code |
| --- | --- |
| `slot[f]` | what lies under the file's name, its `.before` and its `.rolled-back` name |
| `change[f]` | the latest change: base and new text, the intent file (none, half written, whole), its mark, and whether the receipt row is committed |
| `pc`, `back`, `cur`, `seen` | where the backend stands: the transaction, and in it one prepare or one recovery |
| `enlisted`, `prepared`, `rows`, `savepoint` | participants, those prepared, receipt rows not yet committed, the state a nested block returns to |
| `fresh` | whether the file that a restore has created and not filled is still empty, was saved into, or was replaced |
| `told` | what the caller of the last transaction was told |
| `fd`, `touched` | the name the file an editor has open lies under now; files it touched since the change began |

| action | code |
| --- | --- |
| `Begin` .. `AbortBody`, `NextParticipant`, `AllPrepared`, `CommitLands`, `CancelCommit`, `Undo`, `Settle`, `Return` | `DatabaseConnection.transaction`, with nested blocks as savepoints and the shielded COMMIT |
| `Synchronize`, `Stage` | `CreationMaterialService.synchronize` and `stage`; who gets a new file (`GetsNewFile`: add, migrate, restore) stages without a synchronization |
| `Check` .. `Publish` | `MaterialFileChange.prepare`, system call by system call |
| `RecoverRead` .. `RecoverSettles` | `recover`, from `rollback`, `committed`, a synchronization or the startup |
| `PrepareFails`, `RecoveryStepFails`, `Crash`, `StartBackend`, `RecoverPending`, `Started` | failures and restart |
| `EditorReplaces`, `EditorOpens`, `EditorWrites` | an editor that takes no lock, by rename or in place |

Abstractions. The private copies of a change are written as one step; the
participants are a set (the code takes them in order, the model in any); private
files of older changes are forgotten at the next `Stage`, their names are never
used again; the editor's texts differ from the application's, so that it is
seen whose text lies where; a restored material gets any of the application's
texts; `fsync` is not modelled (a system call that returned
is taken to last); the connection lock, one transaction at a time, is taken for
granted.

One backend at a time is assumed. `recover_materials` runs in `init`
(`connection.py:84`), outside a transaction, and treats every pending change
without a receipt as abandoned: a second backend that starts while a first one
is between an intent and its COMMIT would withdraw the published file and mark
the change aborted, and the COMMIT would come after it. Nothing in the code
keeps a second backend out, so all that this section says holds of one.

## 9. Screenplay projects: `Screenplay`, `MCScreenplay`

`Screenplay` is one project: immutable revisions of its scene list, draft and
review, which of them are heads, working copies, review decisions and
finalization; and the tasks that add candidates.

| variable | code |
| --- | --- |
| `project` | status (active, archived) and `completion_source`; `NULL` once deleted |
| `revisions`, `head`, `accepted`, `decision`, `finalized`, `copy` | the tables of `screenplay_v2_schema.py`; a truncated revision becomes `NULL` in its place |
| `request`, `receipt` | the command a window waits on; its row in `screenplay_command_receipts` |
| `fresh` | windows whose expected revision numbers, the project's or the working copy's or both, are the present ones: the code only ever compares them for equality |
| `task`, `executing` | the task row with its frozen scope; tasks with an executor, which may outlive the row |

| action | code |
| --- | --- |
| `TakeAtOnce`, `TakeLate` with `Rename` .. `Finalize` | the ten commands of `sqlite_screenplay_v2_repository.py`, and their preconditions in `Admissible` |
| `Send`, `Answer`, `Refuse` | a window that sends, gets its answer, or an error |
| `Compile` | `request_compiler.py`: what the task may read is fixed |
| `Project`, `ProjectionRefused` | `revision_projector.py`, in one transaction |
| `EndTask`, `Pause`, `Resume`, `CancelPaused`, `ExecutorEnds` | what the long task does to it |
| `Truncate` | `truncation_service.py` |

Abstractions. The roles above the scene list are accepted and unchanged. An
episode is known by the scene list its author wrote from; when the author
publishes, he answers for all of it. Decisions that close an issue are one
value. An agent reads the whole of its frozen scope. Titles, stages, outbox
events, source references and parents are left out, and so is the user interface's
confirmation of an invalidation.

## 10. Screenplay turns: `ScreenplayTurn`, `MCScreenplayTurn`

`ScreenplayTurn` is one formal turn of the conversation with its operation, its
task and the Root Runs that execute it, one after another.

| variable | code |
| --- | --- |
| `turn`, `operation`, `task` | their rows: status, root Run, attempt, owner, lease, fence; revision |
| `run[r]` | status, owner, lease, fence, and the Run and command it continues |
| `resume[k]` | the resume command `k`: continuation status, owner, lease, epoch, source Run, expected revision, bound Run |
| `canceled` | keys with a cancel receipt |
| `worker[w]` | a background task of a backend: its next transaction and what it has read |
| `backend[p]` | a backend: not started, in one of three steps of its startup, up, dead |

| action | code |
| --- | --- |
| `Admit`, `DispatchTurn`, `ClaimTurn`, `BeginRun`, `StartFailed` | the first dispatch: `admit`, `execute_turn`, `before_submit`, the begin projector, `on_start_failed` |
| `DispatchResume`, `ReserveAgain`, `ValidateResume`, `ClaimPaused`, `ResumeTask`, `ContinueRun`, `ReadClaim`, `PauseAgain`, `Unclaim`, `Release` | a resumed dispatch, transaction by transaction |
| `DispatchFails` | an exception between two of them |
| `CreateTask`, `StopTask`, `EndRun`, `PauseOrphan`, `EndOrphan` | executor and orphan recovery, which pauses the task and then ends the Run, with the commit projector in the Run's transaction |
| `RequestCancel`, `FenceRun` | the turn's cancel route, and the Run's with its projector |
| `Checkpoint`, `SelectStale`, `PauseStale`, `RecoverStale` | startup |
| `LapseRun`, `LapseReservation`, `LapseTurn`, `Crash` | time and death |

Abstractions. Ordinary turns, a second turn of the project, the projection
receipt, digests and binding equality are left out; truncation's delete is in
`Screenplay`. `blocked` counts as failed. Loading the epoch and validating are
one step. That the executor ends a Run only after its task stopped, and what the
orphan recovery decides, is the external runtime's part. `recover_stale_admissions`
computes its cutoff once, before it selects: its update finds an admission only
if its lease had lapsed by then. `SelectStale` therefore remembers which lapsed
claims it has seen, and `RecoverStale` touches those and no later one.

## 11. Runs

| run | instance | shows |
| --- | --- | --- |
| `longtask_control` | `a` and optional `b` in parallel; one Run; deadline, budget, all six dispositions, one system recovery | `LatestLeaseSettles`: no worker whose lease was superseded settles or leaves a result; `FailedUnitFailsTask`, `OverBudgetStopsWork`, `CompletedUnitIsFinal`, `NoWorkWhenStopped` |
| `longtask_split` | chain of two, two ids for split children, one worker id | `CompletionIsEarned`: the stored counters that decide completion agree with the rows; `DependenciesFirst` across splits and nested splits; `SomebodyCanMove`: no unit is put back where nobody can take it; `LedgerSpec`: the task implements `WorkLedger` |
| `longtask_recovery_live` | two units side by side and in flight together, crashes and user commands (2 in all), retry and pause dispositions | `AutomaticRecoveryBounded`, `AbandonedTaskRecovers`, `EventuallyAtRest` |
| `runcontrol` | two backends, one tool, three crashes, stalls, failures or commands | `OutcomeSpec`: the contenders implement `RunOutcome`; `CancelRequestWins` and `ReceiptAgrees` (a request and a receipt against the row, at every moment), `LiveLeaseIsKept`; and `CancellationSettles`, `OrphanSettles` |
| `provider_health` | two models, three calls, capacity 2 | over crashes, late results and every order of deadlines: `CapacityRespected`, `OneProbe` (a call admitted before the circuit opened never runs beside the probe), `OpenCircuitIsTried` |
| `chat_request` | two requests, two backends that overlap, any number of starts and crashes | `OneOwnedWork` (also while a Run exists that nobody has bound), `CancelReachesRun` (in whatever order cancel, creation and binding come), `SessionSpec`: the rows and their actors implement `ChatSession`; `RequestSettles`, `CancelFreesSession` (353,588 states) |
| `material_commit` | two files, one of them open to an editor, two texts | `FileFollowsReceipt`, `CallerToldTruth`, `NothingLost` (6.7 million states) |
| `screenplay` | one task, two episodes, one issue, four revisions, one window that publishes late | `HeadsBuildOnHeads`, `EpisodesFollowSceneList`, `HistoryStays`, `FinalizedStands`, `CommittedIsNotRefused`, `ArchivedStaysPut` (2 million states) |
| `screenplay_turn` | two backends, two background tasks, three Runs, two resume and two cancel keys, four attempts | `OneLiveRoot`, `ContinuedOnce`, `OperationFollowsTurn`, `SettledStays`, `WinnerKeepsClaim` |
| `longtask_user_pause` (violation) | one unit, one user command | see findings |
| `material_commit_receipt` (violation) | one file, no editor | see findings |
| `screenplay_turn_cancel` (violation) | two backends, one background task, one resume, one cancel | see findings |

The type invariants (`TypeOK`) are theorems where section 13 lists them; they
are not repeated as invariants of runs.

Bounds. Two claims per unit (`MaxEpoch = 2`) are what it takes for a stale
holder to meet its successor; a third would repeat the second. Two units are
what dependency, sibling and parallelism questions need, and the split run adds
two more so that a split child can be split again. `MaxGrants` stops the growth
of `max_attempts`; `WaitBudget` and `BudgetLimit` are small so that both sides
of each comparison occur, with the jittered backoff crossing the boundary. In
the safety runs the bounds cut behaviours off; in `longtask_recovery_live`
`MaxEpoch`, `MaxGrants` and `MaxRecoveries` are so large that they never bind
(a bound that stopped an action would fake an end of activity), and only the
number of crashes and user commands is limited: without that limit a user could
resume for ever. `MaxRecoveries = 3` is above `WaitBudget + 1`, more than which
`AutomaticRecoveryBounded` does not allow, so it cuts nothing either. That run
has its two units side by side: a chain never has two leases at once, and the
case that is left out of `AbandonedTaskRecovers` would not occur.

For `RunControl`, two backends are what a take-over needs, and three
interventions are a crash or stall, a user's cancel and one failure in between.
`MaxAttempt` is 9 there and no behaviour reaches it.

For `ProviderHealth`, two models show what one does to the other through the
shared leases, and one call more than the capacity contends for it. The circuit
trips at two failures instead of three, which keeps both sides of the
comparison.

`MaterialCommit` counts nothing. Two files are one that is settled and one that
is not; the second is the author's alone, so that the editor's interference and
the transaction's own order are both there. Two texts tell an old change from a
new one.

In `Screenplay`, four revisions are what the longest question needs: the first
scene list, a draft from it, a second scene list that makes it stale, and a
draft merged over it. Commands that are at once and commands that are late
differ only in what lies between; one window sends late, and what it sends late
is a publication, the command that looks at both revision numbers.

In `ScreenplayTurn`, three Runs are a beginning and two continuations, or two
that compete for one; two workers and two backends are a loser and a winner in
one process or in two; four attempts are a first dispatch, its repeat, and two
resumed ones. `MaxEpoch = 2` is one take-over of a reservation.

In `ChatRequest` nothing is counted, so no bound cuts behaviours off; with two
requests the second meets whatever the first has left behind, and two backends
are one that starts a request and one that comes up beside it.

Symmetry over worker ids is used in the runs without liveness.
`CHECK_DEADLOCK FALSE`: a completed or canceled task, and an ended Run, has no
further step.

### Findings

- `longtask_user_pause`: `pause` of a task that is already paused returns it as
  it is, also when it was the system that paused it and an automatic resume is
  scheduled. The design plan
  (`docs/design/2026-09-11-novel-analysis-state-driven-reliability-plan.md:158`)
  promises that a user pause stays paused; the next scan resumes the task.
- `material_commit_receipt`: a save whose new text equals the old one and which
  fails between writing its intent and the rename (the disk is full while the
  copies are written) is rolled back by `recover(False)`, which finds the "new"
  text under the name, takes it for published and renames it to `.rolled-back`.
  No `.before` copy exists to put back. The change is marked aborted and the
  material is gone from its name, where
  `docs/design/2026-09-07-shared-markdown-creation-materials.md:168` lets the
  receipt decide the outcome. The text itself survives beside the file.
- `screenplay_turn_cancel`: a cancel of a turn that is being resumed only sets
  fences while a claim is out; if the backend dies before the claim has begun a
  Run or given up, the next startup finds a stale admission and ends the turn
  as `canceled`, but leaves the operation `paused` with its fence set, and the
  task as it is. The design of 2026-08-13
  (`docs/superpowers/specs/2026-08-13-novel-screenplay-dynamic-agent-planning-design.md:298`)
  says that a cancel by hand closes the operation and the task. The paused
  operation keeps the session's one place
  (`idx_screenplay_agent_one_active_operation`), and a further cancel finds an
  ended turn and only writes its receipt.

### Observations without a run

Each of these was met while modelling; most were confirmed by a trial run, and
none is listed in `PROJECT.json` as a finding.

- The comment at `sqlite_long_task_repository.py:888` says that a terminal
  branch failure settles every sibling in the same transaction. The statement
  selects `pending`, `claimed` and `running` only: a sibling in
  `waiting_retry`, `needs_split` or `blocked` stays open under a failed task.
- With `max_parallelism` above one (Novel Analysis uses up to 4,
  `planner_contract.py:178`) a task can be forgotten: it is paused while two
  units are in flight (`interrupt_unit` at
  `sqlite_long_task_repository.py:1047` leaves the siblings' leases alone), its Root
  ends, the user resumes it, the backend dies before the new Run is submitted,
  and is restarted while the sibling's lease is live. The startup checkpoint
  passes the task by, and without a Root Run the orphan monitor never sees it:
  it stays `running` until a user pauses it or the next restart. The comment at
  `main.py:161` expects that normal orphan recovery will reclaim genuinely
  abandoned work after expiry. `AbandonedTaskRecovers` without its exception
  shows the run.
- No query claims a unit in `needs_split`: unless the executor splits it, only
  the end of the task closes it. The same holds of a required unit that depends
  on an optional one that failed, and of the child of a split that names a unit
  which an earlier split has expanded (`expand_unit` asks only that it is known).
- `agent_cancellation_service.py:109` says that a cancellation worker whose
  commit failed relinquishes only its own temporary lease. `release` is fenced
  by the owner id, which all coroutines of a process share: if the worker was
  held up until its lease lapsed, it gives away the lease the orphan monitor of
  the same process has taken meanwhile. A later poll settles the Run.
- The reliability plan (line 159) says that an open circuit starts no calls and
  that a success closes it. `record_failure` (`provider_health_repository.py:207`)
  does not look whether the circuit is open: after a rate limit opened it at the
  first failure, an ordinary failure of a call in flight is the second, below
  the trip count, and writes `closed`.
- `main.py:168` says that startup does not prove that another process is dead.
  For Runs the leases see to it; `recover_unbound`
  (`writing_chat_request_store.py:463`) has none and settles the requests of a
  living backend too, whose task may be past its last check. A Run then runs
  under a rejected receipt, after eight steps of `ChatRequest`: a backend starts,
  a request is reserved, claimed, validated and checked, a second backend starts
  and rejects it, and the Run is created. `on_run_started` does not raise for a
  rejected receipt, so the Run goes on, and the cancel route refuses a settled
  request. If a second request is reserved before that Run is created, the
  session has two pieces of work. The model's word for such a Run is `stray`; what
  the properties promise, they promise beside it.
- The recovery of a material writes the restored file through `write_at`
  (`material_transaction.py:57`), which creates the name and then writes from the
  beginning of that file. An editor that opens the file in between and saves in
  place loses what it saved: `Displace`, `PrepareFails`, `Undo`, `Settle`,
  `RecoverRead`, `RecoverMove`, `RecoverRestore`, `EditorOpens`, `EditorWrites`,
  `RecoverFill`. The design
  (`docs/design/2026-09-07-shared-markdown-creation-materials.md:130`) says that a
  recovery does not overwrite an external version that came up meanwhile. An
  editor that replaces the file by a rename is safe. `NothingLost` excepts this
  one text (`WrittenOver`) and fails without the exception.
- A bound lease of 150 s for a model call (`provider_health_repository.py:128`)
  is renewed by nobody: a longer call is no longer counted. The receipt of a
  cancellation whose Run a live executor ended (`run_execution_store.py:506`) is
  completed only by the next call of cancel.
- A crash while `recover` writes the restored file leaves half of it under the
  official name, and the next recovery marks the change aborted. A crash while
  the intent is written leaves a file that `pending` cannot parse: every later
  synchronization, and the startup, fails.
- `accept_revision` checks only the prerequisite of a candidate, while the
  workspace (`_revision_applicability`) calls one stale when any of its inputs
  is no longer a head; the projector marks every draft complete
  (`revision_projector.py:620`) and `_review_state` passes no hard checks, so a
  draft that lacks episodes can be finalized, where the design of 2026-08-10
  (`docs/superpowers/specs/2026-08-10-screenplay-review-adjudication-finalization-design.md:91`)
  names missing episodes as an obstacle. `update_working_copy` keeps no receipt,
  so a repeat after a lost answer is refused.
- Two dispatches of one resume command in one process share owner id and
  attempt; the one that loses gives the turn back under the one that won
  (`recovery_service.py:158`). The test of this
  (`tests/test_screenplay_replacement_conversation_projection.py:249`) covers
  first dispatches, for which `WinnerKeepsClaim` holds.
- A turn can be left `paused` with its task `running`: stale recovery pauses the
  task, then a dispatch that was under way resumes it. `validate` refuses every
  resume until the next start checkpoints the task. A cancel of a continuation
  that is planning, or whose task had paused already, ends the turn `paused`
  with its fence set: the cancel key is spent, and truncation, whose cancel key
  is fixed per turn, is refused from then on. A resume under a new key after a
  released reservation is taken for equivalent and dispatches nothing. A turn
  put back to `queued` is dispatched only when its request is sent again.
- In the approval gateway the decision may be durable while the future of the
  waiting tool is never set, and `recover_pending_approvals` at startup marks
  the pending approvals of a live other backend unavailable.

## 12. Fairness

Safety runs use none. `RecoverySpec` assumes weak fairness of: the executor's
next call and a lease holder's settlement (a live asyncio task goes on); the
lapse of unit and Root leases once no executor renews them (wall-clock time);
elapse of backoffs and of the automatic-resume time; the recovery scan, its
dispatched worker and the submission it makes (a polling loop that survives
errors); the restart of a crashed backend and the orphan monitor (a polling loop). The
restart is an assumption about the environment: `electron/backend_process.js:158`
only forgets the child that closed, and a backend comes back when the author
starts the application again. Nothing is assumed of users, of crashes,
of lease loss under a live executor, or of a start that fails. Each assumption
is weak: none of these actions has to win against another that disables it for
ever.

`RunControl!Spec` assumes weak fairness of: the lapse of a lease nobody works
under; the start of a backend that has not run yet; each step of a monitor (a
polling loop that survives errors) and of a cancel call once begun; an executor
that lost its lease, or whose Run ended, noticing it; and an executor that may
commit `canceled` after a request doing so (the runtime polls the request).
Nothing is assumed of an executor that nobody asks to cancel, of crashes, of
stalls or of failures. A backend crashes only while another one is running or
still to be started: with no backend at all nothing can be promised.

`ProviderHealth!Spec` assumes that the cooling-down and the leases run out, that
a call in progress comes to its end (it runs under an invocation timeout, and
the release is in a `finally`), and that some call keeps asking for each model
(paused work is resumed and asks again). Nothing is assumed of the probe's
deadline or of how calls end. `OpenCircuitIsTried` has the condition that in
the end only calls of the model itself hold leases: a probe needs an empty
endpoint, and without the condition the traffic of another model can keep it
out for ever.

`ChatRequest!Spec` assumes that a starter task goes on; that a backend is started
when none runs, or when one died in the start of a request (the environment
again: until that start the request stays `starting`); and that a Run that was
asked to cancel ends, or one whose backend died (the orphan monitor of
`RunControl`, while somebody runs). A start beside a living backend may happen
at any time and is never assumed. `CancelFreesSession` has the condition that in
the end there is always a backend, since backends that keep dying end nothing;
`RequestSettles` holds without it, because each start settles what it finds.

## 13. Proofs

### `LongTask_proofs`

Proved for every number of units, workers, Runs and every value of the limits,
from the assumptions named in `LongTask` (the unit set is finite, `NULL` is no
worker and no Run, the numbers are naturals):

| theorem | statement |
| --- | --- |
| `TypeCorrect` | `Spec => []TypeOK` |
| `LatestLeaseSettlesAlways` | `Spec => []LatestLeaseSettles` |
| `CompletedUnitStaysFinal` | `Spec => CompletedUnitIsFinal` |
| `StoppedTaskDoesNoWork` | `Spec => NoWorkWhenStopped` |

The inductive invariant is
`LeaseInv == TypeOK /\ AbsentUnclaimed /\ LatestLeaseSettles`. `LatestLeaseSettles`
alone is not inductive: a split creates a row with epoch 0 for a fresh id, and
only `AbsentUnclaimed` (an id without a row was never claimed) says that no
token with a higher epoch exists for it.

The argument sorts the steps by their effect on units. `QuietRow` says that a
row's epoch stays, that it enters no worker's hands, and that completion and
its result stay; the lemma `StepIsQuietOrWork` shows that every step is quiet for every
row, or is a `ClaimUnit`, or is a `CompleteUnit`. Quiet steps preserve the
invariant at once, and the two others are treated by themselves: a claim makes
the new token the latest, a completion is fenced by `HoldsLease`. The same
lemma gives the two action properties.

### `LongTaskWork_proofs`

A module of its own over `LongTask_proofs`, from the same assumptions:

| theorem | statement |
| --- | --- |
| `DependenciesAlwaysFirst` | `Spec => []DependenciesFirst` |
| `CompletionAlwaysEarned` | `Spec => []CompletionIsEarned` |
| `FailureAlwaysFailsTask` | `Spec => []FailedUnitFailsTask` |
| `OverBudgetAlwaysStopsWork` | `Spec => []OverBudgetStopsWork` |
| `TaskImplementsLedger` | `Spec => LedgerSpec` |
| `SomebodyAlwaysCanMove` | `Spec => []SomebodyCanMove` |
| `RecoveryTypeCorrect` | `RecoverySpec => [](TypeOK /\ RecoveryTypeOK)` |
| `RecoveryImplementsTask` | `RecoverySpec => Spec` |
| `RecoveredTaskIsSafe` | `RecoverySpec =>` everything above |
| `AutomaticRecoveryAlwaysBounded` | `RecoverySpec => []AutomaticRecoveryBounded` |
| `OnlyCrashAlwaysForgets` | `RecoverySpec => OnlyCrashForgets` |

`WorkInv` joins `LeaseInv` with the four properties, one of them strengthened:
`FailedUnitFailsTask` says of a running task that no required unit failed, and a
task may be paused and resumed, so `LiveTask` says it of every task that is not
over. Every step either keeps what is required and who depends on whom (`Edges`)
and has one of four effects on the counters and the status (`StepEffect`), or is
a split. The stored counters are either recomputed by the step or keep their
value because required and completed units are the same. Finalization is earned
because the unit set is finite: as many completed required units as required
ones are all of them. Only a claim puts a unit in flight (`InFlightStep`), which
gives `DependenciesFirst` and `OverBudgetStopsWork`; in a split it matters that
the unit is in flight, so that nothing in flight or completed waited for it.

For the refinement, `AbsentFree` (an id without a row is not required) joins the
invariant, so that the units of a split are fresh to the ledger. A claim is the
ledger's `Take`, a result its `Finish`, a split its `Split`. Every other step is
quiet and makes no lease live (`StepReleases`), so it only lets units go, and
moves the phase as `Goes` lists: that is `Lose`, one of the ledger's `Move`s, or
`Complete`.

For `SomebodyCanMove` the invariant grows by five clauses (`MoveInv`). `FitRows`:
a row has no more attempts than it may, and one that waits to be claimed has one
left; this is where each of the methods that put a unit back has to grant what it
takes. `Acyclic` and `DepsExist`: the graph stays a DAG over units that exist;
here `RecipeAssumption` comes in (the units of a create command form a DAG, as
`planner_contract.py:190-330` builds them), and the check that `expand_unit` makes
of what it leaves. `NoneCanceled` and `ExpandedFree`: no unit of an open task is
canceled, and what was split is not required. The property then follows from the
graph: among the units that are not completed and wait on each other, a DAG has
one all of whose dependencies are outside that set, and that one can be claimed
or waits for what the property names.

`LongTaskRecovery` drives the task by its own actions only, so each step of the
composition is a step of `LongTask` or leaves it alone, and what holds of
`LongTask` holds under recovery. For the bound on automatic recovery, `BooksInv`
sorts the steps by what they do to the ledger (`BookMove`). That a running task
has nothing booked is not enough: a dispatch outlives the pause it was made for,
so the invariant also says that a dispatched recovery was due, and that if the
task runs meanwhile, a user resumed it and the ledger is fresh. For
`OnlyCrashForgets`, an executor holds a live Root lease, and a restart that finds
no live work pauses the task.

### `RunControl_proofs`

Proved for every set of processes and tools, from `ProcessAssumption` (`First`
is a process and `NULL` is none) and `BoundAssumption`:

| theorem | statement |
| --- | --- |
| `RunTypeCorrect` | `Spec => []TypeOK` |
| `CancelRequestAlwaysWins` | `Spec => []CancelRequestWins` |
| `ReceiptAlwaysAgrees` | `Spec => []ReceiptAgrees` |
| `JournalAlwaysTellsStatus` | `Spec => []JournalTellsStatus` |
| `EachToolAtMostOnce` | `Spec => []EachToolOnce` |
| `LiveLeaseStaysKept` | `Spec => LiveLeaseIsKept` |
| `EndedRunStaysFinal` | `Spec => EndedRunIsFinal` |
| `FenceAlwaysStopsTools` | `Spec => FenceStopsTools` |
| `RunKeepsPromise` | `Spec => OutcomeSpec` |

The inductive invariant joins the four row properties with `HeldRun` (a live
lease has an owner and a running Run: without it a lapse could touch an ended
Run, and a Run without owner could be live) and `RecordedOnce` (a tool took
effect once exactly if it is recorded). The twenty-odd actions touch the rows in five
ways only: not at all, passing a running Run on, fencing it first, ending it,
closing the receipt. `NextEffect` shows this action by action, and every
property is then proved once for each way. So is the refinement: passing on is
`Ask` or a stutter, fencing is `Fence`, ending is `End`, closing is `Answer`, and the
one action that lets a tool take effect is `Act`.

### `ProviderHealth_proofs`

Proved for every set of models, every finite set of calls, every capacity and
trip count, from `EndpointAssumption`:

| theorem | statement |
| --- | --- |
| `HealthTypeCorrect` | `Spec => []TypeOK` |
| `CapacityAlwaysRespected` | `Spec => []CapacityRespected` |
| `AlwaysOneProbe` | `Spec => []OneProbe` |
| `AlwaysBelowTrip` | `Spec => []ClosedBelowTrip` |
| `RampAlwaysStartsOneCall` | `Spec => RampStartsOneCall` |

The conjunction of the four invariants is inductive. The argument is about two
cardinalities: only `Acquire` adds a lease, and it adds one where fewer than the
limit were counted; a row becomes a probed one only in `Acquire` as well, which
then found the endpoint empty. Every other action takes leases away or leaves
them, and takes probes away or leaves them.

### `ChatRequest_proofs`

Proved for every set of requests and of backends, which start, overlap and crash
in any order, from `BackendAssumption` (`NULL` is no backend):

| theorem | statement |
| --- | --- |
| `RequestTypeCorrect` | `Spec => []TypeOK` |
| `SessionOwnsOneWork` | `Spec => []OneOwnedWork` |
| `CancelAlwaysReachesRun` | `Spec => []CancelReachesRun` |
| `RequestsKeepPromise` | `Spec => SessionSpec` |

The invariant adds to these what a starter may rely on: while it has not
submitted, its request is `starting`, or was settled under it by a start, and has
no Run; a request without a claim has neither starter nor Run; a bound one has a
Run. `RowInv` says it of one request, and `Kept` says of a step that it keeps
`RowInv` and gives the session no work; every action but a reservation is shown
to keep every request, in a lemma for each of the three ways to write the rows.
A reservation finds no open request and no running Run, hence no owned work; the
Run of a settled request, which it may have missed, is no owned work either.

The refinement rests on that invariant and on `Whole`: a running Run still belongs
to the session, and a receipt that says `run_bound` names its Run. `Seen` lists the ways in
which what the author sees of one request may change, one for each action of
`ChatSession`, and `SeenStep` turns a step that changes one request in such a way
into an abstract step. Every action but three touches one request. A start of a
backend writes many receipts in one transaction, and is one abstract step only
because, by `SessionOwnsOneWork`, at most one of them is open; a crash is
`GiveUp` of the disowned requests whose tasks die with the backend; a truncation
is `Withdraw` of the bound ones, whose Runs have ended.

### `ScreenplayTurn_proofs`

Proved for every set of backends, background tasks, Runs, resume and cancel
keys, from `IdAssumption` (a first dispatch claims under an id that is no
backend's, and `NULL` is nobody's) and `BoundAssumption`:

| theorem | statement |
| --- | --- |
| `TurnTypeCorrect` | `Spec => []TypeOK` |
| `OneRootExecutes` | `Spec => []OneLiveRoot` |
| `RootsFormAChain` | `Spec => []ContinuedOnce` |
| `EndedTurnStays` | `Spec => SettledStays` |
| `OthersLeaveTheClaim` | `Spec => WinnerKeepsClaim` |
| `TurnAndOperationAgree` | `Spec => []OperationFollowsTurn` |

`TypeOK` needs `WorkersReady`: a background task that runs has a backend, and one
that resumes has a request, so that what it writes under its own name is of the
right type. `ContinuedOnce` is not inductive: a Run that begins could continue a
Run that was continued before. `Chain` says that the turn names the end of the
chain and nobody continues it; `Reserved`, that a request that was taken up
names a Run. With them, the guard of the begin projector (the turn still names
the source) is what keeps the chain a chain. Steps touch it in three ways: not
at all (`RootsKept`), by the end of the last Run (`RootsEnded`), by the begin of
another (`RootsBegun`).

`OperationFollowsTurn` needs to know whose claim a planning turn is under: a
first dispatch's while the operation is queued, a backend's while it is paused
(`Phases`), since a failed start fails the turn in one case and gives it back in
the other. It also needs to know that what the startup recovery has read still
holds when it writes (`Seen`): the update asks for the claim whose lease had
lapsed before the select, and a later admission carries another one, so any
number of backends may recover side by side.

### `MaterialCommit_proofs`

Proved for every set of files, open to the editor or not, and every set of
texts, from `TextAssumption`:

| theorem | statement |
| --- | --- |
| `MaterialTypeCorrect` | `Spec => []TypeOK` |
| `FileAlwaysFollowsReceipt` | `Spec => []FileFollowsReceipt` |
| `CallerAlwaysToldTruth` | `Spec => []CallerToldTruth` |
| `NoTextIsLost` | `Spec => NothingLost` |

`FileFollowsReceipt` speaks of three moments: COMMIT, the end of a recovery, and
all the time after. For the first, `PreparedPublished` follows one participant
through `prepare` and keeps what the others published; `Members` says that at
COMMIT all of them are prepared and each has a row, whatever savepoints were
rolled back. For the second, `RecoveryWithdraws` follows the steps of a recovery
of an aborted change; it relies on `Displaced` (the displaced file is what the
change began with, if the editor kept off), since that file is what is put back.
For the third, `Receipted` says that while a transaction is undecided its files
have neither receipt nor mark, and that a recovery which withdraws does so
without a receipt: so no later step moves a file whose fate is settled. What a
recovery takes for the outcome is the receipt, whether it was told or looks it
up (`CommittedByReceipt`). Every clause lets go of a file the editor has touched.

`NothingLost` rests on `PrivateNames`: the names under which displaced and
withdrawn files are kept are free when a change needs them, the editor's open
file lies under a name that exists, and what has been withdrawn once is not seen
under the name again (here the hypothesis that the change changes the text comes
in, and with it `TextAssumption`). The fill of a restored file is the one step
that writes to a file others may have open. `EditorAndFresh` says whose file it
is by then, and `FillWrites` that it takes away what was saved into it since its
creation and nothing else: exactly what `NothingLost` excepts.

### `Screenplay_proofs`

Proved for any windows, tasks, episodes and issues and any bound on the
revisions, from `ScreenplayAssumption` and `NullAssumption` (the absence of a
row is no row):

| theorem | statement |
| --- | --- |
| `ScreenplayTypeCorrect` | `Spec => []TypeOK` |
| `HeadsAlwaysBuildOnHeads` | `Spec => []HeadsBuildOnHeads` |
| `EpisodesAlwaysFollowSceneList` | `Spec => []EpisodesFollowSceneList` |
| `HistoryAlwaysStays` | `Spec => []HistoryStays` |
| `FinalizedAlwaysStands` | `Spec => []FinalizedStands` |
| `CommittedNeverRefused` | `Spec => CommittedIsNotRefused` |
| `ArchivedAlwaysStaysPut` | `Spec => ArchivedStaysPut` |

The invariant is `TypeOK`, `History` and `PublishesCopy`. `History` says where
everything comes from: accepted revisions exist (`AcceptedExists`), revisions and
tasks were made only from what was accepted at some time (`RevisionsRead`,
`TasksRead`), heads are accepted and name their prerequisite (`HeadsAccepted`), and
`HeadsBuildOnHeads` itself. The clause that carries the proofs is `Aligned`: whoever read
the scene list and the draft together read a draft made from that scene list,
because the two were heads at once. Hence the episodes a task merges over its
baseline are from the scene list the task read (`EpisodesFollowInput`), which is
the head when the candidate is accepted. Truncation never takes what was
accepted, and every input was: this gives `HistoryStays`, and keeps `History` over
`Truncate`. `FinalizedStands` is inductive on top of it: accepted texts stay, and
every command that moves a head or a decision takes the completion back.
`PublishesCopy` serves the types only: a delayed publish finds its working copy.

### What is only model-checked

- Everything temporal under fairness: liveness and ENABLED are beyond the prover.
  These are `AbandonedTaskRecovers`, `EventuallyAtRest`, `CancellationSettles`,
  `OrphanSettles`, `OpenCircuitIsTried`, `RequestSettles` and `CancelFreesSession`.

The theorems without a run beside them are the type invariants; `EndedRunIsFinal`,
`ClosedBelowTrip` and `RampStartsOneCall`, which the others rest on or which say
less than those do; `JournalTellsStatus`, `EachToolOnce` and `FenceStopsTools`,
which the run checks within `OutcomeSpec`; `RecoveryImplementsTask`, whose
conclusion the longtask runs check piece by piece; and `OnlyCrashForgets`, which
says what the exception in the two liveness properties amounts to.

## 14. Not modelled

`PROJECT.json` gives the reason for each component. In short: what the units
compute from model output, prompts, text comparison and projections are data
without control state of their own; file, network and process input and output
have no protocol to check here; CRUD routers are single statements; the
coordination inside `purra` (executor, cancellation worker, orphan
coordinator) is external and enters only as the calls it may make. What could
still be modelled is item 8 of section 2.
