------------------------- MODULE ScreenplayTurn_proofs -------------------------
(***************************************************************************)
(* Proofs about ScreenplayTurn, for any number of backends, background     *)
(* tasks, Runs and requests.                                               *)
(***************************************************************************)
EXTENDS ScreenplayTurn, TLAPS

TurnStatus == Settled \union {"none", "queued", "planning", "running", "paused"}
RunStatus == {"none", "running", "done", "failed", "canceled"}
ResumeStatus == (OperationStatus \ {"queued", "running"}) \union {"starting", "reserved", "bound"}

-----------------------------------------------------------------------------
\* Rows stay rows.

\* What is written to the Turn.
LEMMA TurnRows ==
    ASSUME TypeOK
    PROVE  /\ \A s \in TurnStatus :
                 /\ [turn EXCEPT !.status = s] \in Turn
                 /\ TurnIs(s) \in Turn
                 /\ [TurnIs(s) EXCEPT !.fence = TRUE] \in Turn
                 /\ \A r \in Run : [TurnIs(s) EXCEPT !.root = r] \in Turn
           /\ [turn EXCEPT !.fence = TRUE] \in Turn
           /\ [turn EXCEPT !.lease = "lapsed"] \in Turn
           /\ \A o \in Process \union Worker \union {NULL}, n \in Nat :
                 [turn EXCEPT !.status = "planning", !.owner = o, !.lease = "live",
                              !.attempt = n] \in Turn
  <1>1. turn \in Turn
    BY DEF TypeOK
  <1>2. ASSUME NEW s \in TurnStatus
        PROVE  [turn EXCEPT !.status = s] \in Turn /\ TurnIs(s) \in Turn
    BY <1>1, Zenon DEF Turn, TurnStatus, TurnIs, Lease
  <1>3. ASSUME NEW t \in Turn
        PROVE  /\ [t EXCEPT !.fence = TRUE] \in Turn
               /\ \A r \in Run : [t EXCEPT !.root = r] \in Turn
    BY Zenon DEF Turn
  <1>4. [turn EXCEPT !.lease = "lapsed"] \in Turn
    BY <1>1, Zenon DEF Turn, Lease
  <1>5. ASSUME NEW o \in Process \union Worker \union {NULL}, NEW n \in Nat
        PROVE  [turn EXCEPT !.status = "planning", !.owner = o, !.lease = "live",
                            !.attempt = n] \in Turn
    BY <1>1, Zenon DEF Turn, Lease
  <1> QED
    BY <1>1, <1>2, <1>3, <1>4, <1>5

\* What is written to the Operation.
LEMMA OperationRows ==
    ASSUME TypeOK
    PROVE  /\ \A s \in OperationStatus :
                 [operation EXCEPT !.status = s] \in Operation /\ OperationIs(s) \in Operation
           /\ OperationFenced \in Operation
           /\ [OperationFenced EXCEPT !.status = "canceled", !.revision = @ + 1] \in Operation
  <1>1. operation \in Operation
    BY DEF TypeOK
  <1>2. ASSUME NEW o \in Operation, NEW s \in OperationStatus
        PROVE  /\ [o EXCEPT !.status = s] \in Operation
               /\ [o EXCEPT !.status = s, !.revision = @ + 1] \in Operation
    <2>1. ASSUME NEW n \in Nat PROVE [o EXCEPT !.status = s, !.revision = n] \in Operation
      BY Zenon DEF Operation
    <2>2. o.revision + 1 \in Nat
      BY DEF Operation
    <2>3. [o EXCEPT !.status = s] \in Operation
      BY Zenon DEF Operation
    <2> QED
      BY <2>1, <2>2, <2>3
  <1>3. ASSUME NEW n \in Nat
        PROVE  [operation EXCEPT !.fence = TRUE, !.revision = n] \in Operation
    BY <1>1, Zenon DEF Operation
  <1>4. (IF operation.fence THEN operation.revision ELSE operation.revision + 1) \in Nat
    BY <1>1 DEF Operation
  <1>5. OperationFenced \in Operation
    BY <1>3, <1>4 DEF OperationFenced
  <1> QED
    BY <1>1, <1>2, <1>5 DEF OperationIs, OperationStatus

\* What is written to the task.
LEMMA TaskRows ==
    ASSUME TypeOK
    PROVE  /\ TaskFenced \in Task /\ PausedTask \in Task /\ ResumedTask \in Task
           /\ \A s \in Open \union {"none", "completed", "failed", "canceled"} :
                 [task EXCEPT !.status = s] \in Task
           /\ [task EXCEPT !.status = "canceled", !.fence = TRUE] \in Task
  <1>1. task \in Task
    BY DEF TypeOK
  <1>2. ASSUME NEW s \in Open \union {"none", "completed", "failed", "canceled"}
        PROVE  [task EXCEPT !.status = s] \in Task
    BY <1>1, Zenon DEF Task
  <1>3. [task EXCEPT !.fence = TRUE] \in Task
    BY <1>1, Zenon DEF Task
  <1>4. [task EXCEPT !.status = "canceled", !.fence = TRUE] \in Task
    BY <1>1, Zenon DEF Task
  <1>5. task.status \in Open \union {"none", "completed", "failed", "canceled"}
    BY <1>1 DEF Task
  <1> QED
    BY <1>1, <1>2, <1>3, <1>4, <1>5 DEF TaskFenced, PausedTask, ResumedTask, Open

\* What is written to a Run.
LEMMA RunRows ==
    ASSUME TypeOK, NEW r \in Run
    PROVE  /\ \A s \in RunStatus :
                 [run EXCEPT ![r].status = s, ![r].owner = NULL, ![r].lease = "none"]
                     \in [Run -> RunRow]
           /\ [run EXCEPT ![r].fence = TRUE] \in [Run -> RunRow]
           /\ [run EXCEPT ![r].lease = "lapsed"] \in [Run -> RunRow]
           /\ \A p \in Process \union {NULL}, x \in Run \union {NULL}, k \in Command \union {NULL} :
                 [run EXCEPT ![r] = [NoRun EXCEPT !.status = "running", !.owner = p,
                     !.lease = "live", !.source = x, !.command = k]] \in [Run -> RunRow]
  <1>1. run \in [Run -> RunRow] /\ run[r] \in RunRow
    BY DEF TypeOK
  <1>2. ASSUME NEW row \in RunRow PROVE [run EXCEPT ![r] = row] \in [Run -> RunRow]
    BY <1>1
  <1>3. ASSUME NEW s \in RunStatus
        PROVE  [run[r] EXCEPT !.status = s, !.owner = NULL, !.lease = "none"] \in RunRow
    BY <1>1, Zenon DEF RunRow, RunStatus, Lease
  <1>4. ASSUME NEW s \in RunStatus
        PROVE  [run EXCEPT ![r].status = s, ![r].owner = NULL, ![r].lease = "none"]
               = [run EXCEPT ![r] = [run[r] EXCEPT !.status = s, !.owner = NULL, !.lease = "none"]]
    BY <1>1
  <1>5. [run[r] EXCEPT !.fence = TRUE] \in RunRow /\ [run[r] EXCEPT !.lease = "lapsed"] \in RunRow
    BY <1>1, Zenon DEF RunRow, Lease
  <1>6. ASSUME NEW p \in Process \union {NULL}, NEW x \in Run \union {NULL},
               NEW k \in Command \union {NULL}
        PROVE  [NoRun EXCEPT !.status = "running", !.owner = p, !.lease = "live",
                             !.source = x, !.command = k] \in RunRow
    BY Zenon DEF NoRun, RunRow, Lease
  <1> QED
    BY <1>2, <1>3, <1>4, <1>5, <1>6

\* What is written to a resume request.
LEMMA ResumeRows ==
    ASSUME TypeOK, NEW k \in Command
    PROVE  /\ \A s \in ResumeStatus :
                 /\ [resume EXCEPT ![k].status = s, ![k].owner = NULL]
                        \in [Command -> Reservation]
                 /\ [resume EXCEPT ![k].status = s, ![k].owner = NULL, ![k].lease = "none"]
                        \in [Command -> Reservation]
           /\ \A r \in Run : [resume EXCEPT ![k].status = "bound", ![k].root = r,
                                  ![k].lease = "none"] \in [Command -> Reservation]
           /\ [resume EXCEPT ![k].lease = "lapsed"] \in [Command -> Reservation]
           /\ \A p \in Process :
                 /\ [resume EXCEPT ![k].status = "starting", ![k].owner = p, ![k].lease = "live",
                        ![k].epoch = @ + 1] \in [Command -> Reservation]
                 /\ [resume EXCEPT ![k] = [NoReservation EXCEPT !.status = "starting",
                        !.owner = p, !.lease = "live", !.epoch = 1, !.source = turn.root,
                        !.revision = operation.revision]] \in [Command -> Reservation]
  <1>1. resume \in [Command -> Reservation] /\ resume[k] \in Reservation
    BY DEF TypeOK
  <1>2. ASSUME NEW row \in Reservation PROVE [resume EXCEPT ![k] = row] \in [Command -> Reservation]
    BY <1>1
  <1>3. ASSUME NEW s \in ResumeStatus
        PROVE  /\ [resume[k] EXCEPT !.status = s, !.owner = NULL] \in Reservation
               /\ [resume[k] EXCEPT !.status = s, !.owner = NULL, !.lease = "none"] \in Reservation
    BY <1>1, Zenon DEF Reservation, ResumeStatus, Lease
  <1>4. ASSUME NEW s \in ResumeStatus
        PROVE  /\ [resume EXCEPT ![k].status = s, ![k].owner = NULL]
                  = [resume EXCEPT ![k] = [resume[k] EXCEPT !.status = s, !.owner = NULL]]
               /\ [resume EXCEPT ![k].status = s, ![k].owner = NULL, ![k].lease = "none"]
                  = [resume EXCEPT ![k] = [resume[k] EXCEPT !.status = s, !.owner = NULL,
                                                            !.lease = "none"]]
    BY <1>1
  <1>5. ASSUME NEW r \in Run
        PROVE  [resume[k] EXCEPT !.status = "bound", !.root = r, !.lease = "none"] \in Reservation
    BY <1>1, Zenon DEF Reservation, Lease
  <1>6. ASSUME NEW r \in Run
        PROVE  [resume EXCEPT ![k].status = "bound", ![k].root = r, ![k].lease = "none"]
               = [resume EXCEPT ![k] = [resume[k] EXCEPT !.status = "bound", !.root = r,
                                                         !.lease = "none"]]
    BY <1>1
  <1>7. [resume[k] EXCEPT !.lease = "lapsed"] \in Reservation
    BY <1>1, Zenon DEF Reservation, Lease
  <1>8. ASSUME NEW p \in Process
        PROVE  [resume EXCEPT ![k].status = "starting", ![k].owner = p, ![k].lease = "live",
                              ![k].epoch = @ + 1] \in [Command -> Reservation]
    <2>1. ASSUME NEW n \in Nat
          PROVE  [resume[k] EXCEPT !.status = "starting", !.owner = p, !.lease = "live",
                                   !.epoch = n] \in Reservation
      BY <1>1, Zenon DEF Reservation, Lease
    <2>2. resume[k].epoch + 1 \in Nat
      BY <1>1 DEF Reservation
    <2>3. [resume EXCEPT ![k].status = "starting", ![k].owner = p, ![k].lease = "live",
                         ![k].epoch = @ + 1]
          = [resume EXCEPT ![k] = [resume[k] EXCEPT !.status = "starting", !.owner = p,
                                       !.lease = "live", !.epoch = resume[k].epoch + 1]]
      BY <1>1
    <2> QED
      BY <1>2, <2>1, <2>2, <2>3
  <1>9. ASSUME NEW p \in Process, NEW x \in Run \union {NULL}, NEW n \in Nat
        PROVE  [NoReservation EXCEPT !.status = "starting", !.owner = p, !.lease = "live",
                    !.epoch = 1, !.source = x, !.revision = n] \in Reservation
    BY Zenon DEF NoReservation, Reservation, Lease
  <1>10. turn.root \in Run \union {NULL} /\ operation.revision \in Nat
    BY DEF TypeOK, Turn, Operation
  <1> QED
    BY <1>2, <1>3, <1>4, <1>5, <1>6, <1>7, <1>8, <1>9, <1>10

\* Where a background task goes.
LEMMA WorkerRows ==
    ASSUME TypeOK, NEW w \in Worker
    PROVE  /\ \A a \in Point : [worker EXCEPT ![w].at = a] \in [Worker -> Dispatch]
           /\ [worker EXCEPT ![w] = Idle] \in [Worker -> Dispatch]
           /\ \A p \in Process, n \in Nat :
                 [worker EXCEPT ![w] = [Idle EXCEPT !.at = "claim", !.process = p, !.attempt = n]]
                     \in [Worker -> Dispatch]
           /\ \A p \in Process, k \in Command :
                 [worker EXCEPT ![w] = [Idle EXCEPT !.at = "reserve", !.process = p, !.command = k]]
                     \in [Worker -> Dispatch]
           /\ \A m, n \in Nat :
                 [worker EXCEPT ![w].at = "claim", ![w].epoch = m, ![w].attempt = n]
                     \in [Worker -> Dispatch]
           /\ worker[w].process \in Process \union {NULL}
           /\ worker[w].command \in Command \union {NULL}
           /\ worker[w].attempt \in Nat
  <1>1. worker \in [Worker -> Dispatch] /\ worker[w] \in Dispatch
    BY DEF TypeOK
  <1>2. Idle \in Dispatch
    BY DEF Idle, Dispatch, Point
  <1>3. ASSUME NEW a \in Point PROVE [worker[w] EXCEPT !.at = a] \in Dispatch
    BY <1>1, Zenon DEF Dispatch
  <1>4. ASSUME NEW p \in Process, NEW n \in Nat
        PROVE  [Idle EXCEPT !.at = "claim", !.process = p, !.attempt = n] \in Dispatch
    BY <1>2, Zenon DEF Dispatch, Point
  <1>5. ASSUME NEW p \in Process, NEW k \in Command
        PROVE  [Idle EXCEPT !.at = "reserve", !.process = p, !.command = k] \in Dispatch
    BY <1>2, Zenon DEF Dispatch, Point
  <1>6. ASSUME NEW m \in Nat, NEW n \in Nat
        PROVE  [worker EXCEPT ![w].at = "claim", ![w].epoch = m, ![w].attempt = n]
                   \in [Worker -> Dispatch]
    <2>1. [worker[w] EXCEPT !.at = "claim", !.epoch = m, !.attempt = n] \in Dispatch
      BY <1>1, Zenon DEF Dispatch, Point
    <2>2. [worker EXCEPT ![w].at = "claim", ![w].epoch = m, ![w].attempt = n]
          = [worker EXCEPT ![w] = [worker[w] EXCEPT !.at = "claim", !.epoch = m, !.attempt = n]]
      BY <1>1
    <2> QED
      BY <1>1, <2>1, <2>2
  <1>7. /\ worker[w].process \in Process \union {NULL}
        /\ worker[w].command \in Command \union {NULL}
        /\ worker[w].attempt \in Nat
    BY <1>1 DEF Dispatch
  <1> QED
    BY <1>1, <1>2, <1>3, <1>4, <1>5, <1>6, <1>7

\* The numbers a dispatch reads.
LEMMA NumbersRead ==
    ASSUME TypeOK
    PROVE  turn.attempt + 1 \in Nat /\ \A k \in Command : resume[k].epoch \in Nat
  <1>1. turn.attempt \in Nat
    BY DEF TypeOK, Turn
  <1>2. \A k \in Command : resume[k].epoch \in Nat
    BY DEF TypeOK, Reservation
  <1> QED
    BY <1>1, <1>2

\* A background task that goes on, or ends.
LEMMA GoesType ==
    ASSUME TypeOK, NEW w \in Worker
    PROVE  /\ \A a \in Point : Goes(w, a) => worker' \in [Worker -> Dispatch]
           /\ Ends(w) => worker' \in [Worker -> Dispatch]
  <1>1. ASSUME NEW a \in Point, Goes(w, a) PROVE worker' \in [Worker -> Dispatch]
    <2>1. [worker EXCEPT ![w].at = a] \in [Worker -> Dispatch]
      BY WorkerRows
    <2> QED
      BY <1>1, <2>1 DEF Goes
  <1>2. ASSUME Ends(w) PROVE worker' \in [Worker -> Dispatch]
    BY <1>2, WorkerRows DEF Ends
  <1> QED
    BY <1>1, <1>2

\* Where a backend goes.
LEMMA BackendRows ==
    ASSUME TypeOK, NEW p \in Process
    PROVE  /\ \A a \in {"new", "select", "pause", "update", "up", "dead"} :
                 /\ [backend EXCEPT ![p].at = a] \in [Process -> Backend]
                 /\ \A s \in OperationStatus, n \in Nat :
                       [backend EXCEPT ![p] = [at |-> a, seen |-> s, claim |-> n]]
                           \in [Process -> Backend]
           /\ operation.status \in OperationStatus /\ turn.attempt \in Nat
  <1>1. backend \in [Process -> Backend] /\ backend[p] \in Backend
    BY DEF TypeOK
  <1>2. ASSUME NEW a \in {"new", "select", "pause", "update", "up", "dead"}
        PROVE  [backend EXCEPT ![p].at = a] \in [Process -> Backend]
    <2>1. [backend[p] EXCEPT !.at = a] \in Backend
      BY <1>1, Zenon DEF Backend
    <2> QED
      BY <1>1, <2>1
  <1>3. ASSUME NEW a \in {"new", "select", "pause", "update", "up", "dead"},
               NEW s \in OperationStatus, NEW n \in Nat
        PROVE  [backend EXCEPT ![p] = [at |-> a, seen |-> s, claim |-> n]]
                   \in [Process -> Backend]
    BY <1>1 DEF Backend
  <1> QED
    BY <1>2, <1>3 DEF TypeOK, Operation, Turn

-----------------------------------------------------------------------------
\* Type correctness

\* The commit of a Run keeps the types of the four rows it writes.
LEMMA CommitsType ==
    ASSUME TypeOK, NEW r \in Run, NEW status \in {"done", "failed", "canceled"},
           NEW taskStatus, Commits(r, status, taskStatus)
    PROVE  /\ turn' \in Turn /\ operation' \in Operation
           /\ run' \in [Run -> RunRow] /\ resume' \in [Command -> Reservation]
  <1> DEFINE o == IF status = "done" THEN "succeeded" ELSE Outcome(status, taskStatus)
             k == run[r].command
  <1>1. Outcome(status, taskStatus) \in {"paused", "canceled", "failed"}
    BY DEF Outcome
  <1>2. o \in {"succeeded", "paused", "canceled", "failed"}
    BY <1>1
  <1>3. k \in Command \union {NULL}
    BY DEF TypeOK, RunRow
  <1>4. /\ run' = [run EXCEPT ![r].status = status, ![r].owner = NULL, ![r].lease = "none"]
        /\ turn' = [turn EXCEPT !.status = IF status = "done" THEN "completed" ELSE o]
        /\ operation' = OperationIs(o)
        /\ resume' = IF k = NULL THEN resume
                     ELSE [resume EXCEPT ![k].status = o, ![k].owner = NULL]
    BY Zenon DEF Commits
  <1> HIDE DEF o, k
  <1>5. turn' \in Turn
    <2>1. (IF status = "done" THEN "completed" ELSE o) \in TurnStatus
      BY <1>1 DEF TurnStatus, Settled, o
    <2> QED
      BY <1>4, <2>1, TurnRows
  <1>6. operation' \in Operation
    BY <1>2, <1>4, OperationRows DEF OperationStatus
  <1>7. run' \in [Run -> RunRow]
    BY <1>4, RunRows DEF RunStatus
  <1>8. resume' \in [Command -> Reservation]
    <2>1. CASE k = NULL
      BY <1>4, <2>1 DEF TypeOK
    <2>2. CASE k # NULL
      <3>1. k \in Command /\ o \in ResumeStatus
        BY <1>2, <1>3, <2>2 DEF ResumeStatus, OperationStatus
      <3> QED
        BY <1>4, <2>2, <3>1, ResumeRows
    <2> QED
      BY <2>1, <2>2
  <1> QED
    BY <1>5, <1>6, <1>7, <1>8

\* The begin of a Run, first or continued, keeps the types of what it writes.
LEMMA BegunType ==
    ASSUME TypeOK, NEW w \in Worker, NEW r \in Run, NEW source \in Run \union {NULL},
           Begun(w, r, source)
    PROVE  turn' \in Turn /\ operation' \in Operation /\ run' \in [Run -> RunRow]
  <1>1. worker[w].process \in Process \union {NULL} /\ worker[w].command \in Command \union {NULL}
    BY WorkerRows
  <1>2. turn' \in Turn
    BY TurnRows DEF Begun, TurnStatus
  <1>3. operation' \in Operation
    BY OperationRows DEF Begun, OperationStatus
  <1>4. run' \in [Run -> RunRow]
    BY <1>1, RunRows DEF Begun
  <1> QED
    BY <1>2, <1>3, <1>4

\* A reservation, new or taken over, keeps the types.
LEMMA ReserveType ==
    ASSUME TypeOK, NEW k \in Command, NEW p \in Process, Reserve(k, p)
    PROVE  resume' \in [Command -> Reservation]
  <1>1. /\ [resume EXCEPT ![k].status = "starting", ![k].owner = p, ![k].lease = "live",
                        ![k].epoch = @ + 1] \in [Command -> Reservation]
        /\ [resume EXCEPT ![k] = [NoReservation EXCEPT !.status = "starting",
                        !.owner = p, !.lease = "live", !.epoch = 1, !.source = turn.root,
                        !.revision = operation.revision]] \in [Command -> Reservation]
    BY ResumeRows
  <1>2. \/ resume' = [resume EXCEPT ![k].status = "starting", ![k].owner = p,
                                    ![k].lease = "live", ![k].epoch = @ + 1]
        \/ resume' = [resume EXCEPT ![k] =
              [NoReservation EXCEPT !.status = "starting", !.owner = p, !.lease = "live",
                  !.epoch = 1, !.source = turn.root, !.revision = operation.revision]]
    BY Zenon DEF Reserve
  <1> QED
    BY <1>1, <1>2, Zenon

\* The first dispatch of a Turn keeps the types.
LEMMA FirstDispatchType ==
    ASSUME TypeOK, NEW w \in Worker,
           \/ Admit
           \/ \E p \in Process : DispatchTurn(p, w)
           \/ ClaimTurn(w) \/ BeginRun(w) \/ StartFailed(w)
    PROVE  TypeOK'
  <1> USE WorkerRows, GoesType
  <1>1. CASE Admit
    <2>1. turn' \in Turn /\ operation' \in Operation
      BY <1>1, TurnRows, OperationRows DEF Admit, TurnStatus, OperationStatus
    <2> QED
      BY <1>1, <2>1 DEF Admit, TypeOK
  <1>2. ASSUME NEW p \in Process, DispatchTurn(p, w) PROVE TypeOK'
    <2>1. turn.attempt + 1 \in Nat
      BY NumbersRead
    <2>2. worker' \in [Worker -> Dispatch]
      BY <1>2, <2>1 DEF DispatchTurn
    <2> QED
      BY <1>2, <2>2 DEF DispatchTurn, TypeOK, rows
  <1>3. CASE ClaimTurn(w)
    <2>1. worker' \in [Worker -> Dispatch]
      BY <1>3 DEF ClaimTurn, Point
    <2>2. turn' \in Turn
      <3>1. CASE ClaimedBy(w)
        <4>1. Claimant(w) \in Process \union Worker \union {NULL}
          BY DEF Claimant
        <4> QED
          BY <3>1, <4>1, TurnRows DEF ClaimedBy
      <3> QED
        BY <1>3, <3>1 DEF ClaimTurn, TypeOK
    <2> QED
      BY <1>3, <2>1, <2>2 DEF ClaimTurn, TypeOK
  <1>4. CASE BeginRun(w)
    <2>1. worker' \in [Worker -> Dispatch]
      BY <1>4 DEF BeginRun, Point
    <2>2. turn' \in Turn /\ operation' \in Operation /\ run' \in [Run -> RunRow]
      BY <1>4, BegunType DEF BeginRun, TypeOK
    <2> QED
      BY <1>4, <2>1, <2>2 DEF BeginRun, TypeOK
  <1>5. CASE StartFailed(w)
    <2>1. worker' \in [Worker -> Dispatch]
      BY <1>5 DEF StartFailed
    <2>2. turn' \in Turn /\ operation' \in Operation
      BY <1>5, TurnRows, OperationRows DEF StartFailed, TypeOK, TurnStatus, Settled, OperationStatus
    <2> QED
      BY <1>5, <2>1, <2>2 DEF StartFailed, TypeOK
  <1> QED
    BY <1>1, <1>2, <1>3, <1>4, <1>5

\* A resumed dispatch keeps the types.
LEMMA ResumedDispatchType ==
    ASSUME TypeOK, NEW w \in Worker,
           \/ \E p \in Process, k \in Command : DispatchResume(p, w, k)
           \/ worker[w].command \in Command /\ worker[w].process \in Process /\ ReserveAgain(w)
           \/ worker[w].command \in Command /\ ValidateResume(w)
           \/ ClaimPaused(w) \/ ResumeTask(w)
           \/ worker[w].command \in Command /\ ContinueRun(w)
           \/ ReadClaim(w) \/ PauseAgain(w) \/ Unclaim(w)
           \/ worker[w].command \in Command /\ Release(w)
           \/ DispatchFails(w)
    PROVE  TypeOK'
  <1> USE WorkerRows, GoesType
  <1>1. ASSUME NEW p \in Process, NEW k \in Command, DispatchResume(p, w, k) PROVE TypeOK'
    <2>1. worker' \in [Worker -> Dispatch] /\ resume' \in [Command -> Reservation]
      BY <1>1, ReserveType DEF DispatchResume
    <2> QED
      BY <1>1, <2>1 DEF DispatchResume, TypeOK
  <1>2. ASSUME worker[w].command \in Command, worker[w].process \in Process, ReserveAgain(w)
        PROVE  TypeOK'
    <2>1. worker' \in [Worker -> Dispatch]
      BY <1>2 DEF ReserveAgain, Point
    <2>2. resume' \in [Command -> Reservation]
      BY <1>2, ReserveType DEF ReserveAgain, TypeOK
    <2> QED
      BY <1>2, <2>1, <2>2 DEF ReserveAgain, TypeOK
  <1>3. ASSUME worker[w].command \in Command, ValidateResume(w) PROVE TypeOK'
    <2>1. turn.attempt + 1 \in Nat /\ resume[worker[w].command].epoch \in Nat
      BY <1>3, NumbersRead
    <2>2. worker' \in [Worker -> Dispatch]
      <3>1. CASE Goes(w, "release")
        BY <3>1 DEF Point
      <3>2. CASE worker' = [worker EXCEPT ![w].at = "claim",
                                ![w].epoch = resume[worker[w].command].epoch,
                                ![w].attempt = turn.attempt + 1]
        BY <2>1, <3>2
      <3> QED
        BY <1>3, <3>1, <3>2 DEF ValidateResume
    <2> QED
      BY <1>3, <2>2 DEF ValidateResume, TypeOK, rows
  <1>4. CASE ClaimPaused(w)
    <2>1. worker' \in [Worker -> Dispatch]
      BY <1>4 DEF ClaimPaused, Point
    <2>2. turn' \in Turn
      <3>1. CASE ClaimedBy(w)
        <4>1. Claimant(w) \in Process \union Worker \union {NULL}
          BY DEF Claimant
        <4> QED
          BY <3>1, <4>1, TurnRows DEF ClaimedBy
      <3> QED
        BY <1>4, <3>1 DEF ClaimPaused, TypeOK
    <2> QED
      BY <1>4, <2>1, <2>2 DEF ClaimPaused, TypeOK
  <1>5. CASE ResumeTask(w)
    <2>1. worker' \in [Worker -> Dispatch]
      BY <1>5 DEF ResumeTask, Point
    <2>2. task' \in Task
      BY <1>5, TaskRows DEF ResumeTask, TypeOK
    <2> QED
      BY <1>5, <2>1, <2>2 DEF ResumeTask, TypeOK
  <1>6. ASSUME worker[w].command \in Command, ContinueRun(w) PROVE TypeOK'
    <2>1. worker' \in [Worker -> Dispatch]
      BY <1>6 DEF ContinueRun, Point
    <2>2. CASE \E r \in Run : Begun(w, r, resume[worker[w].command].source)
                                /\ Bind(worker[w].command, r)
      <3>1. resume[worker[w].command].source \in Run \union {NULL}
        BY <1>6 DEF TypeOK, Reservation
      <3>2. PICK r \in Run : Begun(w, r, resume[worker[w].command].source)
                               /\ Bind(worker[w].command, r)
        BY <2>2
      <3>3. turn' \in Turn /\ operation' \in Operation /\ run' \in [Run -> RunRow]
        BY <3>1, <3>2, BegunType
      <3>4. resume' \in [Command -> Reservation]
        BY <1>6, <3>2, ResumeRows DEF Bind
      <3> QED
        BY <1>6, <2>1, <3>3, <3>4 DEF ContinueRun, TypeOK
    <2>3. CASE UNCHANGED <<turn, operation, run, resume>>
      BY <1>6, <2>1, <2>3 DEF ContinueRun, TypeOK
    <2> QED
      BY <1>6, <2>2, <2>3 DEF ContinueRun
  <1>7. CASE ReadClaim(w)
    <2>1. worker' \in [Worker -> Dispatch]
      BY <1>7 DEF ReadClaim, Point
    <2> QED
      BY <1>7, <2>1 DEF ReadClaim, TypeOK, rows
  <1>8. CASE PauseAgain(w)
    <2>1. worker' \in [Worker -> Dispatch] /\ task' \in Task
      BY <1>8, TaskRows DEF PauseAgain, Point, TypeOK
    <2> QED
      BY <1>8, <2>1 DEF PauseAgain, TypeOK
  <1>9. CASE Unclaim(w)
    <2>1. worker' \in [Worker -> Dispatch] /\ turn' \in Turn
      BY <1>9, TurnRows DEF Unclaim, Point, TypeOK, TurnStatus
    <2> QED
      BY <1>9, <2>1 DEF Unclaim, TypeOK
  <1>10. ASSUME worker[w].command \in Command, Release(w) PROVE TypeOK'
    <2>1. "reserved" \in ResumeStatus
      BY DEF ResumeStatus
    <2>2. worker' \in [Worker -> Dispatch] /\ resume' \in [Command -> Reservation]
      BY <1>10, <2>1, ResumeRows DEF Release, TypeOK
    <2> QED
      BY <1>10, <2>2 DEF Release, TypeOK
  <1>11. CASE DispatchFails(w)
    <2>1. worker' \in [Worker -> Dispatch]
      BY <1>11 DEF DispatchFails, Point
    <2> QED
      BY <1>11, <2>1 DEF DispatchFails, TypeOK, rows
  <1> QED
    BY <1>1, <1>2, <1>3, <1>4, <1>5, <1>6, <1>7, <1>8, <1>9, <1>10, <1>11

\* The steps of a Run keep the types.
LEMMA RunStepType ==
    ASSUME TypeOK, NEW r \in Run,
           \/ CreateTask(r) \/ StopTask(r) \/ EndRun(r) \/ PauseOrphan(r) \/ EndOrphan(r)
           \/ FenceRun(r) \/ LapseRun(r)
    PROVE  TypeOK'
  <1>1. CASE CreateTask(r)
    <2>1. task' \in Task
      BY <1>1, TaskRows DEF CreateTask, Open
    <2> QED
      BY <1>1, <2>1 DEF CreateTask, TypeOK
  <1>2. CASE StopTask(r)
    <2>1. task' \in Task
      BY <1>2, TaskRows DEF StopTask, Open
    <2> QED
      BY <1>2, <2>1 DEF StopTask, TypeOK
  <1>3. CASE EndRun(r)
    <2>1. PICK status \in {"done", "failed", "canceled"} : Commits(r, status, task.status)
      BY <1>3 DEF EndRun
    <2>2. /\ turn' \in Turn /\ operation' \in Operation
          /\ run' \in [Run -> RunRow] /\ resume' \in [Command -> Reservation]
      BY <2>1, CommitsType
    <2> QED
      BY <1>3, <2>2 DEF EndRun, TypeOK
  <1>4. CASE EndOrphan(r)
    <2>1. PICK status, s : status \in {"done", "failed", "canceled"} /\ Commits(r, status, s)
      BY <1>4 DEF EndOrphan
    <2>2. /\ turn' \in Turn /\ operation' \in Operation
          /\ run' \in [Run -> RunRow] /\ resume' \in [Command -> Reservation]
      BY <2>1, CommitsType
    <2> QED
      BY <1>4, <2>2 DEF EndOrphan, TypeOK
  <1>5. CASE FenceRun(r)
    <2>1. turn' \in Turn /\ operation' \in Operation /\ task' \in Task /\ run' \in [Run -> RunRow]
      BY <1>5, TurnRows, OperationRows, TaskRows, RunRows DEF FenceRun
    <2> QED
      BY <1>5, <2>1 DEF FenceRun, TypeOK
  <1>6. CASE LapseRun(r)
    <2>1. run' \in [Run -> RunRow]
      BY <1>6, RunRows DEF LapseRun
    <2> QED
      BY <1>6, <2>1 DEF LapseRun, TypeOK
  <1>7. CASE PauseOrphan(r)
    BY <1>7, TaskRows DEF PauseOrphan, TypeOK
  <1> QED
    BY <1>1, <1>2, <1>3, <1>4, <1>5, <1>6, <1>7

\* A cancel keeps the types.
LEMMA CancelType == ASSUME TypeOK, NEW c \in Cancel, RequestCancel(c) PROVE TypeOK'
  <1>1. "canceled" \in TurnStatus
    BY DEF TurnStatus, Settled
  <1>2. turn' \in Turn /\ operation' \in Operation /\ task' \in Task
    <2>1. CASE CancelsProduct
      BY <1>1, <2>1, TurnRows, OperationRows, TaskRows DEF CancelsProduct, TypeOK
    <2>2. CASE ~CancelsProduct
      BY <2>2, TurnRows, OperationRows, TaskRows DEF RequestCancel, TypeOK
    <2> QED
      BY <2>1, <2>2
  <1>3. canceled' \subseteq Cancel
    BY DEF RequestCancel, TypeOK
  <1> QED
    BY <1>2, <1>3 DEF RequestCancel, TypeOK

\* Time keeps the types.
LEMMA LapseType ==
    ASSUME TypeOK, LapseTurn \/ \E k \in Command : LapseReservation(k)
    PROVE  TypeOK'
  <1>1. CASE LapseTurn
    <2>1. ASSUME NEW k \in Command
          PROVE  /\ [resume[k] EXCEPT !.lease = "lapsed"] \in Reservation
                 /\ resume[k] \in Reservation
      <3>1. resume[k] \in Reservation
        BY DEF TypeOK
      <3> QED
        BY <3>1, Zenon DEF Reservation, Lease
    <2>2. resume' \in [Command -> Reservation]
      BY <1>1, <2>1 DEF LapseTurn
    <2>3. turn' \in Turn
      BY <1>1, TurnRows DEF LapseTurn
    <2> QED
      BY <1>1, <2>2, <2>3 DEF LapseTurn, TypeOK
  <1>2. ASSUME NEW k \in Command, LapseReservation(k) PROVE TypeOK'
    <2>1. resume' \in [Command -> Reservation]
      BY <1>2, ResumeRows DEF LapseReservation
    <2> QED
      BY <1>2, <2>1 DEF LapseReservation, TypeOK
  <1> QED
    BY <1>1, <1>2

\* Crashes and startup keep the types.
LEMMA StartupType ==
    ASSUME TypeOK, NEW p \in Process,
           \/ Crash(p) \/ Checkpoint(p) \/ SelectStale(p) \/ PauseStale(p) \/ RecoverStale(p)
    PROVE  TypeOK'
  <1> USE BackendRows
  <1>0. \A s \in {"none"} : s \in OperationStatus
    BY DEF OperationStatus
  <1>1. CASE Crash(p)
    <2>1. Idle \in Dispatch
      BY DEF Idle, Dispatch, Point
    <2>2. worker' \in [Worker -> Dispatch]
      BY <1>1, <2>1 DEF Crash, TypeOK
    <2>3. backend' \in [Process -> Backend]
      BY <1>0, <1>1 DEF Crash
    <2> QED
      BY <1>1, <2>2, <2>3 DEF Crash, TypeOK, rows
  <1>2. CASE Checkpoint(p)
    <2>1. backend' \in [Process -> Backend] /\ task' \in Task
      BY <1>2, TaskRows DEF Checkpoint, TypeOK
    <2> QED
      BY <1>2, <2>1 DEF Checkpoint, TypeOK
  <1>3. CASE SelectStale(p)
    <2>1. backend' \in [Process -> Backend]
      BY <1>0, <1>3 DEF SelectStale
    <2> QED
      BY <1>3, <2>1 DEF SelectStale, TypeOK, rows
  <1>4. CASE PauseStale(p)
    <2>1. backend' \in [Process -> Backend] /\ task' \in Task
      BY <1>4, TaskRows DEF PauseStale, TypeOK
    <2> QED
      BY <1>4, <2>1 DEF PauseStale, TypeOK
  <1>5. CASE RecoverStale(p)
    <2>1. backend' \in [Process -> Backend]
      BY <1>0, <1>5 DEF RecoverStale
    <2>2. turn' \in Turn
      BY <1>5, TurnRows DEF RecoverStale, TypeOK, TurnStatus, Settled
    <2> QED
      BY <1>5, <2>1, <2>2 DEF RecoverStale, TypeOK
  <1> QED
    BY <1>1, <1>2, <1>3, <1>4, <1>5

-----------------------------------------------------------------------------
\* Type correctness, with what a background task knows of itself

Resuming == {"reserve", "validate", "resume", "pause", "unclaim", "release"}

\* A background task that runs has its backend, a resumed one its request.
WorkersReady ==
    \A w \in Worker :
        /\ worker[w].at # "idle" => worker[w].process \in Process
        /\ worker[w].at \in Resuming => worker[w].command \in Command

\* A step that leaves one task idle, or passes it on within its dispatch.
LEMMA WorkerMoves ==
    ASSUME TypeOK, WorkersReady, NEW w \in Worker
    PROVE  /\ worker' = worker => WorkersReady'
           /\ Ends(w) => WorkersReady'
           /\ worker[w].at # "idle" => \A a \in Point :
                 Goes(w, a) /\ (a \in Resuming => worker[w].command \in Command) => WorkersReady'
  <1>1. worker' = worker => WorkersReady'
    BY DEF WorkersReady
  <1>2. ASSUME Ends(w) PROVE WorkersReady'
    BY <1>2 DEF Ends, WorkersReady, Idle, Resuming, TypeOK
  <1>3. ASSUME worker[w].at # "idle", NEW a \in Point, Goes(w, a),
               a \in Resuming => worker[w].command \in Command
        PROVE  WorkersReady'
    <2>1. /\ worker' \in [Worker -> Dispatch]
          /\ worker'[w].at = a /\ worker'[w].process = worker[w].process
          /\ worker'[w].command = worker[w].command
          /\ \A v \in Worker \ {w} : worker'[v] = worker[v]
      BY <1>3, GoesType DEF Goes, TypeOK, Dispatch
    <2> QED
      BY <1>3, <2>1 DEF WorkersReady
  <1> QED
    BY <1>1, <1>2, <1>3

\* The steps of background tasks keep them ready.
LEMMA WorkerStepReady ==
    ASSUME TypeOK, WorkersReady, NEW w \in Worker,
           \/ ClaimTurn(w) \/ BeginRun(w) \/ StartFailed(w)
           \/ ReserveAgain(w) \/ ValidateResume(w) \/ ClaimPaused(w) \/ ResumeTask(w)
           \/ ContinueRun(w) \/ ReadClaim(w) \/ PauseAgain(w) \/ Unclaim(w) \/ Release(w)
           \/ DispatchFails(w)
    PROVE  WorkersReady'
  <1>1. /\ worker[w].at \in Resuming => worker[w].command \in Command
        /\ ~First(w) => worker[w].command \in Command
        /\ worker[w].at # "idle" => worker[w].process \in Process
    BY WorkerRows DEF WorkersReady, First
  <1>2. \/ Ends(w)
        \/ \E a \in Point : /\ Goes(w, a) /\ worker[w].at # "idle"
                            /\ a \in Resuming => worker[w].command \in Command
        \/ worker[w].at = "validate" /\ \E m, n : worker' =
              [worker EXCEPT ![w].at = "claim", ![w].epoch = m, ![w].attempt = n]
    <2>1. CASE ClaimTurn(w)
      BY <2>1 DEF ClaimTurn, Point, Resuming
    <2>2. CASE BeginRun(w)
      BY <2>2 DEF BeginRun, Point, Resuming
    <2>3. CASE StartFailed(w)
      BY <2>3 DEF StartFailed
    <2>4. CASE ReserveAgain(w)
      BY <1>1, <2>4 DEF ReserveAgain, Point, Resuming
    <2>5. CASE ValidateResume(w)
      BY <1>1, <2>5, Zenon DEF ValidateResume, Point, Resuming
    <2>6. CASE ClaimPaused(w)
      BY <1>1, <2>6 DEF ClaimPaused, Point, Resuming
    <2>7. CASE ResumeTask(w)
      BY <1>1, <2>7 DEF ResumeTask, Point, Resuming
    <2>8. CASE ContinueRun(w)
      BY <1>1, <2>8 DEF ContinueRun, Point, Resuming
    <2>9. CASE ReadClaim(w)
      BY <1>1, <2>9 DEF ReadClaim, Point, Resuming
    <2>10. CASE PauseAgain(w)
      BY <1>1, <2>10 DEF PauseAgain, Point, Resuming
    <2>11. CASE Unclaim(w)
      BY <1>1, <2>11 DEF Unclaim, Point, Resuming
    <2>12. CASE Release(w)
      BY <2>12 DEF Release
    <2>13. CASE DispatchFails(w)
      BY <1>1, <2>13 DEF DispatchFails, Point, Resuming
    <2> QED
      BY <2>1, <2>2, <2>3, <2>4, <2>5, <2>6, <2>7, <2>8, <2>9, <2>10, <2>11, <2>12, <2>13
  <1>3. ASSUME worker[w].at = "validate", NEW m, NEW n, worker' =
                  [worker EXCEPT ![w].at = "claim", ![w].epoch = m, ![w].attempt = n]
        PROVE  WorkersReady'
    <2>1. /\ worker'[w].at = "claim" /\ worker'[w].process = worker[w].process
          /\ worker'[w].command = worker[w].command
          /\ \A v \in Worker \ {w} : worker'[v] = worker[v]
      BY <1>3 DEF TypeOK, Dispatch
    <2> QED
      BY <1>1, <1>3, <2>1 DEF WorkersReady, Resuming
  <1> QED
    BY <1>2, <1>3, WorkerMoves

\* Every step keeps types and readiness.
LEMMA TypeStep == TypeOK /\ WorkersReady /\ [Next]_vars => TypeOK' /\ WorkersReady'
  <1> SUFFICES ASSUME TypeOK, WorkersReady, [Next]_vars PROVE TypeOK' /\ WorkersReady'
    OBVIOUS
  <1>1. CASE UNCHANGED vars
    BY <1>1 DEF vars, rows, TypeOK, WorkersReady
  <1>2. CASE Admit \/ LapseTurn
    <2>1. WorkersReady'
      BY <1>2 DEF Admit, LapseTurn, WorkersReady
    <2>2. TypeOK'
      <3>1. CASE Admit
        BY <3>1, TurnRows, OperationRows DEF Admit, TurnStatus, OperationStatus, TypeOK
      <3> QED
        BY <1>2, <3>1, LapseType
    <2> QED
      BY <2>1, <2>2
  <1>3. ASSUME NEW p \in Process,
               Crash(p) \/ Checkpoint(p) \/ SelectStale(p) \/ PauseStale(p) \/ RecoverStale(p)
        PROVE  TypeOK' /\ WorkersReady'
    <2>1. TypeOK'
      BY <1>3, StartupType
    <2>2. CASE Crash(p)
      BY <2>1, <2>2 DEF Crash, WorkersReady, Idle, Resuming
    <2>3. CASE worker' = worker
      BY <2>1, <2>3 DEF WorkersReady
    <2> QED
      BY <1>3, <2>1, <2>2, <2>3 DEF Checkpoint, SelectStale, PauseStale, RecoverStale
  <1>4. ASSUME NEW p \in Process, NEW w \in Worker, DispatchTurn(p, w)
        PROVE  TypeOK' /\ WorkersReady'
    <2>1. TypeOK'
      BY <1>4, FirstDispatchType
    <2>2. /\ worker'[w].at = "claim" /\ worker'[w].process = p
          /\ \A v \in Worker \ {w} : worker'[v] = worker[v]
      BY <1>4 DEF DispatchTurn, TypeOK, Idle
    <2> QED
      BY <2>1, <2>2 DEF WorkersReady, Resuming
  <1>5. ASSUME NEW p \in Process, NEW w \in Worker, NEW k \in Command, DispatchResume(p, w, k)
        PROVE  TypeOK' /\ WorkersReady'
    <2>1. TypeOK'
      BY <1>5, ResumedDispatchType
    <2>2. /\ worker'[w].command = k /\ worker'[w].process = p
          /\ \A v \in Worker \ {w} : worker'[v] = worker[v]
      BY <1>5 DEF DispatchResume, TypeOK, Idle
    <2> QED
      BY <2>1, <2>2 DEF WorkersReady
  <1>6. ASSUME NEW w \in Worker,
               \/ ClaimTurn(w) \/ BeginRun(w) \/ StartFailed(w)
               \/ ReserveAgain(w) \/ ValidateResume(w) \/ ClaimPaused(w) \/ ResumeTask(w)
               \/ ContinueRun(w) \/ ReadClaim(w) \/ PauseAgain(w) \/ Unclaim(w) \/ Release(w)
               \/ DispatchFails(w)
        PROVE  TypeOK' /\ WorkersReady'
    <2>1. /\ worker[w].at \in Resuming => worker[w].command \in Command
          /\ ~First(w) => worker[w].command \in Command
          /\ worker[w].at # "idle" => worker[w].process \in Process
      BY WorkerRows DEF WorkersReady, First
    <2>2. /\ ReserveAgain(w) => worker[w].command \in Command /\ worker[w].process \in Process
          /\ ValidateResume(w) => worker[w].command \in Command
          /\ ContinueRun(w) => worker[w].command \in Command
          /\ Release(w) => worker[w].command \in Command
      BY <2>1 DEF ReserveAgain, ValidateResume, ContinueRun, Release, Resuming
    <2>3. TypeOK'
      BY <1>6, <2>2, FirstDispatchType, ResumedDispatchType
    <2> QED
      BY <1>6, <2>3, WorkerStepReady
  <1>7. ASSUME NEW r \in Run,
               \/ CreateTask(r) \/ StopTask(r) \/ EndRun(r) \/ PauseOrphan(r) \/ EndOrphan(r)
               \/ FenceRun(r) \/ LapseRun(r)
        PROVE  TypeOK' /\ WorkersReady'
    <2>1. worker' = worker
      BY <1>7 DEF CreateTask, StopTask, EndRun, PauseOrphan, EndOrphan, FenceRun, LapseRun
    <2> QED
      BY <1>7, <2>1, RunStepType DEF WorkersReady
  <1>8. ASSUME NEW k \in Command, LapseReservation(k) PROVE TypeOK' /\ WorkersReady'
    BY <1>8, LapseType DEF LapseReservation, WorkersReady
  <1>9. ASSUME NEW c \in Cancel, RequestCancel(c) PROVE TypeOK' /\ WorkersReady'
    BY <1>9, CancelType DEF RequestCancel, WorkersReady
  <1> QED
    BY <1>1, <1>2, <1>3, <1>4, <1>5, <1>6, <1>7, <1>8, <1>9 DEF Next

\* Every row has its type, for any number of backends, tasks, Runs and requests.
THEOREM TurnTypeCorrect == Spec => []TypeOK
  <1>1. Init => TypeOK /\ WorkersReady
    BY DEF Init, TypeOK, WorkersReady, Turn, Operation, Task, RunRow, Reservation, Dispatch,
           Backend, NoRun, NoReservation, Idle, Lease, OperationStatus, Open, Settled, Point, Resuming
  <1> QED
    BY <1>1, TypeStep, PTL DEF Spec

-----------------------------------------------------------------------------
\* Roots: one of them executes, and they form a chain.

\* The Turn names the end of the chain, and every Run but the first continues
\* one that was begun before it.
Chain ==
    /\ turn.root = NULL => \A r \in Run : run[r].status = "none"
    /\ turn.root # NULL => run[turn.root].status # "none"
    /\ \A r \in Run : run[r].status # "none" =>
          /\ run[r].source # turn.root \/ turn.root = NULL
          /\ run[r].source # NULL => run[run[r].source].status # "none"

\* A resume request that was taken up names the Run it continues.
Reserved == \A k \in Command : resume[k].status # "none" => resume[k].source \in Run

Roots == OneLiveRoot /\ ContinuedOnce /\ Chain

\* Steps that neither begin nor end a Run.
LEMMA RootsKept ==
    ASSUME TypeOK, Roots, turn'.root = turn.root,
           turn.status = "running" => turn'.status = "running",
           \A r \in Run : run'[r].status = run[r].status /\ run'[r].source = run[r].source
    PROVE  Roots'
  <1>1. turn.root \in Run \union {NULL} /\ \A r \in Run : run[r].source \in Run \union {NULL}
    BY DEF TypeOK, Turn, RunRow
  <1>2. OneLiveRoot' /\ ContinuedOnce'
    BY DEF Roots, OneLiveRoot, ContinuedOnce
  <1>3. Chain'
    BY <1>1 DEF Roots, Chain
  <1> QED
    BY <1>2, <1>3 DEF Roots

\* A Run that ends.
LEMMA RootsEnded ==
    ASSUME TypeOK, Roots, NEW r \in Run, NEW status \in {"done", "failed", "canceled"},
           NEW taskStatus, Commits(r, status, taskStatus)
    PROVE  Roots'
  <1>1. turn.root \in Run \union {NULL} /\ \A s \in Run : run[s].source \in Run \union {NULL}
    BY DEF TypeOK, Turn, RunRow
  <1>2. /\ run'[r].status = status /\ run'[r].source = run[r].source
        /\ \A s \in Run \ {r} : run'[s] = run[s]
    BY DEF Commits, TypeOK, RunRow
  <1>3. turn.root = r /\ turn'.root = r
    BY DEF Commits, TypeOK, Turn
  <1>4. OneLiveRoot'
    BY <1>2, <1>3 DEF Roots, OneLiveRoot
  <1>5. \A s \in Run : (run'[s].status # "none" <=> run[s].status # "none")
                          /\ run'[s].source = run[s].source
    BY <1>2, <1>3, IdAssumption DEF Roots, Chain
  <1>6. ContinuedOnce'
    BY <1>5 DEF Roots, ContinuedOnce
  <1>7. Chain'
    BY <1>1, <1>3, <1>5 DEF Roots, Chain
  <1> QED
    BY <1>4, <1>6, <1>7 DEF Roots

\* A Run that begins: the first one, or the next one of the chain.
LEMMA RootsBegun ==
    ASSUME TypeOK, Roots, NEW w \in Worker, NEW r \in Run, NEW source \in Run \union {NULL},
           Begun(w, r, source), turn.root = source, turn.status = "planning"
    PROVE  Roots'
  <1>1. turn.root \in Run \union {NULL} /\ \A s \in Run : run[s].source \in Run \union {NULL}
    BY DEF TypeOK, Turn, RunRow
  <1>2. /\ run[r].status = "none" /\ run'[r].status = "running" /\ run'[r].source = source
        /\ \A s \in Run \ {r} : run'[s] = run[s]
    BY DEF Begun, TypeOK, NoRun
  <1>3. turn'.root = r /\ turn'.status = "running"
    BY DEF Begun, TurnIs, TypeOK, Turn
  <1>4. OneLiveRoot'
    BY <1>2, <1>3 DEF Roots, OneLiveRoot
  <1>5. ContinuedOnce'
    <2>1. \A s \in Run : run[s].status # "none" => run[s].source # source
      BY <1>1 DEF Roots, Chain
    <2> QED
      BY <1>2, <2>1 DEF Roots, ContinuedOnce
  <1>6. Chain'
    <2>1. source # r
      BY <1>2, IdAssumption DEF Roots, Chain
    <2>2. \A s \in Run : run[s].status # "none" => run[s].source # r
      BY <1>1, <1>2, IdAssumption DEF Roots, Chain
    <2>3. r # NULL
      BY IdAssumption
    <2> QED
      BY <1>1, <1>2, <1>3, <2>1, <2>2, <2>3 DEF Roots, Chain
  <1> QED
    BY <1>4, <1>5, <1>6 DEF Roots

\* The Turn under another status names the same root.
LEMMA TurnIsRoot ==
    ASSUME TypeOK, NEW s
    PROVE  TurnIs(s).root = turn.root /\ TurnIs(s).status = s
           /\ TurnIs(s).fence = turn.fence /\ TurnIs(s).owner = NULL
  BY DEF TurnIs, TypeOK, Turn

\* Every step keeps the chain of Runs.
LEMMA RootsStep ==
    TypeOK /\ WorkersReady /\ Roots /\ Reserved /\ [Next]_vars => Roots'
  <1> SUFFICES ASSUME TypeOK, WorkersReady, Roots, Reserved, [Next]_vars PROVE Roots'
    OBVIOUS
  <1>0. turn \in Turn
    BY DEF TypeOK
  <1>1. CASE UNCHANGED <<turn, run>>
    BY <1>1, RootsKept
  <1>2. CASE Admit
    BY <1>0, <1>2, RootsKept, TurnIsRoot DEF Admit
  <1>3. CASE LapseTurn
    BY <1>0, <1>3, RootsKept DEF LapseTurn, Turn
  <1>4. ASSUME NEW w \in Worker, ClaimTurn(w) \/ ClaimPaused(w) PROVE Roots'
    <2>1. ClaimedBy(w) => turn'.root = turn.root
      BY <1>0 DEF ClaimedBy, Turn
    <2>2. turn'.root = turn.root /\ UNCHANGED run
      BY <1>4, <2>1 DEF ClaimTurn, ClaimPaused
    <2>3. turn.status = "running" => turn' = turn
      BY <1>4 DEF ClaimTurn, ClaimPaused, CanClaimTurn, CanClaimPaused
    <2> QED
      BY <2>2, <2>3, RootsKept
  <1>5. ASSUME NEW w \in Worker, BeginRun(w) PROVE Roots'
    BY <1>1, <1>5, RootsBegun DEF BeginRun, CanBegin, HoldsClaim
  <1>6. ASSUME NEW w \in Worker, ContinueRun(w) PROVE Roots'
    <2>1. CASE CanContinue(w)
      <3>1. worker[w].command \in Command
        BY <1>6, WorkerRows DEF ContinueRun, First
      <3>2. resume[worker[w].command].source \in Run
        BY <2>1, <3>1 DEF CanContinue, Reserved
      <3>3. PICK r \in Run : Begun(w, r, resume[worker[w].command].source)
        BY <1>6, <2>1 DEF ContinueRun
      <3>4. turn.status = "planning" /\ turn.root = resume[worker[w].command].source
        BY <2>1 DEF CanContinue, HoldsClaim
      <3> QED
        BY <3>2, <3>3, <3>4, RootsBegun
    <2>2. CASE ~CanContinue(w)
      BY <1>1, <1>6, <2>2 DEF ContinueRun
    <2> QED
      BY <2>1, <2>2
  <1>7. ASSUME NEW w \in Worker, StartFailed(w) \/ Unclaim(w) PROVE Roots'
    <2>1. run' = run
      BY <1>7 DEF StartFailed, Unclaim
    <2>2. CASE turn' = turn
      BY <1>1, <2>1, <2>2
    <2>3. CASE turn' # turn
      <3>1. turn.status # "running" /\ (turn' = TurnIs("failed") \/ turn' = TurnIs("paused"))
        <4>1. CASE StartFailed(w)
          BY <2>3, <4>1 DEF StartFailed, FailsTurn
        <4>2. CASE Unclaim(w)
          BY <2>3, <4>2 DEF Unclaim, GivesBack
        <4> QED
          BY <1>7, <4>1, <4>2
      <3> QED
        BY <2>1, <3>1, RootsKept, TurnIsRoot
    <2> QED
      BY <2>2, <2>3
  <1>8. ASSUME NEW p \in Process, RecoverStale(p) PROVE Roots'
    <2>1. /\ UNCHANGED run
          /\ \/ turn' = turn
             \/ turn.status # "running" /\ \E s \in {"canceled", "paused", "queued"} : turn' = TurnIs(s)
      BY <1>8 DEF RecoverStale, IsLapsed
    <2> QED
      BY <2>1, RootsKept, TurnIsRoot
  <1>9. ASSUME NEW r \in Run, EndRun(r) \/ EndOrphan(r) PROVE Roots'
    <2>1. PICK status, s : status \in {"done", "failed", "canceled"} /\ Commits(r, status, s)
      BY <1>9 DEF EndRun, EndOrphan
    <2> QED
      BY <2>1, RootsEnded
  <1>10. ASSUME NEW r \in Run, FenceRun(r) \/ LapseRun(r) PROVE Roots'
    <2>1. \A s \in Run : run'[s].status = run[s].status /\ run'[s].source = run[s].source
      BY <1>10 DEF FenceRun, LapseRun, TypeOK, RunRow
    <2>2. turn'.root = turn.root /\ turn'.status = turn.status
      BY <1>0, <1>10 DEF FenceRun, LapseRun, Turn
    <2> QED
      BY <2>1, <2>2, RootsKept
  <1>11. ASSUME NEW c \in Cancel, RequestCancel(c) PROVE Roots'
    <2>1. /\ UNCHANGED run
          /\ \/ turn' = turn \/ turn' = [turn EXCEPT !.fence = TRUE]
             \/ turn.status # "running" /\ turn' = [TurnIs("canceled") EXCEPT !.fence = TRUE]
      BY <1>11 DEF RequestCancel, CancelsProduct
    <2>2. turn'.root = turn.root /\ (turn.status = "running" => turn'.status = "running")
      BY <1>0, <2>1 DEF TurnIs, Turn
    <2> QED
      BY <2>1, <2>2, RootsKept
  <1>12. ASSUME NEW p \in Process,
                \/ Crash(p) \/ Checkpoint(p) \/ SelectStale(p) \/ PauseStale(p)
                \/ \E w \in Worker : DispatchTurn(p, w) \/ \E k \in Command : DispatchResume(p, w, k)
         PROVE  UNCHANGED <<turn, run>>
    BY <1>12 DEF Crash, Checkpoint, SelectStale, PauseStale, DispatchTurn, DispatchResume, rows
  <1>13. ASSUME NEW w \in Worker,
                \/ ReserveAgain(w) \/ ValidateResume(w) \/ ResumeTask(w) \/ ReadClaim(w)
                \/ PauseAgain(w) \/ Release(w) \/ DispatchFails(w)
         PROVE  UNCHANGED <<turn, run>>
    BY <1>13 DEF ReserveAgain, ValidateResume, ResumeTask, ReadClaim, PauseAgain, Release,
                 DispatchFails, rows
  <1>14. ASSUME NEW r \in Run, CreateTask(r) \/ StopTask(r) \/ PauseOrphan(r) PROVE UNCHANGED <<turn, run>>
    BY <1>14 DEF CreateTask, StopTask, PauseOrphan
  <1>15. ASSUME NEW k \in Command, LapseReservation(k) PROVE UNCHANGED <<turn, run>>
    BY <1>15 DEF LapseReservation
  <1>16. CASE UNCHANGED vars
    BY <1>1, <1>16 DEF vars, rows
  <1> QED
    BY <1>1, <1>2, <1>3, <1>4, <1>5, <1>6, <1>7, <1>8, <1>9, <1>10, <1>11, <1>12, <1>13, <1>14,
       <1>15, <1>16 DEF Next

\* A step that takes up no resume request.
LEMMA ReservedKept ==
    ASSUME Reserved, \A k \in Command : /\ resume'[k].source = resume[k].source
                                        /\ resume[k].status = "none" => resume'[k].status = "none"
    PROVE  Reserved'
  BY DEF Reserved

\* Every step leaves a resume request with the Run it continues.
LEMMA ReservedStep == TypeOK /\ WorkersReady /\ Reserved /\ [Next]_vars => Reserved'
  <1> SUFFICES ASSUME TypeOK, WorkersReady, Reserved, [Next]_vars PROVE Reserved'
    OBVIOUS
  <1>0. resume \in [Command -> Reservation] /\ turn.root \in Run \union {NULL}
    BY DEF TypeOK, Turn
  <1>1. CASE UNCHANGED resume
    BY <1>1 DEF Reserved
  <1>2. ASSUME NEW k \in Command, NEW p \in Process, Reserve(k, p) PROVE Reserved'
    <2>1. resume'[k].source \in Run
      <3>1. CASE resume' = [resume EXCEPT ![k] =
                    [NoReservation EXCEPT !.status = "starting", !.owner = p, !.lease = "live",
                        !.epoch = 1, !.source = turn.root, !.revision = operation.revision]]
                 /\ InScope(operation.revision, turn.root)
        BY <1>0, <3>1 DEF InScope, NoReservation
      <3>2. CASE /\ CanTakeOver(k)
                 /\ resume' = [resume EXCEPT ![k].status = "starting", ![k].owner = p,
                                             ![k].lease = "live", ![k].epoch = @ + 1]
        BY <1>0, <3>2 DEF CanTakeOver, Reserved, Reservation
      <3> QED
        BY <1>2, <3>1, <3>2 DEF Reserve
    <2>2. \A j \in Command \ {k} : resume'[j] = resume[j]
      BY <1>0, <1>2 DEF Reserve
    <2> QED
      BY <2>1, <2>2 DEF Reserved
  <1>3. ASSUME NEW k \in Command, NEW s, NEW o, NEW l,
               resume' = [resume EXCEPT ![k].status = s, ![k].owner = o, ![k].lease = l],
               resume[k].status # "none"
        PROVE  Reserved'
    <2>1. \A j \in Command : resume'[j].source = resume[j].source
      BY <1>0, <1>3 DEF Reservation
    <2>2. \A j \in Command : resume[j].status = "none" => resume'[j].status = "none"
      BY <1>0, <1>3
    <2> QED
      BY <2>1, <2>2, ReservedKept
  <1>4. ASSUME NEW r \in Run, EndRun(r) \/ EndOrphan(r) PROVE Reserved'
    <2>1. PICK status, t : status \in {"done", "failed", "canceled"} /\ Commits(r, status, t)
      BY <1>4 DEF EndRun, EndOrphan
    <2>2. CASE run[r].command = NULL
      BY <1>1, <2>1, <2>2 DEF Commits
    <2>3. CASE run[r].command # NULL
      <3> DEFINE k == run[r].command
                 o == IF status = "done" THEN "succeeded" ELSE Outcome(status, t)
      <3>1. k \in Command
        BY <2>3 DEF TypeOK, RunRow
      <3>2. resume[k].status = "bound" /\ resume' = [resume EXCEPT ![k].status = o, ![k].owner = NULL]
        BY <2>1, <2>3 DEF Commits
      <3> HIDE DEF k, o
      <3>3. \A j \in Command : /\ resume'[j].source = resume[j].source
                               /\ resume[j].status = "none" => resume'[j].status = "none"
        BY <1>0, <3>1, <3>2 DEF Reservation
      <3> QED
        BY <3>3, ReservedKept
    <2> QED
      BY <2>2, <2>3
  <1>5. ASSUME NEW w \in Worker, NEW p \in Process, NEW k \in Command, DispatchResume(p, w, k)
        PROVE  Reserved'
    BY <1>2, <1>5 DEF DispatchResume
  <1>6. ASSUME NEW w \in Worker, ReserveAgain(w) PROVE Reserved'
    <2>1. worker[w].command \in Command /\ worker[w].process \in Process
      BY <1>6 DEF ReserveAgain, WorkersReady, Resuming
    <2> QED
      BY <1>1, <1>2, <1>6, <2>1 DEF ReserveAgain
  <1>7. ASSUME NEW w \in Worker, ContinueRun(w) PROVE Reserved'
    <2>1. worker[w].command \in Command
      BY <1>7, WorkerRows DEF ContinueRun, First
    <2>2. CASE CanContinue(w)
      <3> DEFINE k == worker[w].command
      <3>1. PICK r \in Run : Bind(k, r)
        BY <1>7, <2>2 DEF ContinueRun
      <3>2. resume[k].status = "starting"
        BY <2>2 DEF CanContinue
      <3>3. \A j \in Command : /\ resume'[j].source = resume[j].source
                               /\ resume[j].status = "none" => resume'[j].status = "none"
        BY <1>0, <2>1, <3>1, <3>2 DEF Reservation, Bind
      <3> QED
        BY <3>3, ReservedKept
    <2>3. CASE ~CanContinue(w)
      BY <1>1, <1>7, <2>3 DEF ContinueRun
    <2> QED
      BY <2>2, <2>3
  <1>8. ASSUME NEW w \in Worker, Release(w) PROVE Reserved'
    <2>1. worker[w].command \in Command
      BY <1>8 DEF Release, WorkersReady, Resuming
    <2>2. \A j \in Command : /\ resume'[j].source = resume[j].source
                             /\ resume[j].status = "none" => resume'[j].status = "none"
      BY <1>0, <1>8, <2>1 DEF Release, Reservation
    <2> QED
      BY <2>2, ReservedKept
  <1>9. ASSUME LapseTurn \/ \E k \in Command : LapseReservation(k) PROVE Reserved'
    <2>1. \A j \in Command : /\ resume'[j].source = resume[j].source
                             /\ resume[j].status = "none" => resume'[j].status = "none"
      <3>1. CASE LapseTurn
        BY <1>0, <3>1 DEF LapseTurn, Reservation
      <3>2. CASE \E k \in Command : LapseReservation(k)
        BY <1>0, <3>2 DEF LapseReservation, Reservation
      <3> QED
        BY <1>9, <3>1, <3>2
    <2> QED
      BY <2>1, ReservedKept
  <1>10. ASSUME Admit \/ \E w \in Worker : \/ ClaimTurn(w) \/ BeginRun(w) \/ StartFailed(w)
                                          \/ ValidateResume(w) \/ ClaimPaused(w) \/ ResumeTask(w)
                                          \/ ReadClaim(w) \/ PauseAgain(w) \/ Unclaim(w)
                                          \/ DispatchFails(w)
         PROVE  UNCHANGED resume
    BY <1>10 DEF Admit, ClaimTurn, BeginRun, StartFailed, ValidateResume, ClaimPaused, ResumeTask,
                 ReadClaim, PauseAgain, Unclaim, DispatchFails, rows
  <1>11. ASSUME NEW p \in Process,
                \/ Crash(p) \/ Checkpoint(p) \/ SelectStale(p) \/ PauseStale(p) \/ RecoverStale(p)
                \/ \E w \in Worker : DispatchTurn(p, w)
         PROVE  UNCHANGED resume
    BY <1>11 DEF Crash, Checkpoint, SelectStale, PauseStale, RecoverStale, DispatchTurn, rows
  <1>12. ASSUME NEW r \in Run, CreateTask(r) \/ StopTask(r) \/ PauseOrphan(r) \/ FenceRun(r) \/ LapseRun(r)
         PROVE  UNCHANGED resume
    BY <1>12 DEF CreateTask, StopTask, PauseOrphan, FenceRun, LapseRun
  <1>13. ASSUME NEW c \in Cancel, RequestCancel(c) PROVE UNCHANGED resume
    BY <1>13 DEF RequestCancel
  <1>14. CASE UNCHANGED vars
    BY <1>1, <1>14 DEF vars, rows
  <1> QED
    BY <1>1, <1>4, <1>5, <1>6, <1>7, <1>8, <1>9, <1>10, <1>11, <1>12, <1>13, <1>14 DEF Next

\* The rows that say which Run continues which.
Lineage == TypeOK /\ WorkersReady /\ Roots /\ Reserved

\* They are right in every reachable state.
LEMMA LineageHolds == Spec => []Lineage
  <1>1. Init => Lineage
    <2> SUFFICES ASSUME Init PROVE Lineage
      OBVIOUS
    <2>1. TypeOK /\ WorkersReady
      BY DEF Init, TypeOK, WorkersReady, Turn, Operation, Task, RunRow, Reservation, Dispatch,
             Backend, NoRun, NoReservation, Idle, Lease, OperationStatus, Open, Settled, Point,
             Resuming
    <2>2. Roots
      BY DEF Init, Roots, OneLiveRoot, ContinuedOnce, Chain, NoRun
    <2>3. Reserved
      BY DEF Init, Reserved, NoReservation
    <2> QED
      BY <2>1, <2>2, <2>3 DEF Lineage
  <1>2. Lineage /\ [Next]_vars => Lineage'
    BY TypeStep, RootsStep, ReservedStep DEF Lineage
  <1> QED
    BY <1>1, <1>2, PTL DEF Spec

\* However often the Turn is dispatched, recovered and resumed, one Root executes
\* at most, and it is the one the running Turn names.
THEOREM OneRootExecutes == Spec => []OneLiveRoot
  <1>1. Lineage => OneLiveRoot
    BY DEF Lineage, Roots
  <1> QED
    BY <1>1, LineageHolds, PTL

\* The Turn is begun by one Run, and each Run is continued by one at most.
THEOREM RootsFormAChain == Spec => []ContinuedOnce
  <1>1. Lineage => ContinuedOnce
    BY DEF Lineage, Roots
  <1> QED
    BY <1>1, LineageHolds, PTL

-----------------------------------------------------------------------------
\* An ended Turn, and a claim that is held.

\* The Turn under another status, and the Operation under another status.
LEMMA StatusRead ==
    ASSUME TypeOK, NEW s
    PROVE  /\ TurnIs(s).status = s /\ [turn EXCEPT !.status = s].status = s
           /\ OperationIs(s).status = s
           /\ OperationFenced.status = operation.status
           /\ [turn EXCEPT !.fence = TRUE].status = turn.status
  <1>1. turn \in Turn /\ operation \in Operation
    BY DEF TypeOK
  <1> QED
    BY <1>1 DEF TurnIs, OperationIs, OperationFenced, Turn, Operation

\* Nothing changes an ended Turn's status, nor its Operation's.
LEMMA SettledStep ==
    ASSUME TypeOK, WorkersReady, turn.status \in Settled, [Next]_vars
    PROVE  turn'.status = turn.status /\ operation'.status = operation.status
  <1> DEFINE Same == turn'.status = turn.status /\ operation'.status = operation.status
  <1>0. /\ turn \in Turn /\ turn.status \notin {"none", "queued", "planning", "running", "paused"}
        /\ turn.status # "none" /\ turn.status # "queued" /\ turn.status # "planning"
        /\ turn.status # "running" /\ turn.status # "paused"
    BY DEF TypeOK, Settled
  <1>1. CASE turn' = turn /\ operation' = operation
    BY <1>1
  <1>2. CASE Admit
    BY <1>0, <1>2 DEF Admit
  <1>3. CASE LapseTurn
    BY <1>0, <1>3 DEF LapseTurn, Turn
  <1>4. ASSUME NEW w \in Worker, ClaimTurn(w) \/ ClaimPaused(w) PROVE Same
    BY <1>0, <1>1, <1>4 DEF ClaimTurn, ClaimPaused, CanClaimTurn, CanClaimPaused
  <1>5. ASSUME NEW w \in Worker, BeginRun(w) \/ ContinueRun(w) PROVE Same
    BY <1>0, <1>1, <1>5 DEF BeginRun, ContinueRun, CanBegin, CanContinue, HoldsClaim
  <1>6. ASSUME NEW w \in Worker, StartFailed(w) PROVE Same
    BY <1>0, <1>1, <1>6 DEF StartFailed, FailsTurn
  <1>7. ASSUME NEW w \in Worker, Unclaim(w) PROVE Same
    BY <1>0, <1>1, <1>7 DEF Unclaim, GivesBack
  <1>8. ASSUME NEW p \in Process, RecoverStale(p) PROVE Same
    BY <1>0, <1>1, <1>8 DEF RecoverStale, IsLapsed
  <1>9. ASSUME NEW r \in Run, EndRun(r) \/ EndOrphan(r) PROVE Same
    BY <1>0, <1>9 DEF EndRun, EndOrphan, Commits
  <1>10. ASSUME NEW r \in Run, FenceRun(r) PROVE Same
    BY <1>10, StatusRead DEF FenceRun
  <1>11. ASSUME NEW c \in Cancel, RequestCancel(c) PROVE Same
    BY <1>0, <1>1, <1>11 DEF RequestCancel
  <1>12. ASSUME NEW p \in Process,
                \/ Crash(p) \/ Checkpoint(p) \/ SelectStale(p) \/ PauseStale(p)
                \/ \E w \in Worker : DispatchTurn(p, w) \/ \E k \in Command : DispatchResume(p, w, k)
         PROVE  turn' = turn /\ operation' = operation
    BY <1>12 DEF Crash, Checkpoint, SelectStale, PauseStale, DispatchTurn, DispatchResume, rows
  <1>13. ASSUME NEW w \in Worker,
                \/ ReserveAgain(w) \/ ValidateResume(w) \/ ResumeTask(w) \/ ReadClaim(w)
                \/ PauseAgain(w) \/ Release(w) \/ DispatchFails(w)
         PROVE  turn' = turn /\ operation' = operation
    BY <1>13 DEF ReserveAgain, ValidateResume, ResumeTask, ReadClaim, PauseAgain, Release,
                 DispatchFails, rows
  <1>14. ASSUME NEW r \in Run, CreateTask(r) \/ StopTask(r) \/ PauseOrphan(r) \/ LapseRun(r)
         PROVE  turn' = turn /\ operation' = operation
    BY <1>14 DEF CreateTask, StopTask, PauseOrphan, LapseRun
  <1>15. ASSUME NEW k \in Command, LapseReservation(k) PROVE turn' = turn /\ operation' = operation
    BY <1>15 DEF LapseReservation
  <1>16. CASE UNCHANGED vars
    BY <1>1, <1>16 DEF vars, rows
  <1> QED
    BY <1>1, <1>2, <1>3, <1>4, <1>5, <1>6, <1>7, <1>8, <1>9, <1>10, <1>11, <1>12, <1>13, <1>14,
       <1>15, <1>16 DEF Next

\* A completed, failed or canceled Turn stays so, and so does its Operation.
THEOREM EndedTurnStays == Spec => SettledStays
  <1>1. TypeOK /\ WorkersReady /\ [Next]_vars =>
            [turn.status \in Settled =>
                turn'.status = turn.status /\ operation'.status = operation.status]_vars
    BY SettledStep
  <1>2. Lineage => TypeOK /\ WorkersReady
    BY DEF Lineage
  <1> QED
    BY <1>1, <1>2, LineageHolds, PTL DEF Spec, SettledStays

\* A step of one background task moves that one only.
LEMMA OthersStand ==
    ASSUME TypeOK, NEW w \in Worker, NEW v \in Worker, v # w,
           Ends(w) \/ \E a \in Point : Goes(w, a)
    PROVE  worker'[v] = worker[v]
  BY DEF Ends, Goes, TypeOK

\* Who moves while a first dispatch holds the claim changes nothing of the Turn.
LEMMA ClaimKept ==
    ASSUME TypeOK, WorkersReady, [Next]_vars, NEW v \in Worker, NEW w \in Worker, v # w,
           worker'[v] # worker[v], turn.status = "planning", turn.owner = w
    PROVE  turn' = turn
  <1>1. ASSUME NEW x \in Worker, Ends(x) \/ \E a \in Point : Goes(x, a) PROVE x = v
    BY <1>1, OthersStand
  <1>2. CASE turn' = turn
    BY <1>2
  <1>3. CASE worker' = worker
    BY <1>3
  <1>4. ASSUME NEW x \in Worker, ClaimTurn(x) \/ ClaimPaused(x) PROVE turn' = turn
    BY <1>4 DEF ClaimTurn, ClaimPaused, CanClaimTurn, CanClaimPaused
  <1>5. ASSUME NEW x \in Worker, First(x), x = v PROVE Claimant(x) # w
    BY <1>5 DEF Claimant
  <1>6. ASSUME NEW x \in Worker, ~First(x), worker[x].at # "idle" PROVE Claimant(x) # w
    BY <1>6, IdAssumption DEF Claimant, WorkersReady
  <1>7. ASSUME NEW x \in Worker, BeginRun(x) PROVE turn' = turn
    <2>1. CASE CanBegin(x)
      <3>1. x = v
        BY <1>1, <1>7, <2>1 DEF BeginRun
      <3>2. First(x)
        BY <1>7 DEF BeginRun
      <3>3. turn.owner = Claimant(x)
        BY <2>1 DEF CanBegin, HoldsClaim
      <3> QED
        BY <1>5, <3>1, <3>2, <3>3
    <2>2. CASE ~CanBegin(x)
      BY <1>7, <2>2 DEF BeginRun
    <2> QED
      BY <2>1, <2>2
  <1>8. ASSUME NEW x \in Worker, StartFailed(x) PROVE turn' = turn
    <2>1. x = v
      BY <1>1, <1>8 DEF StartFailed
    <2>2. ~FailsTurn(x)
      BY <2>1 DEF FailsTurn
    <2> QED
      BY <1>8, <2>2 DEF StartFailed
  <1>9. ASSUME NEW x \in Worker, ContinueRun(x) PROVE turn' = turn
    <2>1. ~First(x) /\ worker[x].at # "idle"
      BY <1>9 DEF ContinueRun
    <2>2. ~CanContinue(x)
      BY <1>6, <2>1 DEF CanContinue, HoldsClaim
    <2> QED
      BY <1>9, <2>2 DEF ContinueRun
  <1>10. ASSUME NEW x \in Worker, Unclaim(x) PROVE turn' = turn
    <2>1. ~First(x) /\ worker[x].at # "idle"
      BY <1>10, IdAssumption DEF Unclaim, WorkersReady, Resuming, First
    <2>2. ~GivesBack(x)
      BY <1>6, <2>1 DEF GivesBack
    <2> QED
      BY <1>10, <2>2 DEF Unclaim
  <1>11. ASSUME NEW p \in Process,
                \/ Crash(p) \/ Checkpoint(p) \/ SelectStale(p) \/ PauseStale(p) \/ RecoverStale(p)
                \/ \E x \in Worker : DispatchTurn(p, x) \/ \E k \in Command : DispatchResume(p, x, k)
         PROVE  turn' = turn \/ worker' = worker
    BY <1>11 DEF Crash, Checkpoint, SelectStale, PauseStale, RecoverStale, DispatchTurn,
                 DispatchResume, rows
  <1>12. ASSUME NEW x \in Worker,
                \/ ReserveAgain(x) \/ ValidateResume(x) \/ ResumeTask(x) \/ ReadClaim(x)
                \/ PauseAgain(x) \/ Release(x) \/ DispatchFails(x)
         PROVE  turn' = turn
    BY <1>12 DEF ReserveAgain, ValidateResume, ResumeTask, ReadClaim, PauseAgain, Release,
                 DispatchFails, rows
  <1>13. ASSUME NEW r \in Run,
                \/ CreateTask(r) \/ StopTask(r) \/ EndRun(r) \/ PauseOrphan(r) \/ EndOrphan(r)
                \/ FenceRun(r) \/ LapseRun(r)
         PROVE  worker' = worker
    BY <1>13 DEF CreateTask, StopTask, EndRun, PauseOrphan, EndOrphan, FenceRun, LapseRun
  <1>14. ASSUME Admit \/ LapseTurn \/ (\E k \in Command : LapseReservation(k))
                \/ (\E c \in Cancel : RequestCancel(c))
         PROVE  worker' = worker
    BY <1>14 DEF Admit, LapseTurn, LapseReservation, RequestCancel
  <1>15. CASE UNCHANGED vars
    BY <1>2, <1>15 DEF vars, rows
  <1> QED
    BY <1>2, <1>3, <1>4, <1>7, <1>8, <1>9, <1>10, <1>11, <1>12, <1>13, <1>14, <1>15 DEF Next

\* Another dispatch of the Turn never takes the claim from the one that won it.
THEOREM OthersLeaveTheClaim == Spec => WinnerKeepsClaim
  <1>1. TypeOK /\ WorkersReady /\ [Next]_vars =>
            [\A v, w \in Worker :
                /\ v # w /\ worker'[v] # worker[v]
                /\ turn.status = "planning" /\ turn.owner = w /\ worker[w] = worker'[w]
                /\ worker[w].at = "begin" /\ worker[w].attempt = turn.attempt
                => turn' = turn]_vars
    BY ClaimKept
  <1>2. Lineage => TypeOK /\ WorkersReady
    BY DEF Lineage
  <1> QED
    BY <1>1, <1>2, LineageHolds, PTL DEF Spec, WinnerKeepsClaim

-----------------------------------------------------------------------------
\* Turn and Operation agree, however many backends recover stale admissions.

\* What else the statuses of Turn and Operation say of a claim.
Phases ==
    /\ OperationFollowsTurn
    /\ turn.status \in {"none", "queued"} => turn.root = NULL
    /\ turn.status = "planning" /\ operation.status = "queued" =>
          turn.root = NULL /\ ~turn.fence /\ turn.owner \in Worker
    /\ turn.status = "planning" /\ operation.status = "paused" => turn.owner \in Process

Starting(p) == backend[p].at \in {"pause", "update"}

\* A stale admission that was selected has still the Operation its backend saw,
\* or it has ended, or the Turn has been claimed anew.
SeenBy(p) ==
    Starting(p) =>
        /\ backend[p].seen \in {"queued", "paused"}
        /\ backend[p].claim <= turn.attempt
        /\ turn.status = "planning" /\ turn.attempt = backend[p].claim
              => operation.status = backend[p].seen

Seen == \A p \in Process : SeenBy(p)

\* The fields of rows that are written whole.
LEMMA RowRead ==
    ASSUME TypeOK, NEW s, NEW o, NEW n
    PROVE  /\ TurnIs(s).status = s /\ TurnIs(s).root = turn.root /\ TurnIs(s).lease = "none"
           /\ TurnIs(s).fence = turn.fence /\ TurnIs(s).owner = NULL
           /\ TurnIs(s).attempt = turn.attempt
           /\ [TurnIs(s) EXCEPT !.fence = TRUE].attempt = turn.attempt
           /\ \A r \in Run : [TurnIs(s) EXCEPT !.root = r].attempt = turn.attempt
           /\ [TurnIs(s) EXCEPT !.fence = TRUE].status = s
           /\ [TurnIs(s) EXCEPT !.fence = TRUE].fence
           /\ LET t == [turn EXCEPT !.status = "planning", !.owner = o, !.lease = "live",
                                    !.attempt = n]
              IN  /\ t.status = "planning" /\ t.owner = o /\ t.root = turn.root
                  /\ t.fence = turn.fence /\ t.attempt = n
           /\ OperationIs(s).status = s
           /\ OperationFenced.status = operation.status
           /\ [OperationFenced EXCEPT !.status = "canceled", !.revision = @ + 1].status = "canceled"
           /\ [operation EXCEPT !.status = s].status = s
           /\ [turn EXCEPT !.status = s].status = s /\ [turn EXCEPT !.status = s].fence = turn.fence
           /\ [turn EXCEPT !.status = s].attempt = turn.attempt
           /\ LET t == [turn EXCEPT !.fence = TRUE]
              IN  /\ t.status = turn.status /\ t.root = turn.root /\ t.owner = turn.owner
                  /\ t.attempt = turn.attempt
           /\ LET t == [turn EXCEPT !.lease = "lapsed"]
              IN  /\ t.status = turn.status /\ t.root = turn.root /\ t.owner = turn.owner
                  /\ t.fence = turn.fence /\ t.attempt = turn.attempt
  <1>1. turn \in Turn /\ operation \in Operation
    BY DEF TypeOK
  <1>2. TurnIs(s) \in [status : {s}, root : Run \union {NULL}, attempt : Nat, owner : {NULL},
                       lease : {"none"}, fence : BOOLEAN]
        /\ TurnIs(s).root = turn.root /\ TurnIs(s).fence = turn.fence
        /\ TurnIs(s).attempt = turn.attempt
    BY <1>1 DEF TurnIs, Turn
  <1>3. OperationFenced.status = operation.status /\ OperationFenced \in Operation
    BY <1>1, OperationRows DEF OperationFenced, Operation
  <1> QED
    BY <1>1, <1>2, <1>3 DEF Turn, Operation, OperationIs

\* A step that leaves the statuses, the root, the fence and the claim.
LEMMA PhasesKept ==
    ASSUME Phases, operation'.status = operation.status,
           turn'.status = turn.status, turn'.root = turn.root, turn'.fence = turn.fence,
           turn'.owner = turn.owner
    PROVE  Phases'
  BY DEF Phases, OperationFollowsTurn, Agreed

\* A step in which no backend that recovers moves: it ends the claim, or leaves
\* it and the status of the Operation.
LEMMA SeenKept ==
    ASSUME Seen, backend' = backend, turn'.attempt = turn.attempt,
           turn'.status = "planning" =>
               turn.status = "planning" /\ operation'.status = operation.status
    PROVE  Seen'
  BY DEF Seen, SeenBy, Starting

\* The pairs of statuses, read from either side.
LEMMA PairsRead ==
    ASSUME Phases
    PROVE  /\ turn.status = "none" => operation.status = "none"
           /\ turn.status = "queued" => operation.status = "queued"
           /\ turn.status = "planning" => operation.status \in {"queued", "paused"}
           /\ turn.status = "running" => operation.status = "running"
           /\ turn.status = "paused" => operation.status = "paused"
  BY DEF Phases, OperationFollowsTurn, Agreed

\* A step after which neither row is open to a claim.
LEMMA PairsWritten ==
    ASSUME \/ turn'.status = "running" /\ operation'.status = "running"
           \/ turn'.status = "paused" /\ operation'.status = "paused"
           \/ turn'.status = "completed" /\ operation'.status = "succeeded"
           \/ turn'.status = "failed" /\ operation'.status = "failed"
           \/ turn'.status = "canceled" /\ operation'.status = "canceled"
           \/ turn'.status = "canceled" /\ turn'.fence /\ operation'.status = "paused"
    PROVE  Phases'
  BY DEF Phases, OperationFollowsTurn, Agreed

-----------------------------------------------------------------------------
\* The actions that write the Turn or the Operation

\* Admission.
LEMMA AdmitPhases ==
    ASSUME TypeOK, Phases, Seen, Admit
    PROVE  Phases' /\ Seen'
  <1>1. /\ turn'.status = "queued" /\ operation'.status = "queued" /\ turn'.root = turn.root
        /\ backend' = backend /\ turn'.attempt = turn.attempt
    BY RowRead DEF Admit
  <1>2. turn.status = "none" /\ turn.root = NULL /\ operation.status = "none"
    BY PairsRead DEF Admit, Phases
  <1>3. Phases'
    BY <1>1, <1>2 DEF Phases, OperationFollowsTurn, Agreed
  <1> QED
    BY <1>1, <1>3, SeenKept

\* Claims: a first dispatch that of a queued Turn, a resumed one that of a paused.
LEMMA ClaimPhases ==
    ASSUME TypeOK, WorkersReady, Phases, Seen, NEW w \in Worker, ClaimTurn(w) \/ ClaimPaused(w)
    PROVE  Phases' /\ Seen'
  <1>1. operation' = operation /\ backend' = backend
    BY DEF ClaimTurn, ClaimPaused
  <1>2. CASE turn' = turn
    BY <1>1, <1>2, PhasesKept, SeenKept
  <1>3. CASE turn' # turn
    <2>1. ClaimedBy(w) /\ turn.status \in {"queued", "paused"} /\ ~turn.fence
          /\ (turn.status = "queued" => First(w))
          /\ (turn.status = "paused" => ~First(w) /\ worker[w].at # "idle")
      BY <1>3 DEF ClaimTurn, ClaimPaused, CanClaimTurn, CanClaimPaused
    <2>2. /\ turn'.status = "planning" /\ turn'.owner = Claimant(w) /\ turn'.root = turn.root
          /\ turn'.fence = turn.fence /\ turn'.attempt = worker[w].attempt
      BY <2>1, RowRead DEF ClaimedBy
    <2>3. Phases'
      <3>1. CASE turn.status = "queued"
        <4>1. operation.status = "queued" /\ turn.root = NULL /\ Claimant(w) = w
          BY <2>1, <3>1, PairsRead DEF Phases, Claimant
        <4> QED
          BY <1>1, <2>1, <2>2, <4>1 DEF Phases, OperationFollowsTurn, Agreed
      <3>2. CASE turn.status = "paused"
        <4>1. operation.status = "paused" /\ Claimant(w) \in Process
          BY <2>1, <3>2, PairsRead DEF WorkersReady, Claimant
        <4> QED
          BY <1>1, <2>1, <2>2, <4>1 DEF Phases, OperationFollowsTurn, Agreed
      <3> QED
        BY <2>1, <3>1, <3>2
    <2>4. Seen'
      <3>1. turn'.attempt = turn.attempt + 1
        BY <1>3, <2>2 DEF ClaimTurn, ClaimPaused, CanClaimTurn, CanClaimPaused
      <3>2. turn.attempt \in Nat /\ \A p \in Process : backend[p].claim \in Nat
        BY DEF TypeOK, Turn, Backend
      <3> QED
        BY <1>1, <3>1, <3>2 DEF Seen, SeenBy, Starting
    <2> QED
      BY <2>3, <2>4
  <1> QED
    BY <1>2, <1>3

\* A Run that begins.
LEMMA BeginPhases ==
    ASSUME TypeOK, Phases, Seen, NEW w \in Worker, BeginRun(w) \/ ContinueRun(w)
    PROVE  Phases' /\ Seen'
  <1>1. backend' = backend
    BY DEF BeginRun, ContinueRun
  <1>2. CASE UNCHANGED <<turn, operation>>
    BY <1>1, <1>2, PhasesKept, SeenKept
  <1>3. CASE HoldsClaim(w) /\ \E r \in Run, x \in Run \union {NULL} : Begun(w, r, x)
    <2>1. PICK r \in Run, x \in Run \union {NULL} : Begun(w, r, x)
      BY <1>3
    <2>2. turn'.status = "running"
      BY <2>1, RowRead DEF Begun, TypeOK, Turn, TurnIs
    <2>3. operation'.status = "running"
      BY <2>1, RowRead DEF Begun
    <2>4. turn'.attempt = turn.attempt
      BY <2>1, RowRead DEF Begun
    <2> QED
      BY <1>1, <2>2, <2>3, <2>4, PairsWritten, SeenKept
  <1>4. CASE BeginRun(w)
    BY <1>2, <1>3, <1>4 DEF BeginRun, CanBegin
  <1>5. CASE ContinueRun(w)
    <2>1. CASE CanContinue(w)
      <3>1. HoldsClaim(w) /\ turn.root = resume[worker[w].command].source
        BY <2>1 DEF CanContinue
      <3>2. turn.root \in Run \union {NULL}
        BY DEF TypeOK, Turn
      <3> QED
        BY <1>3, <1>5, <2>1, <3>1, <3>2 DEF ContinueRun
    <2>2. CASE ~CanContinue(w)
      BY <1>2, <1>5, <2>2 DEF ContinueRun
    <2> QED
      BY <2>1, <2>2
  <1> QED
    BY <1>4, <1>5

\* A start that failed.
LEMMA StartFailedPhases ==
    ASSUME TypeOK, Phases, Seen, NEW w \in Worker, StartFailed(w)
    PROVE  Phases' /\ Seen'
  <1>1. backend' = backend
    BY DEF StartFailed
  <1>2. CASE ~FailsTurn(w)
    BY <1>1, <1>2, PhasesKept, SeenKept DEF StartFailed
  <1>3. CASE FailsTurn(w)
    <2>1. operation.status = "queued"
      BY <1>3, PairsRead, IdAssumption DEF FailsTurn, Phases
    <2>2. turn'.status = "failed" /\ operation'.status = "failed" /\ turn'.attempt = turn.attempt
      BY <1>3, <2>1, RowRead DEF StartFailed
    <2> QED
      BY <1>1, <2>2, PairsWritten, SeenKept
  <1> QED
    BY <1>2, <1>3

\* A claim that is given back.
LEMMA UnclaimPhases ==
    ASSUME TypeOK, WorkersReady, Phases, Seen, NEW w \in Worker, Unclaim(w)
    PROVE  Phases' /\ Seen'
  <1>1. backend' = backend /\ operation' = operation
    BY DEF Unclaim
  <1>2. CASE ~GivesBack(w)
    BY <1>1, <1>2, PhasesKept, SeenKept DEF Unclaim
  <1>3. CASE GivesBack(w)
    <2>1. turn.status = "planning" /\ turn.owner = Claimant(w)
      BY <1>3 DEF GivesBack
    <2>2. Claimant(w) \in Process
      BY IdAssumption DEF Unclaim, WorkersReady, Resuming, Claimant, First
    <2>3. operation.status = "paused"
      BY <2>1, <2>2, PairsRead, IdAssumption DEF Phases
    <2>4. turn'.status = "paused" /\ turn'.attempt = turn.attempt
      BY <1>3, RowRead DEF Unclaim
    <2> QED
      BY <1>1, <2>3, <2>4, PairsWritten, SeenKept
  <1> QED
    BY <1>2, <1>3

\* A Run that ends.
LEMMA EndPhases ==
    ASSUME TypeOK, Phases, Seen, NEW r \in Run, EndRun(r) \/ EndOrphan(r)
    PROVE  Phases' /\ Seen'
  <1>1. PICK status, t : status \in {"done", "failed", "canceled"} /\ Commits(r, status, t)
    BY DEF EndRun, EndOrphan
  <1>2. backend' = backend
    BY DEF EndRun, EndOrphan
  <1>3. turn'.attempt = turn.attempt
    <2>1. turn \in Turn
      BY DEF TypeOK
    <2> QED
      BY <1>1, <2>1 DEF Commits, Turn
  <1>4. CASE status = "done"
    <2>1. turn'.status = "completed" /\ operation'.status = "succeeded"
      BY <1>1, <1>4, RowRead DEF Commits
    <2> QED
      BY <1>2, <1>3, <2>1, PairsWritten, SeenKept
  <1>5. CASE status # "done"
    <2> DEFINE o == Outcome(status, t)
    <2>1. o \in {"paused", "canceled", "failed"}
      BY DEF Outcome
    <2>2. turn' = [turn EXCEPT !.status = o] /\ operation' = OperationIs(o)
      BY <1>1, <1>5 DEF Commits
    <2> HIDE DEF o
    <2>3. turn'.status = o /\ operation'.status = o
      BY <2>2, RowRead
    <2> QED
      BY <1>2, <1>3, <2>1, <2>3, PairsWritten, SeenKept
  <1> QED
    BY <1>4, <1>5

\* A cancel.
LEMMA CancelPhases ==
    ASSUME TypeOK, Phases, Seen, NEW c \in Cancel, RequestCancel(c)
    PROVE  Phases' /\ Seen'
  <1>1. backend' = backend
    BY DEF RequestCancel
  <1>2. CASE UNCHANGED <<turn, operation>>
    BY <1>1, <1>2, PhasesKept, SeenKept
  <1>3. CASE CancelsProduct
    <2>1. /\ turn'.status = "canceled" /\ operation'.status = "canceled"
          /\ turn'.attempt = turn.attempt
      BY <1>3, RowRead DEF CancelsProduct
    <2> QED
      BY <1>1, <2>1, PairsWritten, SeenKept
  <1>4. CASE /\ turn.status \in {"planning", "running"} /\ turn.root # NULL
             /\ turn' = [turn EXCEPT !.fence = TRUE] /\ operation' = OperationFenced
    <2>1. /\ turn'.status = turn.status /\ turn'.root = turn.root /\ turn'.owner = turn.owner
          /\ turn'.attempt = turn.attempt /\ operation'.status = operation.status
      BY <1>4, RowRead
    <2>2. Phases'
      BY <1>4, <2>1 DEF Phases, OperationFollowsTurn, Agreed
    <2>3. Seen'
      BY <1>1, <2>1, SeenKept
    <2> QED
      BY <2>2, <2>3
  <1> QED
    BY <1>2, <1>3, <1>4 DEF RequestCancel

\* A fence on the Run.
LEMMA FencePhases ==
    ASSUME TypeOK, Roots, Phases, Seen, NEW r \in Run, FenceRun(r)
    PROVE  Phases' /\ Seen'
  <1>1. turn.status = "running"
    BY DEF FenceRun, Roots, OneLiveRoot
  <1>2. /\ turn'.status = turn.status /\ turn'.attempt = turn.attempt
        /\ operation'.status = operation.status /\ backend' = backend
    BY RowRead DEF FenceRun
  <1>3. operation.status = "running"
    BY <1>1, PairsRead
  <1> QED
    BY <1>1, <1>2, <1>3, PairsWritten, SeenKept

\* The recovery of a stale admission, from the read on.
LEMMA SelectPhases ==
    ASSUME TypeOK, Phases, Seen, NEW p \in Process,
           Crash(p) \/ Checkpoint(p) \/ SelectStale(p) \/ PauseStale(p)
    PROVE  Phases' /\ Seen'
  <1>1. turn' = turn /\ operation' = operation
    BY DEF Crash, Checkpoint, SelectStale, PauseStale, rows
  <1>2. backend \in [Process -> Backend]
    BY DEF TypeOK
  <1>3. \A q \in Process \ {p} : backend'[q] = backend[q]
    BY <1>2 DEF Crash, Checkpoint, SelectStale, PauseStale
  <1>4. SeenBy(p)'
    <2>1. CASE Crash(p) \/ Checkpoint(p)
      <3>1. backend'[p].at \in {"dead", "select"}
        BY <1>2, <2>1 DEF Crash, Checkpoint, Backend
      <3> QED
        BY <3>1 DEF SeenBy, Starting
    <2>2. CASE SelectStale(p) /\ IsStale
      <3>1. backend'[p].seen = operation.status /\ backend'[p].claim = turn.attempt
        BY <1>2, <2>2 DEF SelectStale
      <3>2. operation.status \in {"queued", "paused"} /\ turn.attempt \in Nat
        BY <2>2, PairsRead DEF IsStale, TypeOK, Turn
      <3> QED
        BY <1>1, <3>1, <3>2 DEF SeenBy
    <2>3. CASE SelectStale(p) /\ ~IsStale
      <3>1. backend'[p].at = "up"
        BY <1>2, <2>3 DEF SelectStale
      <3> QED
        BY <3>1 DEF SeenBy, Starting
    <2>4. CASE PauseStale(p)
      <3>1. /\ backend'[p].seen = backend[p].seen /\ backend'[p].claim = backend[p].claim
            /\ Starting(p)
        BY <1>2, <2>4 DEF PauseStale, Backend, Starting
      <3> QED
        BY <1>1, <3>1 DEF Seen, SeenBy
    <2> QED
      BY <2>1, <2>2, <2>3, <2>4
  <1>5. \A q \in Process \ {p} : SeenBy(q)'
    BY <1>1, <1>3 DEF Seen, SeenBy, Starting
  <1>6. Phases'
    BY <1>1, PhasesKept
  <1> QED
    BY <1>4, <1>5, <1>6 DEF Seen

\* The update of a stale admission, which meets the claim that was selected or none.
LEMMA RecoverPhases ==
    ASSUME TypeOK, Phases, Seen, NEW p \in Process, RecoverStale(p)
    PROVE  Phases' /\ Seen'
  <1>1. operation' = operation /\ Starting(p)
    BY DEF RecoverStale, Starting
  <1>2. /\ backend \in [Process -> Backend]
        /\ backend' = [backend EXCEPT ![p] = [at |-> "up", seen |-> "none", claim |-> 0]]
    BY DEF TypeOK, RecoverStale
  <1>3. turn' = turn \/ (turn'.status # "planning" /\ turn'.attempt = turn.attempt)
    BY RowRead DEF RecoverStale
  <1>4. Seen'
    <2>1. ~Starting(p)'
      BY <1>2 DEF Starting
    <2>2. \A q \in Process \ {p} : backend'[q] = backend[q]
      BY <1>2
    <2> QED
      BY <1>1, <1>3, <2>1, <2>2 DEF Seen, SeenBy, Starting
  <1>5. Phases'
    <2>1. CASE ~IsLapsed(p)
      BY <1>1, <2>1, PhasesKept DEF RecoverStale
    <2>2. CASE IsLapsed(p) /\ turn.fence
      <3>1. operation.status = "paused"
        BY <2>2, PairsRead DEF IsLapsed, Phases
      <3>2. turn'.status = "canceled" /\ turn'.fence
        BY <2>2, RowRead DEF RecoverStale
      <3> QED
        BY <1>1, <3>1, <3>2, PairsWritten
    <2>3. CASE IsLapsed(p) /\ ~turn.fence /\ backend[p].seen = "paused"
      <3>1. operation.status = "paused"
        BY <1>1, <2>3 DEF IsLapsed, Seen, SeenBy
      <3>2. turn'.status = "paused"
        BY <2>3, RowRead DEF RecoverStale
      <3> QED
        BY <1>1, <3>1, <3>2, PairsWritten
    <2>4. CASE IsLapsed(p) /\ ~turn.fence /\ backend[p].seen # "paused"
      <3>1. operation.status = "queued"
        BY <1>1, <2>4 DEF IsLapsed, Seen, SeenBy
      <3>2. turn.root = NULL
        BY <2>4, <3>1 DEF IsLapsed, Phases
      <3>3. turn'.status = "queued" /\ turn'.root = NULL
        BY <2>4, <3>2, RowRead DEF RecoverStale
      <3> QED
        BY <1>1, <3>1, <3>3 DEF Phases, OperationFollowsTurn, Agreed
    <2> QED
      BY <2>1, <2>2, <2>3, <2>4
  <1> QED
    BY <1>4, <1>5

\* Every step keeps what the statuses say.
LEMMA PhasesStep == Lineage /\ Phases /\ Seen /\ [Next]_vars => Phases' /\ Seen'
  <1> SUFFICES ASSUME Lineage, Phases, Seen, [Next]_vars PROVE Phases' /\ Seen'
    OBVIOUS
  <1>0. TypeOK /\ WorkersReady /\ Roots
    BY DEF Lineage
  <1>1. CASE UNCHANGED <<turn, operation, backend>>
    BY <1>1, PhasesKept, SeenKept
  <1>2. CASE LapseTurn
    BY <1>0, <1>2, RowRead, PhasesKept, SeenKept DEF LapseTurn
  <1>3. ASSUME NEW p \in Process, NEW w \in Worker,
               DispatchTurn(p, w) \/ \E k \in Command : DispatchResume(p, w, k)
        PROVE  UNCHANGED <<turn, operation, backend>>
    BY <1>3 DEF DispatchTurn, DispatchResume, rows
  <1>4. ASSUME NEW w \in Worker,
               \/ ReserveAgain(w) \/ ValidateResume(w) \/ ResumeTask(w) \/ ReadClaim(w)
               \/ PauseAgain(w) \/ Release(w) \/ DispatchFails(w)
        PROVE  UNCHANGED <<turn, operation, backend>>
    BY <1>4 DEF ReserveAgain, ValidateResume, ResumeTask, ReadClaim, PauseAgain, Release,
                DispatchFails, rows
  <1>5. ASSUME NEW r \in Run, CreateTask(r) \/ StopTask(r) \/ PauseOrphan(r) \/ LapseRun(r)
        PROVE  UNCHANGED <<turn, operation, backend>>
    BY <1>5 DEF CreateTask, StopTask, PauseOrphan, LapseRun
  <1>6. ASSUME NEW k \in Command, LapseReservation(k) PROVE UNCHANGED <<turn, operation, backend>>
    BY <1>6 DEF LapseReservation
  <1>7. CASE UNCHANGED vars
    BY <1>1, <1>7 DEF vars, rows
  <1> QED
    BY <1>0, <1>1, <1>2, <1>3, <1>4, <1>5, <1>6, <1>7, AdmitPhases, ClaimPhases, BeginPhases,
       StartFailedPhases, UnclaimPhases, EndPhases, CancelPhases, FencePhases, SelectPhases,
       RecoverPhases DEF Next

\* Turn and Operation never contradict each other, for any number of backends
\* that claim, begin, cancel and recover at the same time.
THEOREM TurnAndOperationAgree == Spec => []OperationFollowsTurn
  <1>1. Init => Phases /\ Seen
    <2> SUFFICES ASSUME Init PROVE Phases /\ Seen
      OBVIOUS
    <2>1. Phases
      BY DEF Init, Phases, OperationFollowsTurn, Agreed
    <2>2. Seen
      BY DEF Init, Seen, SeenBy, Starting
    <2> QED
      BY <2>1, <2>2
  <1>2. Lineage /\ Phases /\ Seen /\ [Next]_vars => (Phases /\ Seen)'
    BY PhasesStep
  <1>3. Phases => OperationFollowsTurn
    BY DEF Phases
  <1> QED
    BY <1>1, <1>2, <1>3, LineageHolds, PTL DEF Spec
=============================================================================
