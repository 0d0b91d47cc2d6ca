------------------------- MODULE LongTaskWork_proofs -------------------------
(* Further proofs about LongTask: dependencies, completion, failure, budget,  *)
(* that the task implements the ledger of WorkLedger, and that somebody can   *)
(* always move it; and proofs about LongTaskRecovery, which drives it.        *)
EXTENDS LongTask_proofs, LongTaskRecovery

-----------------------------------------------------------------------------
\* The invariant

\* The counters agree with the rows.
Counted(t, rows) ==
    /\ t.total = Cardinality(RequiredUnits(rows))
    /\ t.done = Cardinality(RequiredUnits(rows) \intersect With(rows, {"completed"}))

\* A task that is not over has no failed required unit.
LiveTask == task.status \notin Terminal =>
    \A u \in Unit : unit[u].required => unit[u].status # "failed"

\* A failed task has no unit in anybody's hands.
FailedIdle == task.status = "failed" => With(unit, InFlight) = {}

\* A completed task owes nothing and was not asked to cancel.
Earned == ~task.cancelRequested /\ \A u \in RequiredUnits(unit) : unit[u].status = "completed"
CompletedEarned == task.status = "completed" => Earned

WorkInv == /\ LeaseInv
           /\ Counted(task, unit) /\ LiveTask /\ FailedIdle /\ CompletedEarned
           /\ DependenciesFirst /\ OverBudgetStopsWork

-----------------------------------------------------------------------------
\* What steps do to rows

\* No unit's dependencies change, nor whether it is required.
Edges(p, q) == \A u \in Unit : q[u].deps = p[u].deps /\ q[u].required = p[u].required

\* The same units are completed.
SameDone(p, q) == \A u \in Unit : q[u].status = "completed" <=> p[u].status = "completed"

\* No required unit fails.
NoFailure(p, q) ==
    \A u \in Unit : q[u].status = "failed" /\ p[u].required => p[u].status = "failed"

\* What a step must do for the task: the counters stay true, no required unit fails
\* but with the task, and the task ends only as FailedIdle and CompletedEarned say.
Ends ==
    /\ task'.status = "failed" => task.status = "failed" \/ With(unit, InFlight)' = {}
    /\ task'.status = "completed" =>
          \/ task.status = "completed" /\ task'.cancelRequested = task.cancelRequested
          \/ Earned'

Effect == Counted(task', unit') /\ LiveTask' /\ Ends

\* What the lemmas about single calls start from.
Before == TypeOK /\ Counted(task, unit) /\ LiveTask

\* Quiet rows and stuttering rows keep what is completed.
LEMMA QuietDone == ASSUME NEW p, NEW q, QuietRows(p, q) PROVE SameDone(p, q)
  BY Zenon DEF QuietRows, QuietRow, SameDone

\* The bulk update of statuses touches nothing but the rows it names.
LEMMA SettleFields ==
    ASSUME NEW rows \in [Unit -> UnitRow], NEW S, NEW status
    PROVE  /\ Edges(rows, Settle(rows, S, status))
           /\ \A u \in Unit : Settle(rows, S, status)[u].status =
                                 IF u \in S THEN status ELSE rows[u].status
  <1> SUFFICES ASSUME NEW u \in Unit
               PROVE  /\ Settle(rows, S, status)[u].deps = rows[u].deps
                      /\ Settle(rows, S, status)[u].required = rows[u].required
                      /\ Settle(rows, S, status)[u].status =
                            IF u \in S THEN status ELSE rows[u].status
    BY Zenon DEF Edges
  <1>1. rows[u] \in UnitRow
    OBVIOUS
  <1>2. CASE u \in S
    <2>1. Settle(rows, S, status)[u] =
             [rows[u] EXCEPT !.status = status, !.worker = NULL, !.lease = "none"]
      BY <1>2, Zenon DEF Settle
    <2> QED
      BY <1>1, <1>2, <2>1, Zenon DEF UnitRow
  <1>3. CASE u \notin S
    BY <1>3, Zenon DEF Settle
  <1> QED
    BY <1>2, <1>3

\* So does the bulk update back to pending.
LEMMA RequeueFields ==
    ASSUME NEW rows \in [Unit -> UnitRow], NEW S, NEW extra
    PROVE  /\ Edges(rows, Requeue(rows, S, extra))
           /\ \A u \in Unit : Requeue(rows, S, extra)[u].status =
                                 IF u \in S THEN "pending" ELSE rows[u].status
  <1> SUFFICES ASSUME NEW u \in Unit
               PROVE  /\ Requeue(rows, S, extra)[u].deps = rows[u].deps
                      /\ Requeue(rows, S, extra)[u].required = rows[u].required
                      /\ Requeue(rows, S, extra)[u].status =
                            IF u \in S THEN "pending" ELSE rows[u].status
    BY Zenon DEF Edges
  <1>1. rows[u] \in UnitRow
    OBVIOUS
  <1>2. CASE u \in S
    <2>1. Requeue(rows, S, extra)[u] =
             [rows[u] EXCEPT !.status = "pending", !.worker = NULL, !.lease = "none",
                             !.maxAttempts = @ + extra]
      BY <1>2, Zenon DEF Requeue
    <2> QED
      BY <1>1, <1>2, <2>1, Zenon DEF UnitRow
  <1>3. CASE u \notin S
    BY <1>3, Zenon DEF Requeue
  <1> QED
    BY <1>2, <1>3

\* The update of one row.
LEMMA OneRowFields ==
    ASSUME NEW rows \in [Unit -> UnitRow], NEW u \in Unit, NEW q,
           q.deps = rows[u].deps, q.required = rows[u].required
    PROVE  /\ Edges(rows, [rows EXCEPT ![u] = q])
           /\ \A v \in Unit : [rows EXCEPT ![u] = q][v] = IF v = u THEN q ELSE rows[v]
  <1>1. \A v \in Unit : [rows EXCEPT ![u] = q][v] = IF v = u THEN q ELSE rows[v]
    OBVIOUS
  <1> QED
    BY <1>1, Zenon DEF Edges

\* Two updates one after the other.
LEMMA EdgesCompose ==
    ASSUME NEW p, NEW q, NEW r, Edges(p, q), Edges(q, r)
    PROVE  Edges(p, r)
  BY Zenon DEF Edges

\* A refresh counts, and changes nothing else that the task is judged by.
LEMMA RefreshFields ==
    ASSUME NEW t \in TaskRow, NEW rows
    PROVE  /\ Counted(Refresh(t, rows), rows)
           /\ Refresh(t, rows).status = t.status
           /\ Refresh(t, rows).cancelRequested = t.cancelRequested
  BY Zenon DEF Refresh, Counted, TaskRow

\* So does writing the status.
LEMMA StatusFields ==
    ASSUME NEW t \in TaskRow, NEW status, NEW rows
    PROVE  /\ [t EXCEPT !.status = status].status = status
           /\ [t EXCEPT !.status = status].cancelRequested = t.cancelRequested
           /\ Counted(t, rows) => Counted([t EXCEPT !.status = status], rows)
  BY Zenon DEF Counted, TaskRow

\* The counters depend on the required and the completed units only.
LEMMA CountsKept ==
    ASSUME NEW t, NEW s, NEW p, NEW q, Counted(t, p), Edges(p, q), SameDone(p, q),
           s.total = t.total, s.done = t.done
    PROVE  Counted(s, q)
  <1>1. RequiredUnits(q) = RequiredUnits(p)
    BY DEF Edges, RequiredUnits
  <1>2. With(q, {"completed"}) = With(p, {"completed"})
    BY DEF SameDone, With
  <1> QED
    BY <1>1, <1>2 DEF Counted

\* A call that leaves the task row alone.
LEMMA StillEffect ==
    ASSUME Before, UNCHANGED task,
           Edges(unit, unit'), SameDone(unit, unit'), NoFailure(unit, unit')
    PROVE  Effect
  <1>1. Counted(task', unit')
    BY CountsKept DEF Before
  <1>2. LiveTask'
    BY Zenon DEF Before, LiveTask, Edges, NoFailure
  <1> QED
    BY <1>1, <1>2 DEF Effect, Ends

\* A call on a task that is not over, before and after.
LEMMA LiveEffect ==
    ASSUME Before, task.status \notin Terminal, task'.status \notin Terminal,
           task'.total = task.total, task'.done = task.done,
           Edges(unit, unit'), SameDone(unit, unit'), NoFailure(unit, unit')
    PROVE  Effect
  <1>1. Counted(task', unit')
    BY CountsKept DEF Before
  <1>2. LiveTask'
    BY Zenon DEF Before, LiveTask, Edges, NoFailure
  <1> QED
    BY <1>1, <1>2 DEF Effect, Ends, Terminal

\* A call that ends the task as canceled, or as failed with nothing in flight.
LEMMA CloseEffect ==
    ASSUME Counted(task', unit'), task'.status \in {"canceled", "failed"},
           task'.status = "failed" => With(unit, InFlight)' = {}
    PROVE  Effect
  BY DEF Effect, Ends, LiveTask, Terminal

-----------------------------------------------------------------------------
\* Calls on the task

\* Completed, failed and absent units are not among the open ones.
LEMMA OpenSets ==
    /\ \A S \in SUBSET Open : \A u \in With(unit, S) :
          u \in Unit /\ unit[u].status # "completed" /\ unit[u].status # "failed"
    /\ InFlight \subseteq Open /\ Waiting \subseteq Open
    /\ {"blocked"} \subseteq Open
  BY DEF With, Open, InFlight, Waiting

\* What settling open units does.
LEMMA SettleOpen ==
    ASSUME TypeOK, NEW S, S \subseteq With(unit, Open),
           NEW status \in {"pending", "blocked", "canceled", "failed", "needs_split"}
    PROVE  /\ Edges(unit, Settle(unit, S, status))
           /\ SameDone(unit, Settle(unit, S, status))
           /\ status # "failed" => NoFailure(unit, Settle(unit, S, status))
  <1>1. unit \in [Unit -> UnitRow]
    BY DEF TypeOK
  <1>2. \A u \in S : u \in Unit /\ unit[u].status # "completed"
    BY OpenSets
  <1> QED
    BY <1>1, <1>2, SettleFields DEF SameDone, NoFailure

\* What putting open units back does.
LEMMA RequeueOpen ==
    ASSUME TypeOK, NEW S, S \subseteq With(unit, Open), NEW extra
    PROVE  /\ Edges(unit, Requeue(unit, S, extra))
           /\ SameDone(unit, Requeue(unit, S, extra))
           /\ NoFailure(unit, Requeue(unit, S, extra))
  <1>1. unit \in [Unit -> UnitRow]
    BY DEF TypeOK
  <1>2. \A u \in S : u \in Unit /\ unit[u].status # "completed"
    BY OpenSets
  <1> QED
    BY <1>1, <1>2, RequeueFields DEF SameDone, NoFailure

\* The sets of open units the calls name.
LEMMA OpenUnits ==
    /\ With(unit, InFlight) \subseteq With(unit, Open)
    /\ With(unit, Waiting) \subseteq With(unit, Open)
    /\ With(unit, {"blocked"}) \subseteq With(unit, Open)
  BY DEF With, Open, InFlight, Waiting

\* Settling every open unit leaves none in flight.
LEMMA SettleAllIdle ==
    ASSUME NEW rows \in [Unit -> UnitRow], NEW status \in {"blocked", "canceled", "failed"}
    PROVE  With(Settle(rows, With(rows, Open), status), InFlight) = {}
  <1> SUFFICES ASSUME NEW u \in Unit
               PROVE  Settle(rows, With(rows, Open), status)[u].status \notin InFlight
    BY DEF With
  <1>1. Settle(rows, With(rows, Open), status)[u].status =
           IF u \in With(rows, Open) THEN status ELSE rows[u].status
    BY SettleFields
  <1>2. CASE u \in With(rows, Open)
    BY <1>1, <1>2, OpenStatus DEF InFlight
  <1>3. CASE u \notin With(rows, Open)
    BY <1>1, <1>3 DEF With, Open
  <1> QED
    BY <1>2, <1>3

\* A booked resume that falls due leaves alone what the task is judged by.
LEMMA DueFields ==
    ASSUME TypeOK, AutoResumeFallsDue
    PROVE  /\ UNCHANGED unit
           /\ task'.status = task.status /\ task'.cancelRequested = task.cancelRequested
           /\ task'.total = task.total /\ task'.done = task.done
  <1>1. task \in TaskRow
    BY DEF TypeOK
  <1> QED
    BY <1>1, Zenon DEF AutoResumeFallsDue, TaskRow

\* The passing of time.
LEMMA TickEffect == ASSUME Before, Tick PROVE Edges(unit, unit') /\ Effect
  <1>0. unit \in [Unit -> UnitRow]
    BY DEF Before, TypeOK
  <1>1. CASE DeadlineElapses
    <2>1. UNCHANGED <<task, unit>>
      BY <1>1 DEF DeadlineElapses
    <2> QED
      BY <2>1, StillEffect DEF Edges, SameDone, NoFailure
  <1>2. ASSUME NEW u \in Unit, NEW q, unit' = [unit EXCEPT ![u] = q], UNCHANGED task,
               q.deps = unit[u].deps, q.required = unit[u].required, q.status = unit[u].status
        PROVE  Edges(unit, unit') /\ Effect
    <2>1. Edges(unit, unit') /\ SameDone(unit, unit') /\ NoFailure(unit, unit')
      BY <1>0, <1>2, OneRowFields DEF SameDone, NoFailure
    <2> QED
      BY <1>2, <2>1, StillEffect
  <1>3. ASSUME NEW u \in Unit, LeaseExpires(u) PROVE Edges(unit, unit') /\ Effect
    <2> DEFINE q == [unit[u] EXCEPT !.lease = "expired"]
    <2>1. unit' = [unit EXCEPT ![u] = q] /\ UNCHANGED task
      BY <1>3, Zenon DEF LeaseExpires
    <2>r. unit[u] \in UnitRow
      BY <1>0
    <2>2. q.deps = unit[u].deps /\ q.required = unit[u].required /\ q.status = unit[u].status
      BY <2>r, Zenon DEF UnitRow
    <2> HIDE DEF q
    <2> QED
      BY <1>2, <2>1, <2>2
  <1>4. ASSUME NEW u \in Unit, BackoffElapses(u) PROVE Edges(unit, unit') /\ Effect
    <2> DEFINE q == [unit[u] EXCEPT !.backoff = FALSE]
    <2>1. unit' = [unit EXCEPT ![u] = q] /\ UNCHANGED task
      BY <1>4, Zenon DEF BackoffElapses
    <2>r. unit[u] \in UnitRow
      BY <1>0
    <2>2. q.deps = unit[u].deps /\ q.required = unit[u].required /\ q.status = unit[u].status
      BY <2>r, Zenon DEF UnitRow
    <2> HIDE DEF q
    <2> QED
      BY <1>2, <2>1, <2>2
  <1>5. CASE AutoResumeFallsDue
    <2>1. /\ UNCHANGED unit
          /\ task'.status = task.status /\ task'.cancelRequested = task.cancelRequested
          /\ task'.total = task.total /\ task'.done = task.done
      BY <1>5, DueFields DEF Before
    <2>2. Edges(unit, unit') /\ SameDone(unit, unit')
      BY <2>1 DEF Edges, SameDone
    <2>3. Counted(task', unit')
      BY <2>1, <2>2, CountsKept DEF Before
    <2>4. LiveTask'
      BY <2>1 DEF Before, LiveTask
    <2> QED
      BY <2>1, <2>2, <2>3, <2>4 DEF Effect, Ends
  <1> QED
    BY <1>1, <1>3, <1>4, <1>5 DEF Tick

\* _cancel_in_transaction
LEMMA CancelEffect == ASSUME Before, CancelTask PROVE Edges(unit, unit') /\ Effect
  <1>1. TypeOK /\ task \in TaskRow
    BY DEF Before, TypeOK
  <1>2. /\ task' = [task EXCEPT !.status = "canceled"]
        /\ unit' = Settle(unit, With(unit, Open), "canceled")
    BY DEF CancelTask, CanceledTask
  <1>3. Edges(unit, unit') /\ SameDone(unit, unit')
    BY <1>1, <1>2, SettleOpen
  <1>4. task'.status = "canceled" /\ task'.total = task.total /\ task'.done = task.done
    BY <1>1, <1>2, Zenon DEF TaskRow
  <1>5. Counted(task', unit')
    BY <1>3, <1>4, CountsKept DEF Before
  <1> QED
    BY <1>3, <1>4, <1>5, CloseEffect

\* _expire_deadline_in_transaction
LEMMA ExpireEffect == ASSUME Before, ExpireTask PROVE Edges(unit, unit') /\ Effect
  <1> DEFINE rows == Settle(unit, With(unit, Open), "failed")
             t == Refresh(task, rows)
  <1>1. TypeOK /\ task \in TaskRow /\ unit \in [Unit -> UnitRow]
    BY DEF Before, TypeOK
  <1>2. /\ unit' = rows
        /\ task' = IF t.status \in Terminal THEN t ELSE [t EXCEPT !.status = "failed"]
    BY Zenon DEF ExpireTask
  <1>3. Edges(unit, rows) /\ With(rows, InFlight) = {}
    BY <1>1, SettleOpen, SettleAllIdle
  <1>4. /\ t \in TaskRow /\ Counted(t, rows)
        /\ t.status = task.status /\ t.cancelRequested = task.cancelRequested
    BY <1>1, RefreshType, RefreshFields
  <1> HIDE DEF rows, t
  <1>5. /\ Counted(task', unit')
        /\ IF task.status \in Terminal
           THEN task'.status = task.status /\ task'.cancelRequested = task.cancelRequested
           ELSE task'.status = "failed"
    BY <1>2, <1>4, StatusFields
  <1>6. task'.status \in Terminal
    BY <1>5 DEF Terminal
  <1> QED
    BY <1>2, <1>3, <1>5, <1>6 DEF Effect, Ends, LiveTask

\* _fail_budget
LEMMA BudgetEffect ==
    ASSUME Before, task' = BudgetTask, unit' = BudgetRows
    PROVE  Edges(unit, unit') /\ Effect /\ With(unit, InFlight)' = {}
  <1> DEFINE t == Refresh(task, BudgetRows)
             status == IF BudgetPauses THEN "blocked" ELSE "failed"
  <1>1. TypeOK /\ task \in TaskRow /\ unit \in [Unit -> UnitRow]
    BY DEF Before, TypeOK
  <1>2. BudgetRows = Settle(unit, With(unit, Open), status)
    BY DEF BudgetRows
  <1>3. status \in {"blocked", "failed"} /\ (status = "failed" <=> ~BudgetPauses)
    OBVIOUS
  <1> HIDE DEF status
  <1>4. /\ Edges(unit, BudgetRows) /\ With(BudgetRows, InFlight) = {}
        /\ BudgetPauses => NoFailure(unit, BudgetRows)
    BY <1>1, <1>2, <1>3, SettleOpen, SettleAllIdle
  <1>5. /\ t \in TaskRow /\ Counted(t, BudgetRows)
        /\ t.status = task.status /\ t.cancelRequested = task.cancelRequested
    BY <1>1, RefreshType, RefreshFields
  <1>6. task' = IF t.status \in Terminal \/ (BudgetPauses /\ t.status = "paused") THEN t
                ELSE IF BudgetPauses THEN [t EXCEPT !.status = "paused", !.reason = "budget"]
                ELSE [t EXCEPT !.status = "failed"]
    BY Zenon DEF BudgetTask
  <1> HIDE DEF t
  <1>7. /\ [t EXCEPT !.status = "paused", !.reason = "budget"].status = "paused"
        /\ [t EXCEPT !.status = "paused", !.reason = "budget"].total = t.total
        /\ [t EXCEPT !.status = "paused", !.reason = "budget"].done = t.done
    BY <1>5, Zenon DEF TaskRow
  <1>8. Counted([t EXCEPT !.status = "paused", !.reason = "budget"], BudgetRows)
    BY <1>5, <1>7 DEF Counted
  <1>9. CASE task.status \in Terminal
    <2>1. task' = t
      BY <1>5, <1>6, <1>9
    <2> QED
      BY <1>4, <1>5, <1>9, <2>1 DEF Effect, Ends, LiveTask
  <1>10. CASE task.status \notin Terminal /\ BudgetPauses
    <2>1. Counted(task', unit') /\ task'.status = "paused"
      BY <1>5, <1>6, <1>7, <1>8, <1>10
    <2>2. LiveTask'
      BY <1>4, <1>10, Zenon DEF Before, LiveTask, Edges, NoFailure
    <2> QED
      BY <1>4, <2>1, <2>2 DEF Effect, Ends
  <1>11. CASE task.status \notin Terminal /\ ~BudgetPauses
    <2>1. Counted(task', unit') /\ task'.status = "failed"
      BY <1>5, <1>6, <1>11, StatusFields
    <2> QED
      BY <1>4, <2>1, CloseEffect
  <1> QED
    BY <1>9, <1>10, <1>11

\* fail: what is in flight fails, what waits is canceled, and the task is over.
LEMMA FailEffect == ASSUME Before, Fail PROVE Edges(unit, unit') /\ Effect
  <1>1. PICK named \in SUBSET (RequiredUnits(unit) \intersect With(unit, Waiting)) :
            LET rows == Settle(Settle(unit, With(unit, InFlight) \union named, "failed"),
                               With(unit, Waiting) \ named, "canceled")
            IN unit' = rows /\ task' = [Refresh(task, rows) EXCEPT !.status = "failed"]
    BY Zenon DEF Fail
  <1> DEFINE rows1 == Settle(unit, With(unit, InFlight) \union named, "failed")
             rows == Settle(rows1, With(unit, Waiting) \ named, "canceled")
  <1>2. TypeOK /\ task \in TaskRow /\ unit \in [Unit -> UnitRow]
    BY DEF Before, TypeOK
  <1>3. unit' = rows /\ task' = [Refresh(task, rows) EXCEPT !.status = "failed"]
    BY <1>1
  <1>4. rows1 \in [Unit -> UnitRow]
    BY <1>2, SettleType, StatusType
  <1>5. /\ Edges(unit, rows1)
        /\ \A u \in Unit : rows1[u].status =
              IF u \in With(unit, InFlight) \union named THEN "failed" ELSE unit[u].status
    BY <1>2, SettleFields
  <1> HIDE DEF rows1
  <1>6. /\ Edges(rows1, rows)
        /\ \A u \in Unit : rows[u].status =
              IF u \in With(unit, Waiting) \ named THEN "canceled" ELSE rows1[u].status
    BY <1>4, SettleFields
  <1> HIDE DEF rows
  <1>7. Edges(unit, rows)
    BY <1>5, <1>6, EdgesCompose
  <1>8. With(rows, InFlight) = {}
    <2> SUFFICES ASSUME NEW u \in Unit PROVE rows[u].status \notin InFlight
      BY DEF With
    <2>1. "failed" \notin InFlight /\ "canceled" \notin InFlight
      BY DEF InFlight
    <2> QED
      BY <1>5, <1>6, <2>1 DEF With
  <1>9. Refresh(task, rows) \in TaskRow /\ Counted(Refresh(task, rows), rows)
    BY <1>2, RefreshType, RefreshFields
  <1>10. Counted(task', unit') /\ task'.status = "failed"
    BY <1>3, <1>9, StatusFields
  <1> QED
    BY <1>3, <1>7, <1>8, <1>10, CloseEffect

\* A system pause pauses and books a resume.
LEMMA PauseFields ==
    ASSUME task \in TaskRow, PauseBySystem
    PROVE  task'.status = "paused" /\ task'.total = task.total /\ task'.done = task.done
  <1>1. PICK delay \in Backoff(task.autoAttempt + 1) :
            task' = [ScheduleRecovery(task, delay) EXCEPT !.status = "paused", !.reason = "system"]
    BY DEF PauseBySystem
  <1> DEFINE t == ScheduleRecovery(task, delay)
             n == task.autoAttempt + 1
             m == task.autoWaited + delay
  <1>2. \/ t = [task EXCEPT !.autoAttempt = n, !.autoResume = "exhausted"]
        \/ t = [task EXCEPT !.autoAttempt = n, !.autoResume = "scheduled", !.autoWaited = m]
    BY Zenon DEF ScheduleRecovery
  <1>3. t.total = task.total /\ t.done = task.done /\ DOMAIN t = DOMAIN task
    BY <1>2, Zenon DEF TaskRow
  <1>4. task' = [t EXCEPT !.status = "paused", !.reason = "system"]
    BY <1>1
  <1>5. {"status", "total", "done"} \subseteq DOMAIN task
    BY DEF TaskRow
  <1> HIDE DEF t
  <1> QED
    BY <1>3, <1>4, <1>5

\* The other calls that write the task row and keep it open.
LEMMA TaskFields ==
    ASSUME NEW t \in TaskRow, NEW status, NEW reason
    PROVE  /\ [t EXCEPT !.status = status].total = t.total
           /\ [t EXCEPT !.status = status].done = t.done
           /\ [t EXCEPT !.status = status].status = status
           /\ [t EXCEPT !.status = status, !.reason = reason].total = t.total
           /\ [t EXCEPT !.status = status, !.reason = reason].done = t.done
           /\ [t EXCEPT !.status = status, !.reason = reason].status = status
           /\ [t EXCEPT !.cancelRequested = TRUE].total = t.total
           /\ [t EXCEPT !.cancelRequested = TRUE].done = t.done
           /\ [t EXCEPT !.cancelRequested = TRUE].status = t.status
  BY Zenon DEF TaskRow

\* Finalization completes only what is done, and fails nothing.
LEMMA FinalizeEffect ==
    ASSUME Before, FinalizeIfComplete PROVE Edges(unit, unit') /\ Effect
  <1> DEFINE required(status) == RequiredUnits(unit) \intersect With(unit, status)
             target == IF required({"failed"}) # {} THEN "failed"
                       ELSE IF Cardinality(required({"completed"})) = task.total THEN "completed"
                       ELSE IF required({"blocked"}) # {} /\ required(InFlight) = {} THEN "paused"
                       ELSE "running"
  <1>1. /\ ~task.cancelRequested /\ task.status = "running"
        /\ task' = [task EXCEPT !.status = target] /\ unit' = unit
    BY Zenon DEF FinalizeIfComplete
  <1>2. task \in TaskRow
    BY DEF Before, TypeOK
  <1>3. required({"failed"}) = {}
    BY <1>1 DEF Before, LiveTask, RequiredUnits, With, Terminal
  <1>4. target \in {"completed", "paused", "running"}
    BY <1>3
  <1>5. target = "completed" => \A u \in RequiredUnits(unit) : unit[u].status = "completed"
    <2> SUFFICES ASSUME target = "completed"
                 PROVE  \A u \in RequiredUnits(unit) : unit[u].status = "completed"
      OBVIOUS
    <2>1. Cardinality(required({"completed"})) = Cardinality(RequiredUnits(unit))
      BY <1>3 DEF Before, Counted
    <2>2. IsFiniteSet(RequiredUnits(unit))
      BY UnitAssumption, FS_Subset DEF RequiredUnits
    <2>3. RequiredUnits(unit) = required({"completed"})
      BY <2>1, <2>2, FS_Subset
    <2> QED
      BY <2>3 DEF With
  <1> HIDE DEF target
  <1>6. /\ Counted(task', unit') /\ task'.status = target
        /\ task'.cancelRequested = task.cancelRequested
    BY <1>1, <1>2, StatusFields DEF Before
  <1>7. LiveTask'
    BY <1>1 DEF Before, LiveTask, Terminal
  <1>8. Ends
    BY <1>1, <1>4, <1>5, <1>6 DEF Ends, Earned
  <1> QED
    BY <1>1, <1>6, <1>7, <1>8 DEF Effect, Edges

\* Every call on the task, but for what a claim finds.
LEMMA TaskCallEffect == ASSUME Before, TaskCall PROVE Edges(unit, unit') /\ Effect
  <1>0. TypeOK /\ task \in TaskRow
    BY DEF Before, TypeOK
  <1>s. Edges(unit, unit) /\ SameDone(unit, unit) /\ NoFailure(unit, unit)
    BY DEF Edges, SameDone, NoFailure
  <1>1. CASE Start
    <2>1. /\ task' = [task EXCEPT !.status = "running"] /\ unit' = unit
          /\ task.status = "pending"
      BY <1>1 DEF Start
    <2>2. task'.status = "running" /\ task'.total = task.total /\ task'.done = task.done
      BY <1>0, <2>1, TaskFields
    <2> QED
      BY <1>s, <2>1, <2>2, LiveEffect DEF Terminal
  <1>2. CASE ObserveDeadline
    BY <1>2, ExpireEffect DEF ObserveDeadline
  <1>3. CASE ClaimOverBudget
    BY <1>3, BudgetEffect DEF ClaimOverBudget
  <1>4. ASSUME NEW r \in Run, NEW n \in UsageSizes, RecordUsage(r, n)
        PROVE  Edges(unit, unit') /\ Effect
    <2>1. (task' = BudgetTask /\ unit' = BudgetRows) \/ UNCHANGED <<task, unit>>
      BY <1>4, Zenon DEF RecordUsage
    <2> QED
      BY <1>s, <2>1, BudgetEffect, StillEffect
  <1>5. CASE RequestCancel
    <2>1. /\ task' = [task EXCEPT !.cancelRequested = TRUE] /\ unit' = unit
          /\ task.status \notin Terminal
      BY <1>5 DEF RequestCancel
    <2>2. task'.status = task.status /\ task'.total = task.total /\ task'.done = task.done
      BY <1>0, <2>1, TaskFields
    <2> QED
      BY <1>s, <2>1, <2>2, LiveEffect
  <1>6. CASE ObserveCancel \/ Cancel
    BY <1>6, CancelEffect DEF ObserveCancel, Cancel
  <1>7. CASE Fail
    BY <1>7, FailEffect
  <1>8. CASE FinalizeIfComplete
    BY <1>8, FinalizeEffect
  <1>9. CASE RecoverAfterRestart
    <2>1. /\ unit' = Requeue(unit, With(unit, InFlight), 1) /\ PauseBySystem
          /\ task.status = "running"
      BY <1>9 DEF RecoverAfterRestart
    <2> QED
      BY <1>0, <2>1, PauseFields, OpenUnits, RequeueOpen, LiveEffect DEF Terminal
  <1> QED
    BY <1>1, <1>2, <1>3, <1>4, <1>5, <1>6, <1>7, <1>8, <1>9 DEF TaskCall

\* pause, resume, and a retry of the failed task, which fails no unit it does not
\* put back.
LEMMA PauseOrResumeEffect ==
    ASSUME Before, PauseOrResume PROVE Edges(unit, unit') /\ Effect
  <1>0. TypeOK /\ task \in TaskRow /\ unit \in [Unit -> UnitRow]
    BY DEF Before, TypeOK
  <1>c. ASSUME NEW source
        PROVE  /\ ClearReason(task, source).total = task.total
               /\ ClearReason(task, source).done = task.done
               /\ ClearReason(task, source) \in TaskRow
    BY <1>0, Zenon DEF ClearReason, TaskRow
  <1>1. ASSUME NEW scope \in {"user", "system"}, Pause(scope) PROVE Edges(unit, unit') /\ Effect
    <2>1. /\ unit' = Requeue(unit, With(unit, InFlight), 1)
          /\ task.status \in {"pending", "running"}
      BY <1>1, Zenon DEF Pause
    <2>2. task'.status = "paused" /\ task'.total = task.total /\ task'.done = task.done
      <3>1. CASE scope = "system"
        <4>1. PauseBySystem
          BY <1>1, <3>1, Zenon DEF Pause
        <4> QED
          BY <1>0, <4>1, PauseFields
      <3>2. CASE scope = "user"
        <4>1. task' = [task EXCEPT !.status = "paused", !.reason = scope]
          BY <1>1, <3>2, Zenon DEF Pause
        <4> QED
          BY <1>0, <4>1, TaskFields
      <3> QED
        BY <3>1, <3>2
    <2> QED
      BY <1>0, <2>1, <2>2, OpenUnits, RequeueOpen, LiveEffect DEF Terminal
  <1>2. ASSUME NEW source \in {"user", "automatic"}, ResumePaused(source)
        PROVE  Edges(unit, unit') /\ Effect
    <2> DEFINE rows == Requeue(unit, With(unit, {"blocked"}), 1)
    <2>1. /\ task' = [ClearReason(task, source) EXCEPT !.status = "running"]
          /\ unit' = ResumedRows /\ task.status = "paused"
      BY <1>2, Zenon DEF ResumePaused
    <2>2. /\ Edges(unit, rows) /\ SameDone(unit, rows) /\ NoFailure(unit, rows)
          /\ rows \in [Unit -> UnitRow]
      BY <1>0, OpenUnits, RequeueOpen, RequeueType
    <2>3. \A u \in Unit : unit'[u] = IF unit[u].status = "blocked"
                                     THEN [rows[u] EXCEPT !.backoff = FALSE, !.waited = 0]
                                     ELSE rows[u]
      BY <2>1, Zenon DEF ResumedRows
    <2> HIDE DEF rows
    <2>4. ASSUME NEW u \in Unit
          PROVE  /\ unit'[u].deps = rows[u].deps /\ unit'[u].required = rows[u].required
                 /\ unit'[u].status = rows[u].status
      <3>1. rows[u] \in UnitRow
        BY <2>2
      <3>2. /\ [rows[u] EXCEPT !.backoff = FALSE, !.waited = 0].deps = rows[u].deps
            /\ [rows[u] EXCEPT !.backoff = FALSE, !.waited = 0].required = rows[u].required
            /\ [rows[u] EXCEPT !.backoff = FALSE, !.waited = 0].status = rows[u].status
        BY <3>1, Zenon DEF UnitRow
      <3> QED
        BY <2>3, <3>2
    <2>5. Edges(unit, unit') /\ SameDone(unit, unit') /\ NoFailure(unit, unit')
      BY <2>2, <2>4 DEF Edges, SameDone, NoFailure
    <2>6. task'.status = "running" /\ task'.total = task.total /\ task'.done = task.done
      BY <1>c, <2>1, TaskFields
    <2> QED
      BY <2>1, <2>5, <2>6, LiveEffect DEF Terminal
  <1>3. ASSUME NEW extra \in 1 .. MaxGrants, NEW source, RetryFailed(extra, source)
        PROVE  Edges(unit, unit') /\ Effect
    <2> DEFINE back == With(unit, {"failed", "canceled"} \union InFlight)
               t == ClearReason(task, source)
    <2>1. /\ task' = [t EXCEPT !.status = "running", !.failed = 0]
          /\ unit' = Requeue(unit, back, extra)
      BY <1>3, Zenon DEF RetryFailed
    <2>2. /\ Edges(unit, unit')
          /\ \A u \in Unit : unit'[u].status = IF u \in back THEN "pending" ELSE unit[u].status
      BY <1>0, <2>1, RequeueFields
    <2>3. SameDone(unit, unit')
      BY <2>2 DEF SameDone, With, InFlight
    <2>4. t \in TaskRow /\ t.total = task.total /\ t.done = task.done
      BY <1>c
    <2> HIDE DEF t
    <2>5. task'.status = "running" /\ task'.total = task.total /\ task'.done = task.done
      BY <2>1, <2>4, Zenon DEF TaskRow
    <2>6. Counted(task', unit')
      BY <2>2, <2>3, <2>5, CountsKept DEF Before
    <2>7. LiveTask'
      BY <2>2 DEF LiveTask, With
    <2> QED
      BY <2>2, <2>5, <2>6, <2>7 DEF Effect, Ends
  <1> QED
    BY <1>1, <1>2, <1>3 DEF PauseOrResume

-----------------------------------------------------------------------------
\* Claims

\* The rows a claim starts from, unless a required unit ran out of attempts.
LEMMA RowsAtClaimFields ==
    ASSUME TypeOK
    PROVE  /\ RowsAtClaim \in [Unit -> UnitRow]
           /\ Edges(unit, RowsAtClaim) /\ SameDone(unit, RowsAtClaim)
           /\ Exhausted \intersect RequiredUnits(unit) = {} => NoFailure(unit, RowsAtClaim)
           /\ \A u \in Unit : RowsAtClaim[u].status \in {"failed", unit[u].status}
  <1>1. unit \in [Unit -> UnitRow]
    BY DEF TypeOK
  <1>2. Exhausted \subseteq With(unit, Open)
    BY OpenUnits DEF Exhausted
  <1>3. Edges(unit, RowsAtClaim) /\ SameDone(unit, RowsAtClaim)
    BY <1>2, SettleOpen DEF RowsAtClaim
  <1>4. \A u \in Unit : RowsAtClaim[u].status = IF u \in Exhausted THEN "failed" ELSE unit[u].status
    BY <1>1, SettleFields DEF RowsAtClaim
  <1>5. ASSUME Exhausted \intersect RequiredUnits(unit) = {} PROVE NoFailure(unit, RowsAtClaim)
    BY <1>4, <1>5 DEF NoFailure, RequiredUnits
  <1> QED
    BY <1>3, <1>4, <1>5, RowsAtClaimQuiet

\* The row a claim writes.
LEMMA ClaimedRowFields ==
    ASSUME NEW row \in UnitRow, NEW w
    PROVE  /\ ClaimedRow(row, w).deps = row.deps /\ ClaimedRow(row, w).required = row.required
           /\ ClaimedRow(row, w).status = "claimed"
  <1> DEFINE n == row.attempt + 1
             m == row.epoch + 1
  <1>1. ClaimedRow(row, w) =
          [row EXCEPT !.status = "claimed", !.attempt = n, !.worker = w, !.lease = "live",
                      !.epoch = m, !.settledBy = NULL, !.run = NULL, !.backoff = FALSE]
    BY Zenon DEF ClaimedRow
  <1> HIDE DEF n, m
  <1> QED
    BY <1>1, Zenon DEF UnitRow

\* A unit is granted.
LEMMA ClaimUnitEffect ==
    ASSUME Before, NEW w \in Worker, NEW u \in Unit, ClaimUnit(w, u)
    PROVE  /\ Edges(unit, unit') /\ Effect
           /\ \A v \in Unit : unit'[v].status \in InFlight /\ v # u => unit[v].status \in InFlight
           /\ \A v \in unit[u].deps : unit'[v].status = "completed"
  <1> DEFINE q == ClaimedRow(RowsAtClaim[u], w)
  <1>0. TypeOK
    BY DEF Before
  <1>1. /\ unit' = [RowsAtClaim EXCEPT ![u] = q] /\ UNCHANGED task
        /\ u \in Ready(RowsAtClaim) /\ Exhausted \intersect RequiredUnits(unit) = {}
    BY Zenon DEF ClaimUnit
  <1>2. /\ RowsAtClaim \in [Unit -> UnitRow]
        /\ Edges(unit, RowsAtClaim) /\ SameDone(unit, RowsAtClaim)
        /\ NoFailure(unit, RowsAtClaim)
        /\ \A v \in Unit : RowsAtClaim[v].status \in {"failed", unit[v].status}
    BY <1>0, <1>1, RowsAtClaimFields
  <1>3. /\ RowsAtClaim[u].status \in {"pending", "waiting_retry"} \union InFlight
        /\ \A d \in RowsAtClaim[u].deps : RowsAtClaim[d].status = "completed"
    BY <1>1, Zenon DEF Ready
  <1>4. /\ q.deps = RowsAtClaim[u].deps /\ q.required = RowsAtClaim[u].required
        /\ q.status = "claimed"
    BY <1>2, ClaimedRowFields
  <1> HIDE DEF q
  <1>5. /\ Edges(RowsAtClaim, unit')
        /\ \A v \in Unit : unit'[v] = IF v = u THEN q ELSE RowsAtClaim[v]
    BY <1>1, <1>2, <1>4, OneRowFields
  <1>6. Edges(unit, unit')
    BY <1>2, <1>5, EdgesCompose
  <1>7. RowsAtClaim[u].status # "completed"
    BY <1>3 DEF InFlight
  <1>8. SameDone(unit, unit') /\ NoFailure(unit, unit')
    BY <1>2, <1>4, <1>5, <1>7 DEF SameDone, NoFailure
  <1>9. Effect
    BY <1>1, <1>6, <1>8, StillEffect
  <1>10. \A v \in Unit : unit'[v].status \in InFlight /\ v # u => unit[v].status \in InFlight
    BY <1>2, <1>5 DEF InFlight
  <1>11. unit[u].deps \subseteq Unit /\ RowsAtClaim[u].deps = unit[u].deps
    BY <1>0, <1>2 DEF TypeOK, UnitRow, Edges
  <1>12. \A v \in unit[u].deps : unit'[v].status = "completed"
    BY <1>3, <1>5, <1>7, <1>11
  <1> QED
    BY <1>6, <1>9, <1>10, <1>12

\* A claim that grants nothing.
LEMMA ClaimFailureEffect ==
    ASSUME Before, ClaimNothing \/ ClaimAfterExhaustion
    PROVE  Edges(unit, unit') /\ Effect
  <1>0. TypeOK /\ task \in TaskRow
    BY DEF Before, TypeOK
  <1>1. CASE ClaimNothing
    <2>1. /\ unit' = RowsAtClaim /\ UNCHANGED task
          /\ Exhausted \intersect RequiredUnits(unit) = {}
      BY <1>1 DEF ClaimNothing
    <2> QED
      BY <1>0, <2>1, RowsAtClaimFields, StillEffect
  <1>2. CASE ClaimAfterExhaustion
    <2> DEFINE rows == Settle(RowsAtClaim, With(RowsAtClaim, Open), "canceled")
    <2>1. unit' = rows /\ task' = [Refresh(task, rows) EXCEPT !.status = "failed"]
      BY <1>2, Zenon DEF ClaimAfterExhaustion
    <2>2. RowsAtClaim \in [Unit -> UnitRow] /\ Edges(unit, RowsAtClaim)
      BY <1>0, RowsAtClaimFields
    <2>3. Edges(RowsAtClaim, rows) /\ With(rows, InFlight) = {}
      BY <2>2, SettleFields, SettleAllIdle
    <2> HIDE DEF rows
    <2>4. Refresh(task, rows) \in TaskRow /\ Counted(Refresh(task, rows), rows)
      BY <1>0, RefreshType, RefreshFields
    <2>5. Counted(task', unit') /\ task'.status = "failed"
      BY <2>1, <2>4, StatusFields
    <2>6. Edges(unit, rows)
      BY <2>2, <2>3, EdgesCompose
    <2> QED
      BY <2>1, <2>3, <2>5, <2>6, CloseEffect
  <1> QED
    BY <1>1, <1>2

-----------------------------------------------------------------------------
\* Calls with a lease

\* A row that was in flight is neither completed nor failed.
LEMMA HeldRow ==
    ASSUME Before, NEW tk \in tokens, HoldsLease(tk)
    PROVE  /\ tk.unit \in Unit /\ unit[tk.unit] \in UnitRow /\ unit \in [Unit -> UnitRow]
           /\ unit[tk.unit].status \in InFlight
           /\ unit[tk.unit].status # "completed" /\ unit[tk.unit].status # "failed"
           /\ task.status = "running" /\ task \in TaskRow
           /\ {tk.unit} \subseteq With(unit, Open)
  <1>1. /\ tk.unit \in Unit /\ unit[tk.unit] \in UnitRow
        /\ unit[tk.unit].status \in InFlight /\ unit[tk.unit].status \in Open
    BY HeldInFlight DEF Before
  <1>2. task.status = "running"
    BY DEF HoldsLease
  <1> QED
    BY <1>1, <1>2 DEF InFlight, With, Before, TypeOK

\* One row is rewritten, and is neither completed nor failed by it.
LEMMA OneRowOpen ==
    ASSUME Before, NEW tk \in tokens, HoldsLease(tk), NEW q,
           q.deps = unit[tk.unit].deps, q.required = unit[tk.unit].required,
           q.status \notin {"completed", "failed"}
    PROVE  /\ Edges(unit, [unit EXCEPT ![tk.unit] = q])
           /\ SameDone(unit, [unit EXCEPT ![tk.unit] = q])
           /\ NoFailure(unit, [unit EXCEPT ![tk.unit] = q])
  BY HeldRow, OneRowFields DEF SameDone, NoFailure

\* The rows that settled failures leave.
LEMMA FailureRowFields ==
    ASSUME NEW row \in UnitRow, NEW n, NEW m
    PROVE  /\ /\ BlockedRow(row, n, m).deps = row.deps
              /\ BlockedRow(row, n, m).required = row.required
              /\ BlockedRow(row, n, m).status = "blocked"
           /\ /\ WaitingRow(row, n, m).deps = row.deps
              /\ WaitingRow(row, n, m).required = row.required
              /\ WaitingRow(row, n, m).status = "waiting_retry"
           /\ /\ [row EXCEPT !.waited = 0, !.backoff = FALSE].deps = row.deps
              /\ [row EXCEPT !.waited = 0, !.backoff = FALSE].required = row.required
              /\ [row EXCEPT !.waited = 0, !.backoff = FALSE].status = row.status
  <1> DEFINE k == row.maxAttempts + m
             l == row.waited + n
  <1>1. BlockedRow(row, n, m) = [row EXCEPT !.status = "blocked", !.worker = NULL,
             !.lease = "none", !.backoff = FALSE, !.waited = n, !.maxAttempts = k]
    BY Zenon DEF BlockedRow
  <1>2. WaitingRow(row, n, m) = [row EXCEPT !.status = "waiting_retry", !.worker = NULL,
             !.lease = "none", !.backoff = TRUE, !.waited = l, !.maxAttempts = k]
    BY Zenon DEF WaitingRow
  <1> HIDE DEF k, l
  <1> QED
    BY <1>1, <1>2, Zenon DEF UnitRow

\* The row of a failure without a retry.
LEMMA RowsEndedFields ==
    ASSUME Before, NEW tk \in tokens, HoldsLease(tk),
           NEW status \in {"needs_split", "canceled", "failed"}
    PROVE  /\ Edges(unit, RowsEnded(tk, status)) /\ SameDone(unit, RowsEnded(tk, status))
           /\ status # "failed" => NoFailure(unit, RowsEnded(tk, status))
           /\ \A u \in Unit : RowsEnded(tk, status)[u].status =
                                 IF u = tk.unit THEN status ELSE unit[u].status
           /\ RowsEnded(tk, status) \in [Unit -> UnitRow]
  <1> DEFINE rows == Settle(unit, {tk.unit}, status)
             q == [rows[tk.unit] EXCEPT !.waited = 0, !.backoff = FALSE]
  <1>1. /\ tk.unit \in Unit /\ unit \in [Unit -> UnitRow]
        /\ unit[tk.unit].status # "completed" /\ TypeOK
    BY HeldRow DEF Before
  <1>2. rows \in [Unit -> UnitRow]
    BY <1>1, SettleType, StatusType
  <1>3. /\ Edges(unit, rows)
        /\ \A u \in Unit : rows[u].status = IF u = tk.unit THEN status ELSE unit[u].status
    BY <1>1, SettleFields
  <1>4. RowsEnded(tk, status) = [rows EXCEPT ![tk.unit] = q]
    BY <1>1, <1>2, Zenon DEF RowsEnded
  <1> HIDE DEF rows
  <1>5. /\ q.deps = rows[tk.unit].deps /\ q.required = rows[tk.unit].required
        /\ q.status = rows[tk.unit].status
    BY <1>1, <1>2, FailureRowFields
  <1> HIDE DEF q
  <1>6. /\ Edges(rows, RowsEnded(tk, status))
        /\ \A u \in Unit : RowsEnded(tk, status)[u] = IF u = tk.unit THEN q ELSE rows[u]
    <2>1. /\ Edges(rows, [rows EXCEPT ![tk.unit] = q])
          /\ \A u \in Unit : [rows EXCEPT ![tk.unit] = q][u] = IF u = tk.unit THEN q ELSE rows[u]
      BY <1>1, <1>2, <1>5, OneRowFields
    <2> QED
      BY <1>4, <2>1
  <1>7. \A u \in Unit : RowsEnded(tk, status)[u].status =
                           IF u = tk.unit THEN status ELSE unit[u].status
    BY <1>1, <1>3, <1>5, <1>6
  <1>8. Edges(unit, RowsEnded(tk, status))
    BY <1>3, <1>6, EdgesCompose
  <1>9. /\ SameDone(unit, RowsEnded(tk, status))
        /\ status # "failed" => NoFailure(unit, RowsEnded(tk, status))
    BY <1>1, <1>7 DEF SameDone, NoFailure
  <1> QED
    BY <1>1, <1>7, <1>8, <1>9, RowsEndedQuiet

\* settle_unit_failure, for every disposition.
LEMMA SettleUnitFailureEffect ==
    ASSUME Before, NEW tk \in tokens, SettleUnitFailure(tk)
    PROVE  Edges(unit, unit') /\ Effect
  <1> DEFINE row == unit[tk.unit]
  <1>0. HoldsLease(tk)
    BY Zenon DEF SettleUnitFailure, SettleRetry, SettleBlocked, SettleNeedsSplit,
                 SettleCanceled, SettleFailed, WorkerCall
  <1>r. /\ tk.unit \in Unit /\ row \in UnitRow /\ unit \in [Unit -> UnitRow]
        /\ task \in TaskRow /\ task.status = "running" /\ TypeOK
    BY <1>0, HeldRow DEF Before
  <1>1. ASSUME NEW d, SettleRetry(tk, d) PROVE Edges(unit, unit') /\ Effect
    <2>1. PICK delay : /\ unit' = [unit EXCEPT ![tk.unit] = WaitingRow(row, delay, Grant(row, d))]
                       /\ UNCHANGED task
      BY <1>1, Zenon DEF SettleRetry
    <2> DEFINE q == WaitingRow(row, delay, Grant(row, d))
    <2>2. q.deps = row.deps /\ q.required = row.required /\ q.status = "waiting_retry"
      BY <1>r, FailureRowFields
    <2>3. unit' = [unit EXCEPT ![tk.unit] = q]
      BY <2>1
    <2> HIDE DEF q
    <2>4. Edges(unit, unit') /\ SameDone(unit, unit') /\ NoFailure(unit, unit')
      BY <1>0, <2>2, <2>3, OneRowOpen
    <2> QED
      BY <2>1, <2>4, StillEffect
  <1>2. ASSUME NEW d, NEW systemic \in BOOLEAN, SettleBlocked(tk, d, systemic)
        PROVE  Edges(unit, unit') /\ Effect
    <2> DEFINE retry == d \in {"retry_attempt", "resume_checkpoint"}
               q == BlockedRow(row, IF retry THEN row.waited ELSE 0, Grant(row, d))
               rows == [unit EXCEPT ![tk.unit] = q]
               sibling == With(unit, InFlight) \ {tk.unit}
    <2>1. \/ unit' = Requeue(rows, sibling, 1) /\ PauseBySystem
          \/ unit' = rows /\ UNCHANGED task
      BY <1>2, Zenon DEF SettleBlocked
    <2>2. q \in UnitRow
      <3>1. (IF retry THEN row.waited ELSE 0) \in Nat /\ Grant(row, d) \in Nat
        BY <1>r DEF Grant, UnitRow
      <3> QED
        BY <1>r, <3>1, FailureRowType
    <2>3. q.deps = row.deps /\ q.required = row.required /\ q.status = "blocked"
      BY <1>r, FailureRowFields
    <2> HIDE DEF q
    <2>4. Edges(unit, rows) /\ SameDone(unit, rows) /\ NoFailure(unit, rows)
      BY <1>0, <2>3, OneRowOpen
    <2>5. /\ rows \in [Unit -> UnitRow]
          /\ \A u \in Unit : rows[u] = IF u = tk.unit THEN q ELSE unit[u]
      BY <1>r, <2>2
    <2> HIDE DEF rows
    <2>6. CASE unit' = rows /\ UNCHANGED task
      BY <2>4, <2>6, StillEffect
    <2>7. CASE unit' = Requeue(rows, sibling, 1) /\ PauseBySystem
      <3>1. /\ Edges(rows, unit')
            /\ \A u \in Unit : unit'[u].status = IF u \in sibling THEN "pending" ELSE rows[u].status
        BY <2>5, <2>7, RequeueFields
      <3>2. \A u \in sibling : unit[u].status # "completed"
        BY DEF With, InFlight
      <3>3. SameDone(unit, unit') /\ NoFailure(unit, unit')
        BY <2>4, <2>5, <3>1, <3>2 DEF SameDone, NoFailure
      <3>4. Edges(unit, unit')
        BY <2>4, <3>1, EdgesCompose
      <3> QED
        BY <1>r, <2>7, <3>3, <3>4, PauseFields, LiveEffect DEF Terminal
    <2> QED
      BY <2>1, <2>6, <2>7
  <1>3. CASE SettleNeedsSplit(tk)
    <2>1. unit' = RowsEnded(tk, "needs_split") /\ UNCHANGED task
      BY <1>3 DEF SettleNeedsSplit
    <2> QED
      BY <1>0, <2>1, RowsEndedFields, StillEffect
  <1>4. CASE SettleCanceled(tk)
    <2>1. unit' = RowsEnded(tk, "canceled") /\ task' = [task EXCEPT !.status = "canceled"]
      BY <1>4 DEF SettleCanceled, CanceledTask
    <2>2. Edges(unit, unit') /\ SameDone(unit, unit')
      BY <1>0, <2>1, RowsEndedFields
    <2>3. task'.status = "canceled" /\ task'.total = task.total /\ task'.done = task.done
      BY <1>r, <2>1, TaskFields
    <2>4. Counted(task', unit')
      BY <2>2, <2>3, CountsKept DEF Before
    <2> QED
      BY <2>2, <2>3, <2>4, CloseEffect
  <1>5. CASE SettleFailed(tk)
    <2> DEFINE rows == RowsEnded(tk, "failed")
               S == With(unit, InFlight \union {"pending"}) \ {tk.unit}
               n == task.failed + 1
    <2>1. task' = [task EXCEPT !.status = "failed", !.failed = n]
      BY <1>5, Zenon DEF SettleFailed
    <2>s. unit' = Settle(rows, S, "canceled")
      BY <1>5, Zenon DEF SettleFailed
    <2>2. /\ Edges(unit, rows) /\ SameDone(unit, rows) /\ rows \in [Unit -> UnitRow]
          /\ \A u \in Unit : rows[u].status = IF u = tk.unit THEN "failed" ELSE unit[u].status
      BY <1>0, RowsEndedFields
    <2> HIDE DEF rows, n, S
    <2>3. /\ Edges(rows, unit')
          /\ \A u \in Unit : unit'[u].status = IF u \in S THEN "canceled" ELSE rows[u].status
      <3>1. /\ Edges(rows, Settle(rows, S, "canceled"))
            /\ \A u \in Unit : Settle(rows, S, "canceled")[u].status =
                                  IF u \in S THEN "canceled" ELSE rows[u].status
        BY <2>2, SettleFields
      <3> QED
        BY <2>s, <3>1
    <2>4. Edges(unit, unit')
      BY <2>2, <2>3, EdgesCompose
    <2>5. \A u \in S : unit[u].status # "completed"
      BY DEF S, With, InFlight
    <2>6. SameDone(unit, unit')
      BY <2>2, <2>3, <2>5 DEF SameDone
    <2>7. With(unit', InFlight) = {}
      <3> SUFFICES ASSUME NEW u \in Unit PROVE unit'[u].status \notin InFlight
        BY DEF With
      <3> QED
        BY <2>2, <2>3 DEF S, With, InFlight
    <2>8. task'.status = "failed" /\ task'.total = task.total /\ task'.done = task.done
      BY <1>r, <2>1, Zenon DEF TaskRow
    <2>9. Counted(task', unit')
      BY <2>4, <2>6, <2>8, CountsKept DEF Before
    <2>10. With(unit, InFlight)' = {}
      BY <2>7 DEF With
    <2> QED
      BY <2>4, <2>8, <2>9, <2>10, CloseEffect
  <1> QED
    BY <1>1, <1>2, <1>3, <1>4, <1>5, Zenon DEF SettleUnitFailure

\* A refresh of a task that stays as it is.
LEMMA RefreshEffect ==
    ASSUME Before, task.status = "running", NEW rows, unit' = rows, task' = Refresh(task, rows),
           \A u \in Unit : rows[u].required => rows[u].status # "failed"
    PROVE  Effect
  <1>1. task \in TaskRow
    BY DEF Before, TypeOK
  <1>2. Counted(task', unit') /\ task'.status = "running"
    BY <1>1, RefreshFields
  <1> QED
    BY <1>2 DEF Effect, Ends, LiveTask

\* A result is delivered.
LEMMA CompleteEffect ==
    ASSUME Before, NEW tk \in tokens, NEW r, CompleteUnit(tk, r)
    PROVE  /\ Edges(unit, unit') /\ Effect
           /\ \A u \in Unit : u # tk.unit => unit'[u] = unit[u]
           /\ unit[tk.unit].status \in InFlight /\ unit'[tk.unit].status = "completed"
           /\ tk.unit \in Unit
  <1> DEFINE row == unit[tk.unit]
             q == CompletedRow(row, tk, r)
             rows == [unit EXCEPT ![tk.unit] = q]
  <1>1. HoldsLease(tk) /\ unit' = rows /\ task' = Refresh(task, rows)
    BY Zenon DEF CompleteUnit, WorkerCall
  <1>2. /\ tk.unit \in Unit /\ row \in UnitRow /\ unit \in [Unit -> UnitRow]
        /\ row.status \in InFlight /\ task.status = "running"
    BY <1>1, HeldRow
  <1>3. q.deps = row.deps /\ q.required = row.required /\ q.status = "completed"
    BY <1>2, Zenon DEF CompletedRow, UnitRow
  <1> HIDE DEF q
  <1>4. /\ Edges(unit, rows)
        /\ \A v \in Unit : rows[v] = IF v = tk.unit THEN q ELSE unit[v]
    BY <1>2, <1>3, OneRowFields
  <1> HIDE DEF rows
  <1>5. \A u \in Unit : rows[u].required => rows[u].status # "failed"
    BY <1>2, <1>3, <1>4 DEF Before, LiveTask, Edges, Terminal
  <1>6. Effect
    BY <1>1, <1>2, <1>5, RefreshEffect
  <1> QED
    BY <1>1, <1>2, <1>3, <1>4, <1>6

\* A unit is split: who waited for it waits for the replacement.
LEMMA SplitEffect ==
    ASSUME Before, NEW tk \in tokens, SplitUnit(tk)
    PROVE  /\ Effect
           /\ tk.unit \in Unit /\ unit[tk.unit].status \in InFlight
           /\ \A v \in Unit :
                 unit'[v].status \in InFlight \union {"completed"} =>
                     /\ unit'[v].status = unit[v].status
                     /\ tk.unit \notin unit[v].deps => unit'[v].deps = unit[v].deps
           /\ unit'[tk.unit].status = "expanded" /\ ~unit'[tk.unit].required
           /\ \A v \in Unit \ {tk.unit} : unit[v].status # "absent" =>
                 /\ unit'[v].status = unit[v].status /\ unit'[v].required = unit[v].required
                 /\ unit'[v].worker = unit[v].worker /\ unit'[v].lease = unit[v].lease
           /\ \A v \in Unit : unit[v].status = "absent" =>
                 \/ unit'[v].status = "pending"
                 \/ unit'[v].status = "absent" /\ unit'[v].required = unit[v].required
           /\ task.status = "running" /\ task'.status = "running"
  <1>1. PICK children \in SUBSET With(unit, {"absent"}) :
           \E deps, needed, replacement : ExpandUnit(tk, children, deps, needed, replacement)
    BY Zenon DEF SplitUnit
  <1>2. PICK deps, needed, replacement : ExpandUnit(tk, children, deps, needed, replacement)
    BY <1>1
  <1> DEFINE p == tk.unit
             rows == ExpandedRows(p, children, deps, needed, replacement)
  <1>3. HoldsLease(tk) /\ unit' = rows /\ task' = Refresh(task, rows)
    BY <1>2, Zenon DEF ExpandUnit, WorkerCall
  <1>4. /\ p \in Unit /\ unit \in [Unit -> UnitRow]
        /\ unit[p].status \in InFlight /\ task.status = "running"
    BY <1>3, HeldRow
  <1>5. ASSUME NEW v \in Unit
        PROVE  /\ v = p => rows[v].status = "expanded" /\ rows[v].required = FALSE
               /\ v # p /\ v \in children => rows[v].status = "pending"
               /\ v # p /\ v \notin children =>
                     /\ rows[v].status = unit[v].status /\ rows[v].required = unit[v].required
                     /\ rows[v].worker = unit[v].worker /\ rows[v].lease = unit[v].lease
                     /\ p \notin unit[v].deps => rows[v].deps = unit[v].deps
    <2>0. unit[v] \in UnitRow
      BY <1>4
    <2>1. CASE v = p
      <3>1. rows[v] = [unit[v] EXCEPT !.status = "expanded", !.required = FALSE,
                                      !.worker = NULL, !.lease = "none",
                                      !.settledBy = unit[p].worker]
        BY <2>1, Zenon DEF ExpandedRows
      <3> QED
        BY <2>0, <2>1, <3>1, Zenon DEF UnitRow
    <2>2. CASE v # p /\ v \in children
      <3>1. rows[v] = [InitialRow(v) EXCEPT !.status = "pending", !.required = v \in needed,
                                            !.deps = unit[p].deps \union deps[v]]
        BY <2>2, Zenon DEF ExpandedRows
      <3>2. rows[v].status = "pending"
        BY <3>1, Zenon DEF InitialRow
      <3> QED
        BY <2>2, <3>2
    <2>3. CASE v # p /\ v \notin children /\ p \in unit[v].deps
      <3>1. rows[v] = [unit[v] EXCEPT !.deps = (@ \ {p}) \union replacement]
        BY <2>3, Zenon DEF ExpandedRows
      <3>2. /\ rows[v].status = unit[v].status /\ rows[v].required = unit[v].required
            /\ rows[v].worker = unit[v].worker /\ rows[v].lease = unit[v].lease
        BY <2>0, <3>1, Zenon DEF UnitRow
      <3> QED
        BY <2>3, <3>2
    <2>4. CASE v # p /\ v \notin children /\ p \notin unit[v].deps
      <3>1. rows[v] = unit[v]
        BY <2>4, Zenon DEF ExpandedRows
      <3> QED
        BY <2>4, <3>1
    <2> QED
      BY <2>1, <2>2, <2>3, <2>4
  <1> HIDE DEF rows
  <1>6. \A u \in Unit : rows[u].required => rows[u].status # "failed"
    BY <1>4, <1>5 DEF Before, LiveTask, Terminal
  <1>7. Effect
    BY <1>3, <1>4, <1>6, RefreshEffect
  <1>8. /\ "expanded" \notin InFlight \union {"completed"}
        /\ "pending" \notin InFlight \union {"completed"}
    BY DEF InFlight
  <1>9. \A v \in children : unit[v].status = "absent"
    BY DEF With
  <1>10. unit[p].status # "absent"
    BY <1>4 DEF InFlight
  <1>11. task'.status = "running"
    BY <1>3, <1>4, RefreshFields DEF Before, TypeOK
  <1>12. \A v \in Unit \ {p} : unit[v].status # "absent" =>
            /\ rows[v].status = unit[v].status /\ rows[v].required = unit[v].required
            /\ rows[v].worker = unit[v].worker /\ rows[v].lease = unit[v].lease
    BY <1>5, <1>9
  <1>13. \A v \in Unit : unit[v].status = "absent" =>
            \/ rows[v].status = "pending"
            \/ rows[v].status = "absent" /\ rows[v].required = unit[v].required
    BY <1>5, <1>10
  <1> QED
    BY <1>3, <1>4, <1>5, <1>7, <1>8, <1>11, <1>12, <1>13

\* The other calls with a lease.
LEMMA UnitCallEffect ==
    ASSUME Before, UnitCall
    PROVE  \/ Edges(unit, unit') /\ Effect
           \/ \E tk \in tokens : SplitUnit(tk)
  <1>0. PICK tk \in tokens :
           \/ \E r \in Run : BindUnitRun(tk, r)
           \/ RenewUnitLease(tk)
           \/ \E r \in Run \union {NULL} : CompleteUnit(tk, r)
           \/ SettleUnitFailure(tk)
           \/ SplitUnit(tk)
           \/ InterruptUnit(tk)
    BY Zenon DEF UnitCall
  <1> DEFINE row == unit[tk.unit]
  <1>1. ASSUME NEW r \in Run, BindUnitRun(tk, r) PROVE Edges(unit, unit') /\ Effect
    <2> DEFINE q == [row EXCEPT !.status = "running", !.run = r]
    <2>1. HoldsLease(tk) /\ unit' = [unit EXCEPT ![tk.unit] = q] /\ UNCHANGED task
      BY <1>1, Zenon DEF BindUnitRun, WorkerCall
    <2>2. row \in UnitRow
      BY <2>1, HeldRow
    <2>3. q.deps = row.deps /\ q.required = row.required /\ q.status = "running"
      BY <2>2, Zenon DEF UnitRow
    <2> HIDE DEF q
    <2> QED
      BY <2>1, <2>3, OneRowOpen, StillEffect
  <1>2. CASE RenewUnitLease(tk)
    <2> DEFINE q == [row EXCEPT !.lease = "live"]
    <2>1. HoldsLease(tk) /\ unit' = [unit EXCEPT ![tk.unit] = q] /\ UNCHANGED task
      BY <1>2, Zenon DEF RenewUnitLease
    <2>2. row \in UnitRow /\ row.status \notin {"completed", "failed"}
      BY <2>1, HeldRow
    <2>3. q.deps = row.deps /\ q.required = row.required /\ q.status = row.status
      BY <2>2, Zenon DEF UnitRow
    <2> HIDE DEF q
    <2> QED
      BY <2>1, <2>2, <2>3, OneRowOpen, StillEffect
  <1>3. CASE InterruptUnit(tk)
    <2>1. /\ HoldsLease(tk) /\ unit' = Requeue(unit, {tk.unit}, 1)
          /\ task' = [task EXCEPT !.status = "paused"]
      BY <1>3, Zenon DEF InterruptUnit, WorkerCall
    <2>2. /\ {tk.unit} \subseteq With(unit, Open) /\ task.status = "running"
          /\ task \in TaskRow /\ TypeOK
      BY <2>1, HeldRow DEF Before
    <2>3. task'.status = "paused" /\ task'.total = task.total /\ task'.done = task.done
      BY <2>1, <2>2, TaskFields
    <2> QED
      BY <2>1, <2>2, <2>3, RequeueOpen, LiveEffect DEF Terminal
  <1> QED
    BY <1>0, <1>1, <1>2, <1>3, CompleteEffect, SettleUnitFailureEffect

-----------------------------------------------------------------------------
\* Every step

\* A step has the effect, and keeps the dependencies unless it splits a unit.
LEMMA StepEffect ==
    ASSUME Before, [Next]_vars
    PROVE  /\ Effect
           /\ Edges(unit, unit') \/ \E tk \in tokens : SplitUnit(tk)
  <1>1. CASE UNCHANGED vars
    <2>1. UNCHANGED <<task, unit>>
      BY <1>1 DEF vars
    <2>2. Edges(unit, unit') /\ SameDone(unit, unit') /\ NoFailure(unit, unit')
      BY <2>1 DEF Edges, SameDone, NoFailure
    <2> QED
      BY <2>1, <2>2, StillEffect
  <1>2. CASE UnitCall
    BY <1>2, UnitCallEffect, SplitEffect
  <1>3. CASE ClaimCall
    BY <1>3, ClaimUnitEffect, ClaimFailureEffect, Zenon DEF ClaimCall
  <1> QED
    BY <1>1, <1>2, <1>3, TickEffect, TaskCallEffect, PauseOrResumeEffect DEF Next

\* What is in flight after a step was so before, or has just been claimed.
LEMMA InFlightStep ==
    ASSUME WorkInv, [Next]_vars, NEW v \in Unit, unit'[v].status \in InFlight
    PROVE  \/ unit[v].status \in InFlight
           \/ /\ \E w \in Worker : ClaimUnit(w, v)
              /\ \A d \in unit[v].deps : unit'[d].status = "completed"
              /\ unit'[v].deps = unit[v].deps
  <1>0. LeaseInv /\ Before /\ TypeOK /\ AbsentUnclaimed
    BY DEF WorkInv, LeaseInv, Before
  <1>1. CASE Quiet
    BY <1>1, Zenon DEF Quiet, QuietRows, QuietRow
  <1>2. ASSUME NEW w \in Worker, NEW u \in Unit, ClaimUnit(w, u), unit[v].status \notin InFlight
        PROVE  /\ ClaimUnit(w, v)
               /\ \A d \in unit[v].deps : unit'[d].status = "completed"
               /\ unit'[v].deps = unit[v].deps
    BY <1>0, <1>2, ClaimUnitEffect DEF Edges
  <1>3. ASSUME NEW tk \in tokens, NEW r, CompleteUnit(tk, r)
        PROVE  unit[v].status \in InFlight
    BY <1>0, <1>3, CompleteEffect
  <1> QED
    BY <1>0, <1>1, <1>2, <1>3, StepIsQuietOrWork

\* What is completed by a step was in flight.
LEMMA CompletedStep ==
    ASSUME WorkInv, [Next]_vars, NEW v \in Unit, unit'[v].status = "completed"
    PROVE  unit[v].status \in InFlight \union {"completed"}
  <1>0. LeaseInv /\ Before /\ TypeOK /\ AbsentUnclaimed
    BY DEF WorkInv, LeaseInv, Before
  <1>1. CASE Quiet
    BY <1>1, Zenon DEF Quiet, QuietRows, QuietRow
  <1>2. ASSUME NEW w \in Worker, NEW u \in Unit, ClaimUnit(w, u)
        PROVE  unit[v].status \in InFlight \union {"completed"}
    <2>1. unit' = [RowsAtClaim EXCEPT ![u] = ClaimedRow(RowsAtClaim[u], w)]
      BY <1>2, Zenon DEF ClaimUnit
    <2>2. RowsAtClaim \in [Unit -> UnitRow] /\ SameDone(unit, RowsAtClaim)
      BY <1>0, RowsAtClaimFields
    <2>3. ClaimedRow(RowsAtClaim[u], w).status = "claimed"
      BY <2>2, ClaimedRowFields
    <2> QED
      BY <2>1, <2>2, <2>3 DEF SameDone
  <1>3. ASSUME NEW tk \in tokens, NEW r, CompleteUnit(tk, r)
        PROVE  unit[v].status \in InFlight \union {"completed"}
    BY <1>0, <1>3, CompleteEffect
  <1> QED
    BY <1>0, <1>1, <1>2, <1>3, StepIsQuietOrWork

\* Work starts on finished inputs, also after a split.
LEMMA DependenciesStep ==
    ASSUME WorkInv, [Next]_vars PROVE DependenciesFirst'
  <1>0. /\ LeaseInv /\ Before /\ TypeOK /\ DependenciesFirst
    BY DEF WorkInv, LeaseInv, Before
  <1> SUFFICES ASSUME NEW v \in Unit, unit'[v].status \in InFlight \union {"completed"},
                      NEW d \in unit'[v].deps
               PROVE  unit'[d].status = "completed"
    BY DEF DependenciesFirst, With
  <1>1. CASE \E w \in Worker : ClaimUnit(w, v) /\ unit'[v].status \in InFlight
                               /\ unit[v].status \notin InFlight
    BY <1>1, InFlightStep
  <1>2. CASE unit[v].status \in InFlight \union {"completed"}
    <2>1. \A e \in unit[v].deps : e \in Unit /\ unit[e].status = "completed"
      BY <1>0, <1>2 DEF DependenciesFirst, With, TypeOK, UnitRow
    <2>2. unit'[v].deps = unit[v].deps
      <3>1. CASE Edges(unit, unit')
        BY <3>1 DEF Edges
      <3>2. ASSUME NEW tk \in tokens, SplitUnit(tk) PROVE unit'[v].deps = unit[v].deps
        <4>1. /\ unit[tk.unit].status \in InFlight
              /\ tk.unit \notin unit[v].deps => unit'[v].deps = unit[v].deps
          BY <1>0, <3>2, SplitEffect
        <4>2. unit[tk.unit].status # "completed"
          BY <4>1 DEF InFlight
        <4> QED
          BY <2>1, <4>1, <4>2
      <3> QED
        BY <1>0, <3>1, <3>2, StepEffect
    <2> QED
      BY <1>0, <2>1, <2>2, FinalStep
  <1> QED
    BY <1>1, <1>2, InFlightStep, CompletedStep

\* Over the budget nothing is in flight: recording usage stops what is.
LEMMA BudgetStep ==
    ASSUME WorkInv, [Next]_vars PROVE OverBudgetStopsWork'
  <1>0. LeaseInv /\ Before /\ TypeOK /\ OverBudgetStopsWork
    BY DEF WorkInv, LeaseInv, Before
  <1> SUFFICES ASSUME used' > BudgetLimit PROVE With(unit, InFlight)' = {}
    BY DEF OverBudgetStopsWork
  <1>1. ASSUME NEW r \in Run, NEW n \in UsageSizes, RecordUsage(r, n)
        PROVE  With(unit, InFlight)' = {}
    <2>1. task' = BudgetTask /\ unit' = BudgetRows
      BY <1>1 DEF RecordUsage
    <2> QED
      BY <1>0, <2>1, BudgetEffect
  <1>2. ASSUME used' = used PROVE With(unit, InFlight)' = {}
    <2> SUFFICES ASSUME NEW v \in Unit, unit'[v].status \in InFlight PROVE FALSE
      BY DEF With
    <2>1. used > BudgetLimit /\ used \in Nat /\ BudgetLimit \in Nat
      BY <1>0, <1>2, NumberAssumption DEF TypeOK
    <2>2. unit[v].status \notin InFlight
      BY <1>0, <2>1 DEF OverBudgetStopsWork, With
    <2>3. PICK w \in Worker : ClaimUnit(w, v)
      BY <2>2, InFlightStep
    <2>4. used < BudgetLimit
      BY <2>3 DEF ClaimUnit, ClaimAdmitted
    <2> QED
      BY <2>1, <2>4
  <1>3. (\E r \in Run, n \in UsageSizes : RecordUsage(r, n)) \/ used' = used
    <2>1. UnitCall => used' = used
      <3> SUFFICES ASSUME NEW tk \in tokens,
                          \/ \E r \in Run : BindUnitRun(tk, r)
                          \/ RenewUnitLease(tk)
                          \/ \E r \in Run \union {NULL} : CompleteUnit(tk, r)
                          \/ SettleUnitFailure(tk)
                          \/ SplitUnit(tk)
                          \/ InterruptUnit(tk)
                   PROVE  used' = used
        BY Zenon DEF UnitCall
      <3>1. CASE SettleUnitFailure(tk)
        BY <3>1, Zenon DEF SettleUnitFailure, SettleRetry, SettleBlocked, SettleNeedsSplit,
                           SettleCanceled, SettleFailed
      <3>2. CASE SplitUnit(tk)
        BY <3>2, Zenon DEF SplitUnit, ExpandUnit
      <3> QED
        BY <3>1, <3>2, Zenon DEF BindUnitRun, RenewUnitLease, CompleteUnit, InterruptUnit
    <2>2. ClaimCall => used' = used
      BY Zenon DEF ClaimCall, ClaimUnit, ClaimNothing, ClaimAfterExhaustion
    <2>3. PauseOrResume => used' = used
      BY Zenon DEF PauseOrResume, Pause, ResumePaused, RetryFailed
    <2>4. Tick => used' = used
      BY Zenon DEF Tick, DeadlineElapses, AutoResumeFallsDue, LeaseExpires, BackoffElapses
    <2>5. TaskCall => used' = used \/ \E r \in Run, n \in UsageSizes : RecordUsage(r, n)
      BY Zenon DEF TaskCall, Start, ObserveDeadline, ExpireTask, ClaimOverBudget, RequestCancel,
                   ObserveCancel, Cancel, CancelTask, Fail, FinalizeIfComplete, RecoverAfterRestart
    <2>6. UNCHANGED vars => used' = used
      BY DEF vars
    <2> QED
      BY <2>1, <2>2, <2>3, <2>4, <2>5, <2>6 DEF Next
  <1> QED
    BY <1>1, <1>2, <1>3

\* A failed task stays without work, and a completed one stays as it is.
LEMMA EndStep ==
    ASSUME WorkInv, [Next]_vars PROVE FailedIdle' /\ CompletedEarned'
  <1>0. LeaseInv /\ Before /\ TypeOK /\ FailedIdle /\ CompletedEarned /\ Ends
    BY StepEffect DEF WorkInv, LeaseInv, Before, Effect
  <1>1. FailedIdle'
    <2> SUFFICES ASSUME task'.status = "failed", task.status = "failed",
                        NEW v \in Unit, unit'[v].status \in InFlight
                 PROVE  FALSE
      BY <1>0 DEF FailedIdle, Ends, With
    <2>1. unit[v].status \notin InFlight
      BY <1>0 DEF FailedIdle, With
    <2>2. PICK w \in Worker : ClaimUnit(w, v)
      BY <2>1, InFlightStep
    <2> QED
      BY <2>2 DEF ClaimUnit, ClaimAdmitted
  <1>2. CompletedEarned'
    <2> SUFFICES ASSUME task.status = "completed", task'.cancelRequested = task.cancelRequested
                 PROVE  Earned'
      BY <1>0 DEF CompletedEarned, Ends
    <2>1. ~\E tk \in tokens : SplitUnit(tk)
      BY Zenon DEF SplitUnit, ExpandUnit, WorkerCall, HoldsLease
    <2>2. Edges(unit, unit')
      BY <1>0, <2>1, StepEffect
    <2>3. \A u \in RequiredUnits(unit) : unit'[u].status = "completed"
      BY <1>0, FinalStep DEF CompletedEarned, Earned, RequiredUnits
    <2>4. RequiredUnits(unit)' = RequiredUnits(unit)
      BY <2>2 DEF Edges, RequiredUnits
    <2> QED
      BY <1>0, <2>3, <2>4 DEF CompletedEarned, Earned
  <1> QED
    BY <1>1, <1>2

\* A new task has done nothing.
LEMMA WorkInit == Init => WorkInv
  <1> SUFFICES ASSUME Init PROVE WorkInv
    OBVIOUS
  <1>1. ASSUME NEW u \in Unit
        PROVE  /\ unit[u].status \in {"pending", "absent"}
               /\ unit[u].required = (u \in InitialUnit \ Optional)
    BY Zenon DEF Init, InitialRow
  <1>2. /\ task.status = "pending" /\ task.done = 0
        /\ task.total = Cardinality(InitialUnit \ Optional) /\ used = 0
    BY DEF Init
  <1>3. RequiredUnits(unit) = InitialUnit \ Optional
    BY <1>1, UnitAssumption DEF RequiredUnits
  <1>4. With(unit, InFlight \union {"completed"}) = {} /\ With(unit, {"completed"}) = {}
    BY <1>1 DEF With, InFlight
  <1>5. Counted(task, unit)
    BY <1>2, <1>3, <1>4, FS_EmptySet DEF Counted
  <1>6. LiveTask
    BY <1>1 DEF LiveTask
  <1>7. FailedIdle /\ CompletedEarned /\ OverBudgetStopsWork /\ DependenciesFirst
    BY <1>2, <1>4, NumberAssumption
       DEF FailedIdle, CompletedEarned, OverBudgetStopsWork, DependenciesFirst
  <1> QED
    BY <1>5, <1>6, <1>7, LeaseInit DEF WorkInv

\* The inductive invariant survives every step.
LEMMA WorkStep == WorkInv /\ [Next]_vars => WorkInv'
  <1> SUFFICES ASSUME WorkInv, [Next]_vars PROVE WorkInv'
    OBVIOUS
  <1>1. LeaseInv /\ Before
    BY DEF WorkInv, LeaseInv, Before
  <1>2. Counted(task', unit') /\ LiveTask'
    BY <1>1, StepEffect DEF Effect
  <1>3. LeaseInv'
    BY <1>1, LeaseStep
  <1> QED
    BY <1>2, <1>3, EndStep, DependenciesStep, BudgetStep DEF WorkInv

-----------------------------------------------------------------------------
\* Leases: only a claim makes one live

\* No lease becomes live.
Releases(p, q) == \A u \in Unit : q[u].lease = "live" => p[u].lease = "live"

\* The bulk updates end leases.
LEMMA BulkReleases ==
    ASSUME NEW rows \in [Unit -> UnitRow], NEW S, NEW status, NEW extra
    PROVE  Releases(rows, Settle(rows, S, status)) /\ Releases(rows, Requeue(rows, S, extra))
  <1> SUFFICES ASSUME NEW u \in Unit
               PROVE  /\ Settle(rows, S, status)[u].lease = "live" => rows[u].lease = "live"
                      /\ Requeue(rows, S, extra)[u].lease = "live" => rows[u].lease = "live"
    BY Zenon DEF Releases
  <1>1. rows[u] \in UnitRow
    OBVIOUS
  <1>2. CASE u \in S
    <2>1. /\ Settle(rows, S, status)[u] =
                [rows[u] EXCEPT !.status = status, !.worker = NULL, !.lease = "none"]
          /\ Requeue(rows, S, extra)[u] =
                [rows[u] EXCEPT !.status = "pending", !.worker = NULL, !.lease = "none",
                                !.maxAttempts = @ + extra]
      BY <1>2, Zenon DEF Settle, Requeue
    <2>2. Settle(rows, S, status)[u].lease = "none" /\ Requeue(rows, S, extra)[u].lease = "none"
      BY <1>1, <2>1, Zenon DEF UnitRow
    <2> QED
      BY <2>2
  <1>3. CASE u \notin S
    BY <1>3, Zenon DEF Settle, Requeue
  <1> QED
    BY <1>2, <1>3

\* So do the updates of one row.
LEMMA OneRowReleases ==
    ASSUME NEW rows \in [Unit -> UnitRow], NEW u \in Unit, NEW q,
           q.lease = "live" => rows[u].lease = "live"
    PROVE  Releases(rows, [rows EXCEPT ![u] = q])
  BY DEF Releases

\* One after the other.
LEMMA ReleasesCompose ==
    ASSUME NEW p, NEW q, NEW r, Releases(p, q), Releases(q, r)
    PROVE  Releases(p, r)
  BY Zenon DEF Releases

\* The rows that settled failures and results leave.
LEMMA FailureRowReleases ==
    ASSUME NEW row \in UnitRow, NEW n, NEW m, NEW tk, NEW r
    PROVE  /\ BlockedRow(row, n, m).lease = "none"
           /\ WaitingRow(row, n, m).lease = "none"
           /\ CompletedRow(row, tk, r).lease = "none"
           /\ [row EXCEPT !.waited = 0, !.backoff = FALSE].lease = row.lease
           /\ [row EXCEPT !.status = "running", !.run = r].lease = row.lease
           /\ [row EXCEPT !.backoff = FALSE].lease = row.lease
           /\ [row EXCEPT !.lease = "live"].lease = "live"
           /\ [row EXCEPT !.lease = "expired"].lease = "expired"
  <1> DEFINE k == row.maxAttempts + m
             l == row.waited + n
             run == IF r = NULL THEN row.run ELSE r
  <1>1. BlockedRow(row, n, m) = [row EXCEPT !.status = "blocked", !.worker = NULL,
             !.lease = "none", !.backoff = FALSE, !.waited = n, !.maxAttempts = k]
    BY Zenon DEF BlockedRow
  <1>2. WaitingRow(row, n, m) = [row EXCEPT !.status = "waiting_retry", !.worker = NULL,
             !.lease = "none", !.backoff = TRUE, !.waited = l, !.maxAttempts = k]
    BY Zenon DEF WaitingRow
  <1>3. CompletedRow(row, tk, r) = [row EXCEPT !.status = "completed", !.worker = NULL,
             !.lease = "none", !.settledBy = tk.worker, !.output = tk.epoch, !.run = run]
    BY Zenon DEF CompletedRow
  <1> HIDE DEF k, l, run
  <1> QED
    BY <1>1, <1>2, <1>3, Zenon DEF UnitRow

\* Settling a failure ends the lease presented.
LEMMA SettleReleases ==
    ASSUME Before, NEW tk \in tokens, SettleUnitFailure(tk)
    PROVE  Releases(unit, unit')
  <1> DEFINE row == unit[tk.unit]
             ended(status) == Settle(unit, {tk.unit}, status)
  <1>0. HoldsLease(tk)
    BY Zenon DEF SettleUnitFailure, SettleRetry, SettleBlocked, SettleNeedsSplit,
                 SettleCanceled, SettleFailed, WorkerCall
  <1>1. tk.unit \in Unit /\ row \in UnitRow /\ unit \in [Unit -> UnitRow]
    BY <1>0, HeldRow
  <1>2. ASSUME NEW d, SettleRetry(tk, d) PROVE Releases(unit, unit')
    <2>1. PICK delay : unit' = [unit EXCEPT ![tk.unit] = WaitingRow(row, delay, Grant(row, d))]
      BY <1>2, Zenon DEF SettleRetry
    <2> DEFINE q == WaitingRow(row, delay, Grant(row, d))
    <2>2. q.lease = "none"
      BY <1>1, FailureRowReleases
    <2>3. unit' = [unit EXCEPT ![tk.unit] = q]
      BY <2>1
    <2> HIDE DEF q
    <2> QED
      BY <1>1, <2>2, <2>3, OneRowReleases
  <1>3. ASSUME NEW d, NEW systemic \in BOOLEAN, SettleBlocked(tk, d, systemic)
        PROVE  Releases(unit, unit')
    <2> DEFINE retry == d \in {"retry_attempt", "resume_checkpoint"}
               n == IF retry THEN row.waited ELSE 0
               q == BlockedRow(row, n, Grant(row, d))
               rows == [unit EXCEPT ![tk.unit] = q]
               sibling == With(unit, InFlight) \ {tk.unit}
    <2>1. unit' = Requeue(rows, sibling, 1) \/ unit' = rows
      BY <1>3, Zenon DEF SettleBlocked
    <2>2. q \in UnitRow
      <3>1. n \in Nat /\ Grant(row, d) \in Nat
        BY <1>1 DEF Grant, UnitRow
      <3> QED
        BY <1>1, <3>1, FailureRowType
    <2> HIDE DEF n
    <2>3. q.lease = "none"
      BY <1>1, FailureRowReleases
    <2> HIDE DEF q
    <2>4. Releases(unit, rows) /\ rows \in [Unit -> UnitRow]
      BY <1>1, <2>2, <2>3, OneRowReleases
    <2> HIDE DEF rows, sibling
    <2>5. Releases(rows, Requeue(rows, sibling, 1))
      BY <2>4, BulkReleases
    <2> QED
      BY <2>1, <2>4, <2>5, ReleasesCompose
  <1>4. ASSUME NEW status \in {"needs_split", "canceled", "failed"}
        PROVE  Releases(unit, RowsEnded(tk, status)) /\ RowsEnded(tk, status) \in [Unit -> UnitRow]
    <2> DEFINE rows == Settle(unit, {tk.unit}, status)
               q == [rows[tk.unit] EXCEPT !.waited = 0, !.backoff = FALSE]
    <2>1. rows \in [Unit -> UnitRow] /\ Releases(unit, rows)
      BY <1>1, SettleType, StatusType, BulkReleases
    <2>2. RowsEnded(tk, status) = [rows EXCEPT ![tk.unit] = q]
      BY <1>1, <2>1, Zenon DEF RowsEnded
    <2> HIDE DEF rows
    <2>3. q.lease = rows[tk.unit].lease
      BY <1>1, <2>1, FailureRowReleases
    <2> HIDE DEF q
    <2>4. Releases(rows, [rows EXCEPT ![tk.unit] = q])
      BY <1>1, <2>1, <2>3, OneRowReleases
    <2>5. Releases(unit, RowsEnded(tk, status))
      BY <2>1, <2>2, <2>4, ReleasesCompose
    <2> QED
      BY <1>0, <2>5, RowsEndedFields
  <1>5. CASE SettleNeedsSplit(tk) \/ SettleCanceled(tk)
    <2>1. unit' = RowsEnded(tk, "needs_split") \/ unit' = RowsEnded(tk, "canceled")
      BY <1>5 DEF SettleNeedsSplit, SettleCanceled
    <2> QED
      BY <1>4, <2>1
  <1>6. CASE SettleFailed(tk)
    <2> DEFINE rows == RowsEnded(tk, "failed")
               S == With(unit, InFlight \union {"pending"}) \ {tk.unit}
    <2>1. unit' = Settle(rows, S, "canceled")
      BY <1>6, Zenon DEF SettleFailed
    <2>2. Releases(unit, rows) /\ rows \in [Unit -> UnitRow]
      BY <1>4
    <2> HIDE DEF rows, S
    <2>3. Releases(rows, Settle(rows, S, "canceled"))
      BY <2>2, BulkReleases
    <2> QED
      BY <2>1, <2>2, <2>3, ReleasesCompose
  <1> QED
    BY <1>2, <1>3, <1>5, <1>6, Zenon DEF SettleUnitFailure

\* No other call with a lease gives one back its life: a renewal needs it alive.
LEMMA UnitCallReleases == ASSUME Before, UnitCall PROVE Releases(unit, unit')
  <1>0. PICK tk \in tokens :
           \/ \E r \in Run : BindUnitRun(tk, r)
           \/ RenewUnitLease(tk)
           \/ \E r \in Run \union {NULL} : CompleteUnit(tk, r)
           \/ SettleUnitFailure(tk)
           \/ SplitUnit(tk)
           \/ InterruptUnit(tk)
    BY Zenon DEF UnitCall
  <1> DEFINE row == unit[tk.unit]
  <1>1. ASSUME HoldsLease(tk)
        PROVE  tk.unit \in Unit /\ row \in UnitRow /\ unit \in [Unit -> UnitRow] /\ row.lease = "live"
    BY <1>1, HeldRow DEF HoldsLease
  <1>2. ASSUME NEW q, HoldsLease(tk), unit' = [unit EXCEPT ![tk.unit] = q]
        PROVE  Releases(unit, unit')
    BY <1>1, <1>2, OneRowReleases
  <1>3. ASSUME NEW r, BindUnitRun(tk, r) \/ RenewUnitLease(tk) \/ CompleteUnit(tk, r)
        PROVE  Releases(unit, unit')
    <2>1. HoldsLease(tk) /\ \E q : unit' = [unit EXCEPT ![tk.unit] = q]
      BY <1>3, Zenon DEF BindUnitRun, RenewUnitLease, CompleteUnit, WorkerCall
    <2> QED
      BY <1>2, <2>1
  <1>4. CASE InterruptUnit(tk)
    <2>1. unit' = Requeue(unit, {tk.unit}, 1) /\ HoldsLease(tk)
      BY <1>4, Zenon DEF InterruptUnit, WorkerCall
    <2> QED
      BY <1>1, <2>1, BulkReleases
  <1>5. CASE SplitUnit(tk)
    <2>1. PICK children, deps, needed, replacement : ExpandUnit(tk, children, deps, needed, replacement)
      BY <1>5, Zenon DEF SplitUnit
    <2> DEFINE rows == ExpandedRows(tk.unit, children, deps, needed, replacement)
    <2>2. HoldsLease(tk) /\ unit' = rows
      BY <2>1, Zenon DEF ExpandUnit, WorkerCall
    <2>3. ASSUME NEW v \in Unit, v # tk.unit, rows[v].lease = "live" PROVE unit[v].lease = "live"
      <3>0. unit[v] \in UnitRow
        BY <1>1, <2>2
      <3>1. CASE v \in children
        <4>1. rows[v] = [InitialRow(v) EXCEPT !.status = "pending", !.required = v \in needed,
                                              !.deps = unit[tk.unit].deps \union deps[v]]
          BY <2>3, <3>1, Zenon DEF ExpandedRows
        <4>2. rows[v].lease = "none"
          BY <4>1, Zenon DEF InitialRow
        <4> QED
          BY <2>3, <4>2
      <3>2. CASE v \notin children /\ tk.unit \in unit[v].deps
        <4>1. rows[v] = [unit[v] EXCEPT !.deps = (@ \ {tk.unit}) \union replacement]
          BY <2>3, <3>2, Zenon DEF ExpandedRows
        <4>2. rows[v].lease = unit[v].lease
          BY <3>0, <4>1, Zenon DEF UnitRow
        <4> QED
          BY <2>3, <4>2
      <3>3. CASE v \notin children /\ tk.unit \notin unit[v].deps
        <4>1. rows[v] = unit[v]
          BY <2>3, <3>3, Zenon DEF ExpandedRows
        <4> QED
          BY <2>3, <4>1
      <3> QED
        BY <3>1, <3>2, <3>3
    <2> HIDE DEF rows
    <2> QED
      BY <1>1, <2>2, <2>3 DEF Releases
  <1> QED
    BY <1>0, <1>3, <1>4, <1>5, SettleReleases

\* Every step but a claim.
LEMMA StepReleases ==
    ASSUME Before, [Next]_vars
    PROVE  Releases(unit, unit') \/ \E w \in Worker, u \in Unit : ClaimUnit(w, u)
  <1>0. unit \in [Unit -> UnitRow] /\ RowsAtClaim \in [Unit -> UnitRow]
    BY RowsAtClaimFields DEF Before, TypeOK
  <1>s. UNCHANGED unit => Releases(unit, unit')
    BY DEF Releases
  <1>1. CASE UNCHANGED vars
    BY <1>s, <1>1 DEF vars
  <1>2. CASE Tick
    <2>1. ASSUME NEW u \in Unit, LeaseExpires(u) PROVE Releases(unit, unit')
      <3> DEFINE q == [unit[u] EXCEPT !.lease = "expired"]
      <3>1. unit' = [unit EXCEPT ![u] = q]
        BY <2>1, Zenon DEF LeaseExpires
      <3>2. q.lease = "expired"
        BY <1>0, FailureRowReleases
      <3> HIDE DEF q
      <3> QED
        BY <1>0, <3>1, <3>2, OneRowReleases
    <2>2. ASSUME NEW u \in Unit, BackoffElapses(u) PROVE Releases(unit, unit')
      <3> DEFINE q == [unit[u] EXCEPT !.backoff = FALSE]
      <3>1. unit' = [unit EXCEPT ![u] = q]
        BY <2>2, Zenon DEF BackoffElapses
      <3>2. q.lease = unit[u].lease
        BY <1>0, FailureRowReleases
      <3> HIDE DEF q
      <3> QED
        BY <1>0, <3>1, <3>2, OneRowReleases
    <2> QED
      BY <1>s, <1>2, <2>1, <2>2 DEF Tick, DeadlineElapses, AutoResumeFallsDue
  <1>3. ASSUME NEW S, NEW status, unit' = Settle(unit, S, status) PROVE Releases(unit, unit')
    BY <1>0, <1>3, BulkReleases
  <1>4. ASSUME NEW S, NEW extra, unit' = Requeue(unit, S, extra) PROVE Releases(unit, unit')
    BY <1>0, <1>4, BulkReleases
  <1>5. CASE TaskCall
    <2>1. CASE Start \/ RequestCancel \/ FinalizeIfComplete
      <3>1. UNCHANGED unit
        BY <2>1, Zenon DEF Start, RequestCancel, FinalizeIfComplete
      <3> QED
        BY <1>s, <3>1
    <2>2. CASE ObserveDeadline \/ ObserveCancel \/ Cancel \/ ClaimOverBudget
      <3>1. \E status : unit' = Settle(unit, With(unit, Open), status)
        BY <2>2, Zenon DEF ObserveDeadline, ExpireTask, ObserveCancel, Cancel, CancelTask,
                           ClaimOverBudget, BudgetRows
      <3> QED
        BY <1>3, <3>1
    <2>3. CASE \E r \in Run, n \in UsageSizes : RecordUsage(r, n)
      <3>1. UNCHANGED unit \/ \E status : unit' = Settle(unit, With(unit, Open), status)
        BY <2>3, Zenon DEF RecordUsage, BudgetRows
      <3> QED
        BY <1>s, <1>3, <3>1
    <2>4. CASE Fail
      <3>1. PICK S, T : unit' = Settle(Settle(unit, S, "failed"), T, "canceled")
        BY <2>4, Zenon DEF Fail
      <3>2. Settle(unit, S, "failed") \in [Unit -> UnitRow]
        BY <1>0, SettleType, StatusType
      <3>3. Releases(unit, Settle(unit, S, "failed")) /\ Releases(Settle(unit, S, "failed"), unit')
        BY <1>0, <3>1, <3>2, BulkReleases
      <3> QED
        BY <3>3, ReleasesCompose
    <2>5. CASE RecoverAfterRestart
      BY <1>4, <2>5 DEF RecoverAfterRestart
    <2> QED
      BY <1>5, <2>1, <2>2, <2>3, <2>4, <2>5 DEF TaskCall
  <1>6. CASE PauseOrResume
    <2>1. ASSUME NEW scope, Pause(scope) PROVE Releases(unit, unit')
      BY <1>4, <2>1 DEF Pause
    <2>2. ASSUME NEW extra, NEW source, RetryFailed(extra, source) PROVE Releases(unit, unit')
      BY <1>4, <2>2, Zenon DEF RetryFailed
    <2>3. ASSUME NEW source, ResumePaused(source) PROVE Releases(unit, unit')
      <3> DEFINE rows == Requeue(unit, With(unit, {"blocked"}), 1)
      <3>1. Releases(unit, rows) /\ rows \in [Unit -> UnitRow]
        BY <1>0, BulkReleases, RequeueType
      <3>2. \A u \in Unit : unit'[u] \in {rows[u], [rows[u] EXCEPT !.backoff = FALSE, !.waited = 0]}
        BY <2>3, Zenon DEF ResumePaused, ResumedRows
      <3> HIDE DEF rows
      <3>3. \A u \in Unit : [rows[u] EXCEPT !.backoff = FALSE, !.waited = 0].lease = rows[u].lease
        BY <3>1, Zenon DEF UnitRow
      <3> QED
        BY <3>1, <3>2, <3>3 DEF Releases
    <2> QED
      BY <1>6, <2>1, <2>2, <2>3 DEF PauseOrResume
  <1>7. CASE ClaimNothing \/ ClaimAfterExhaustion
    <2>1. Releases(unit, RowsAtClaim)
      BY <1>0, BulkReleases DEF RowsAtClaim
    <2>2. \/ unit' = RowsAtClaim
          \/ unit' = Settle(RowsAtClaim, With(RowsAtClaim, Open), "canceled")
      BY <1>7, Zenon DEF ClaimNothing, ClaimAfterExhaustion
    <2>3. Releases(RowsAtClaim, Settle(RowsAtClaim, With(RowsAtClaim, Open), "canceled"))
      BY <1>0, BulkReleases
    <2> QED
      BY <2>1, <2>2, <2>3, ReleasesCompose
  <1> QED
    BY <1>1, <1>2, <1>5, <1>6, <1>7, UnitCallReleases DEF Next, ClaimCall

-----------------------------------------------------------------------------
\* Refinement: what the ledger of WorkLedger sees of a step

Phase(t) == IF t.status \in {"pending", "paused"} THEN "idle"
            ELSE IF t.status = "running" THEN "open" ELSE t.status

RowHolder(r) == IF r.status \in InFlight /\ r.lease = "live" THEN r.worker ELSE NULL

\* An id without a row is not required.
AbsentFree == \A u \in Unit : unit[u].status = "absent" => ~unit[u].required

RefInv == WorkInv /\ AbsentFree

\* Units are let go, or stay with whom they are.
LetGo == \A u \in Unit : RowHolder(unit'[u]) \in {RowHolder(unit[u]), NULL}

\* Everything was required and is completed, and nobody is touched by the end.
Completes == /\ Phase(task) = "open" /\ Phase(task') = "completed"
             /\ \A u \in RequiredUnits(unit) : unit[u].status = "completed"
             /\ UNCHANGED unit

\* Where a task may go from where it is.
Goes == \/ Phase(task') = Phase(task)
        \/ Phase(task) \in {"idle", "failed"} /\ Phase(task') = "open"
        \/ Phase(task) = "open" /\ Phase(task') = "idle"
        \/ Phase(task) \in {"idle", "open"} /\ Phase(task') = "failed"
        \/ Phase(task) \in {"idle", "open", "failed"} /\ Phase(task') = "canceled"
        \/ Completes

\* A quiet step that makes no lease live lets go.
LEMMA QuietLetsGo == ASSUME Quiet, Releases(unit, unit') PROVE LetGo
  <1> SUFFICES ASSUME NEW u \in Unit PROVE RowHolder(unit'[u]) \in {RowHolder(unit[u]), NULL}
    BY DEF LetGo
  <1>1. /\ unit'[u].status \in InFlight => unit[u].status \in InFlight /\ unit'[u].worker = unit[u].worker
        /\ unit'[u].lease = "live" => unit[u].lease = "live"
    BY Zenon DEF Quiet, QuietRows, QuietRow, Releases
  <1> QED
    BY <1>1 DEF RowHolder

\* What calls on the task do to its phase.
LEMMA TaskCallGoes == ASSUME RefInv, TaskCall PROVE Goes
  <1>0. TypeOK /\ Before /\ task \in TaskRow /\ CompletedEarned
    BY DEF RefInv, WorkInv, LeaseInv, Before, TypeOK
  <1>t. task.status \in Terminal \union {"pending", "running", "paused"}
    BY <1>0 DEF TaskRow
  <1>f. \A s : [task EXCEPT !.status = s].status = s
    BY <1>0, StatusFields
  <1>1. CASE Start
    BY <1>1, <1>f DEF Start, Goes, Phase
  <1>2. ASSUME ExpireTask PROVE Goes
    <2> DEFINE t == Refresh(task, Settle(unit, With(unit, Open), "failed"))
    <2>1. task' = IF t.status \in Terminal THEN t ELSE [t EXCEPT !.status = "failed"]
      BY <1>2, Zenon DEF ExpireTask
    <2>2. t \in TaskRow /\ t.status = task.status
      BY <1>0, RefreshType
    <2> HIDE DEF t
    <2>3. task'.status = IF task.status \in Terminal THEN task.status ELSE "failed"
      BY <2>1, <2>2, StatusFields
    <2> QED
      BY <1>t, <2>3 DEF Goes, Phase, Terminal
  <1>3. ASSUME task' = BudgetTask PROVE Goes
    <2> DEFINE t == Refresh(task, BudgetRows)
    <2>1. task' = IF t.status \in Terminal \/ (BudgetPauses /\ t.status = "paused") THEN t
                  ELSE IF BudgetPauses THEN [t EXCEPT !.status = "paused", !.reason = "budget"]
                  ELSE [t EXCEPT !.status = "failed"]
      BY <1>3, Zenon DEF BudgetTask
    <2>2. t \in TaskRow /\ t.status = task.status
      BY <1>0, RefreshType
    <2> HIDE DEF t
    <2>3. /\ [t EXCEPT !.status = "paused", !.reason = "budget"].status = "paused"
          /\ [t EXCEPT !.status = "failed"].status = "failed"
      BY <2>2, TaskFields
    <2>4. /\ task'.status \in {task.status, "paused", "failed"}
          /\ task.status \in Terminal => task'.status = task.status
      BY <2>1, <2>2, <2>3
    <2> QED
      BY <1>t, <2>4 DEF Goes, Phase, Terminal
  <1>4. CASE ObserveDeadline \/ ClaimOverBudget
    BY <1>2, <1>3, <1>4 DEF ObserveDeadline, ClaimOverBudget
  <1>5. CASE \E r \in Run, n \in UsageSizes : RecordUsage(r, n)
    <2>1. task' = BudgetTask \/ task' = task
      BY <1>5, Zenon DEF RecordUsage
    <2> QED
      BY <1>3, <2>1 DEF Goes
  <1>6. CASE RequestCancel
    <2>1. task'.status = task.status
      BY <1>0, <1>6, TaskFields DEF RequestCancel
    <2> QED
      BY <2>1 DEF Goes, Phase
  <1>7. CASE ObserveCancel \/ Cancel
    <2>1. task'.status = "canceled"
      BY <1>f, <1>7 DEF ObserveCancel, Cancel, CancelTask, CanceledTask
    <2>2. task.status # "completed"
      BY <1>0, <1>7 DEF ObserveCancel, Cancel, CompletedEarned, Earned, Terminal
    <2> QED
      BY <1>t, <2>1, <2>2 DEF Goes, Phase, Terminal
  <1>8. CASE Fail
    <2>1. PICK rows : task' = [Refresh(task, rows) EXCEPT !.status = "failed"]
      BY <1>8, Zenon DEF Fail
    <2>2. task'.status = "failed" /\ task.status \notin Terminal
      BY <1>0, <1>8, <2>1, RefreshType, StatusFields DEF Fail
    <2> QED
      BY <1>t, <2>2 DEF Goes, Phase, Terminal
  <1>9. CASE FinalizeIfComplete
    <2>1. task.status = "running" /\ UNCHANGED unit
      BY <1>9, Zenon DEF FinalizeIfComplete
    <2>2. PICK target \in {"failed", "completed", "paused", "running"} :
              task' = [task EXCEPT !.status = target]
      BY <1>9, Zenon DEF FinalizeIfComplete
    <2>3. task'.status = target
      BY <1>f, <2>2
    <2>4. Ends
      BY <1>0, <1>9, FinalizeEffect DEF Effect
    <2>5. target = "completed" => \A u \in RequiredUnits(unit) : unit[u].status = "completed"
      BY <2>1, <2>3, <2>4 DEF Ends, Earned, RequiredUnits
    <2> QED
      BY <2>1, <2>3, <2>5 DEF Goes, Completes, Phase
  <1>10. CASE RecoverAfterRestart
    <2>1. task.status = "running" /\ task'.status = "paused"
      BY <1>0, <1>10, PauseFields DEF RecoverAfterRestart
    <2> QED
      BY <2>1 DEF Goes, Phase
  <1> QED
    BY <1>1, <1>4, <1>5, <1>6, <1>7, <1>8, <1>9, <1>10 DEF TaskCall

\* What the other calls do to it.
LEMMA StepGoes == ASSUME RefInv, [Next]_vars PROVE Goes
  <1>0. TypeOK /\ Before /\ task \in TaskRow
    BY DEF RefInv, WorkInv, LeaseInv, Before, TypeOK
  <1>u. UNCHANGED task => Goes
    BY DEF Goes
  <1>1. CASE UNCHANGED vars
    BY <1>u, <1>1 DEF vars
  <1>2. CASE Tick
    <2>1. UNCHANGED task \/ AutoResumeFallsDue
      BY <1>2, Zenon DEF Tick, DeadlineElapses, LeaseExpires, BackoffElapses
    <2>2. AutoResumeFallsDue => Goes
      BY <1>0, DueFields DEF Goes, Phase
    <2> QED
      BY <1>u, <2>1, <2>2
  <1>3. CASE PauseOrResume
    <2>1. ASSUME NEW scope \in {"user", "system"}, Pause(scope) PROVE Goes
      <3>1. task.status \in {"pending", "running"}
        BY <2>1 DEF Pause
      <3>2. task'.status = "paused"
        <4>1. CASE scope = "system"
          <5>1. PauseBySystem
            BY <2>1, <4>1, Zenon DEF Pause
          <5> QED
            BY <1>0, <5>1, PauseFields
        <4>2. CASE scope = "user"
          <5>1. task' = [task EXCEPT !.status = "paused", !.reason = scope]
            BY <2>1, <4>2, Zenon DEF Pause
          <5> QED
            BY <1>0, <5>1, TaskFields
        <4> QED
          BY <4>1, <4>2
      <3> QED
        BY <3>1, <3>2 DEF Goes, Phase
    <2>c. \A source : ClearReason(task, source) \in TaskRow
      BY <1>0, Zenon DEF ClearReason, TaskRow
    <2>2. ASSUME NEW source, ResumePaused(source) PROVE Goes
      <3>1. task.status = "paused" /\ task' = [ClearReason(task, source) EXCEPT !.status = "running"]
        BY <2>2, Zenon DEF ResumePaused
      <3>2. task'.status = "running"
        BY <2>c, <3>1, TaskFields
      <3> QED
        BY <3>1, <3>2 DEF Goes, Phase
    <2>3. ASSUME NEW extra, NEW source, RetryFailed(extra, source) PROVE Goes
      <3> DEFINE t == ClearReason(task, source)
      <3>1. task.status = "failed" /\ task' = [t EXCEPT !.status = "running", !.failed = 0]
        BY <2>3, Zenon DEF RetryFailed
      <3>2. t \in TaskRow
        BY <2>c
      <3> HIDE DEF t
      <3>3. task'.status = "running"
        BY <3>1, <3>2, Zenon DEF TaskRow
      <3> QED
        BY <3>1, <3>3 DEF Goes, Phase
    <2> QED
      BY <1>3, <2>1, <2>2, <2>3 DEF PauseOrResume
  <1>4. CASE ClaimCall
    <2>1. CASE ClaimAfterExhaustion
      <3>1. PICK rows : task' = [Refresh(task, rows) EXCEPT !.status = "failed"]
        BY <2>1, Zenon DEF ClaimAfterExhaustion
      <3>2. task'.status = "failed" /\ task.status = "running"
        BY <1>0, <2>1, <3>1, RefreshType, StatusFields DEF ClaimAfterExhaustion, ClaimAdmitted
      <3> QED
        BY <3>2 DEF Goes, Phase
    <2>2. ClaimNothing \/ (\E w \in Worker, u \in Unit : ClaimUnit(w, u)) => UNCHANGED task
      BY Zenon DEF ClaimNothing, ClaimUnit
    <2> QED
      BY <1>4, <1>u, <2>1, <2>2 DEF ClaimCall
  <1>5. ASSUME NEW tk \in tokens, HoldsLease(tk), task'.status \in {"running", "paused", "failed", "canceled"}
        PROVE  Goes
    <2>1. task.status = "running"
      BY <1>5 DEF HoldsLease
    <2> QED
      BY <1>5, <2>1 DEF Goes, Phase
  <1>6. ASSUME NEW tk \in tokens, SettleUnitFailure(tk) PROVE Goes
    <2>0. HoldsLease(tk)
      BY <1>6, Zenon DEF SettleUnitFailure, SettleRetry, SettleBlocked, SettleNeedsSplit,
                         SettleCanceled, SettleFailed, WorkerCall
    <2>1. ASSUME NEW d, SettleRetry(tk, d) PROVE UNCHANGED task
      BY <2>1, Zenon DEF SettleRetry
    <2>2. ASSUME NEW d, NEW systemic \in BOOLEAN, SettleBlocked(tk, d, systemic)
          PROVE  PauseBySystem \/ UNCHANGED task
      BY <2>2, Zenon DEF SettleBlocked
    <2>3. SettleNeedsSplit(tk) => UNCHANGED task
      BY DEF SettleNeedsSplit
    <2>4. SettleCanceled(tk) => task'.status = "canceled"
      BY <1>0, TaskFields DEF SettleCanceled, CanceledTask
    <2>5. ASSUME SettleFailed(tk) PROVE task'.status = "failed"
      <3> DEFINE n == task.failed + 1
      <3>1. task' = [task EXCEPT !.status = "failed", !.failed = n]
        BY <2>5, Zenon DEF SettleFailed
      <3> HIDE DEF n
      <3> QED
        BY <1>0, <3>1, Zenon DEF TaskRow
    <2>6. UNCHANGED task \/ task'.status \in {"paused", "failed", "canceled"}
      <3>1. PauseBySystem => task'.status = "paused"
        BY <1>0, PauseFields
      <3> QED
        BY <1>6, <2>1, <2>2, <2>3, <2>4, <2>5, <3>1, Zenon DEF SettleUnitFailure
    <2> QED
      BY <1>5, <1>u, <2>0, <2>6
  <1>7. ASSUME NEW tk \in tokens, InterruptUnit(tk) PROVE Goes
    <2>1. HoldsLease(tk) /\ task' = [task EXCEPT !.status = "paused"]
      BY <1>7, Zenon DEF InterruptUnit, WorkerCall
    <2> QED
      BY <1>0, <1>5, <2>1, TaskFields
  <1>8. ASSUME NEW tk \in tokens, NEW r, CompleteUnit(tk, r) PROVE Goes
    <2>1. PICK rows : HoldsLease(tk) /\ task' = Refresh(task, rows)
      BY <1>8, Zenon DEF CompleteUnit, WorkerCall
    <2>2. task'.status = task.status
      BY <1>0, <2>1, RefreshFields
    <2> QED
      BY <2>2 DEF Goes, Phase
  <1>9. ASSUME NEW tk \in tokens, SplitUnit(tk) PROVE Goes
    <2>1. task'.status = task.status
      BY <1>0, <1>9, SplitEffect
    <2> QED
      BY <2>1 DEF Goes, Phase
  <1>10. CASE UnitCall
    <2>1. PICK tk \in tokens :
             \/ (\E r \in Run : BindUnitRun(tk, r)) \/ RenewUnitLease(tk)
             \/ \E r \in Run \union {NULL} : CompleteUnit(tk, r)
             \/ SettleUnitFailure(tk)
             \/ SplitUnit(tk)
             \/ InterruptUnit(tk)
      BY <1>10, Zenon DEF UnitCall
    <2>2. (\E r \in Run : BindUnitRun(tk, r)) \/ RenewUnitLease(tk) => UNCHANGED task
      BY Zenon DEF BindUnitRun, RenewUnitLease
    <2> QED
      BY <1>6, <1>7, <1>8, <1>9, <1>u, <2>1, <2>2
  <1> QED
    BY <1>1, <1>2, <1>3, <1>4, <1>10, TaskCallGoes DEF Next

-----------------------------------------------------------------------------
\* The refinement: each step is a step of the ledger, or a stutter of it

\* An id without a row stays not required.
LEMMA AbsentStep == ASSUME RefInv, [Next]_vars PROVE RefInv'
  <1>0. WorkInv /\ Before /\ TypeOK /\ AbsentUnclaimed /\ AbsentFree
    BY DEF RefInv, WorkInv, LeaseInv, Before
  <1>1. WorkInv'
    BY <1>0, WorkStep
  <1>2. CASE \E tk \in tokens : SplitUnit(tk)
    <2>1. PICK tk \in tokens : SplitUnit(tk)
      BY <1>2
    <2>2. ASSUME NEW u \in Unit, unit'[u].status = "absent" PROVE ~unit'[u].required
      <3>1. unit'[tk.unit].status # "absent"
        BY <1>0, <2>1, SplitEffect
      <3> QED
        BY <1>0, <2>1, <2>2, <3>1, SplitEffect DEF AbsentFree
    <2> QED
      BY <1>1, <2>2 DEF RefInv, AbsentFree
  <1>3. CASE Edges(unit, unit')
    <2>1. ASSUME NEW u \in Unit, unit'[u].status = "absent" PROVE unit[u].status = "absent"
      <3>1. CASE Quiet
        BY <2>1, <3>1, Zenon DEF Quiet, QuietRows, QuietRow
      <3>2. ASSUME NEW w \in Worker, NEW v \in Unit, ClaimUnit(w, v)
            PROVE  unit[u].status = "absent"
        <4>1. unit' = [RowsAtClaim EXCEPT ![v] = ClaimedRow(RowsAtClaim[v], w)]
          BY <3>2, Zenon DEF ClaimUnit
        <4>2. /\ RowsAtClaim \in [Unit -> UnitRow]
              /\ RowsAtClaim[u].status \in {"failed", unit[u].status}
          BY <1>0, RowsAtClaimFields
        <4>3. ClaimedRow(RowsAtClaim[v], w).status = "claimed"
          BY <4>2, ClaimedRowFields
        <4> QED
          BY <2>1, <4>1, <4>2, <4>3
      <3>3. ASSUME NEW tk \in tokens, NEW r, CompleteUnit(tk, r)
            PROVE  unit[u].status = "absent"
        BY <1>0, <2>1, <3>3, CompleteEffect
      <3> QED
        BY <1>0, <3>1, <3>2, <3>3, StepIsQuietOrWork
    <2> QED
      BY <1>0, <1>1, <1>3, <2>1 DEF RefInv, AbsentFree, Edges
  <1> QED
    BY <1>0, <1>2, <1>3, StepEffect

\* Nothing is required initially but rows that exist.
LEMMA RefInit == Init => RefInv
  <1> SUFFICES ASSUME Init PROVE RefInv
    OBVIOUS
  <1>1. ASSUME NEW u \in Unit
        PROVE  /\ unit[u].status = IF u \in InitialUnit THEN "pending" ELSE "absent"
               /\ unit[u].required = (u \in InitialUnit \ Optional)
    BY Zenon DEF Init, InitialRow
  <1>2. AbsentFree
    BY <1>1 DEF AbsentFree
  <1> QED
    BY <1>2, WorkInit DEF RefInv

\* What the ledger sees, by name.
Holding(rows) == [u \in Unit |-> RowHolder(rows[u])]

\* Phases are those of the ledger.
LEMMA LedgerState ==
    /\ Phase(task) = IF task.status \in {"pending", "paused"} THEN "idle"
                     ELSE IF task.status = "running" THEN "open" ELSE task.status
    /\ Holding(unit) = [u \in Unit |-> IF unit[u].status \in InFlight /\ unit[u].lease = "live"
                                       THEN unit[u].worker ELSE NULL]
    /\ Ledger!Held = {u \in Unit : RowHolder(unit[u]) # NULL}
  BY DEF Phase, Holding, RowHolder, Ledger!Held

\* Lost leases and changes of phase.
LEMMA MoveSteps ==
    ASSUME LetGo, Goes, RequiredUnits(unit') = RequiredUnits(unit),
           With(unit', {"completed"}) = With(unit, {"completed"})
    PROVE  [Ledger!Next]_(Ledger!ledger)
  <1>1. PICK S \in SUBSET Ledger!Held :
            \A u \in Unit : RowHolder(unit'[u]) = IF u \in S THEN NULL ELSE RowHolder(unit[u])
    <2> DEFINE S == {u \in Unit : RowHolder(unit'[u]) # RowHolder(unit[u])}
    <2>1. S \in SUBSET Ledger!Held
      BY LedgerState DEF LetGo
    <2>2. \A u \in Unit : RowHolder(unit'[u]) = IF u \in S THEN NULL ELSE RowHolder(unit[u])
      BY DEF LetGo
    <2> QED
      BY <2>1, <2>2
  <1>2. Holding(unit') = [u \in Unit |-> IF u \in S THEN NULL ELSE Holding(unit)[u]]
    BY <1>1 DEF Holding
  <1>3. Ledger!Drop(S)
    BY <1>2 DEF Ledger!Drop, Holding, RowHolder
  <1>4. CASE Phase(task') = Phase(task)
    BY <1>1, <1>3, <1>4 DEF Ledger!Lose, Ledger!Next, Phase
  <1>5. ASSUME NEW from, NEW to, Phase(task) \in from, Phase(task') = to PROVE Ledger!Move(from, to)
    BY <1>1, <1>3, <1>5 DEF Ledger!Move, Phase
  <1>6. CASE Completes
    <2>1. RequiredUnits(unit) \subseteq With(unit, {"completed"})
      BY <1>6 DEF Completes, RequiredUnits, With
    <2>2. Ledger!Complete
      BY <1>6, <2>1 DEF Completes, Phase, Ledger!Complete, RequiredUnits, With
    <2> QED
      BY <2>2 DEF Ledger!Next
  <1> QED
    BY <1>4, <1>5, <1>6 DEF Goes, Ledger!Next

\* Who holds a unit is a worker, so the ledger counts the live leases.
LEMMA HeldUnits ==
    ASSUME LeaseInv
    PROVE  Ledger!Held = {u \in With(unit, InFlight) : unit[u].lease = "live"}
  <1>1. ASSUME NEW u \in Unit, unit[u].status \in InFlight PROVE unit[u].worker # NULL
    <2>1. [worker |-> unit[u].worker, unit |-> u, epoch |-> unit[u].epoch] \in Token
      BY <1>1 DEF LeaseInv, LatestLeaseSettles, TypeOK
    <2>2. unit[u].worker \in Worker
      BY <2>1, Zenon DEF Token
    <2> QED
      BY <2>2, WorkerAssumption
  <1> QED
    BY <1>1, LedgerState DEF RowHolder, With

\* The ledger counts as the task does.
LEMMA SameCardinality == ASSUME NEW S PROVE Ledger!Cardinality(S) = Cardinality(S)
  BY DEF Cardinality, Ledger!Cardinality

\* A claim takes a unit nobody holds.
LEMMA ClaimTakes ==
    ASSUME RefInv, NEW w \in Worker, NEW u \in Unit, ClaimUnit(w, u)
    PROVE  Ledger!Take(u, w)
  <1> DEFINE q == ClaimedRow(RowsAtClaim[u], w)
  <1>0. LeaseInv /\ Before /\ TypeOK /\ unit \in [Unit -> UnitRow]
    BY DEF RefInv, WorkInv, LeaseInv, Before, TypeOK
  <1>1. /\ unit' = [RowsAtClaim EXCEPT ![u] = q] /\ UNCHANGED task
        /\ u \in Ready(RowsAtClaim) /\ ClaimAdmitted
    BY Zenon DEF ClaimUnit
  <1>2. RowsAtClaim \in [Unit -> UnitRow] /\ SameDone(unit, RowsAtClaim) /\ Edges(unit, RowsAtClaim)
    BY <1>0, RowsAtClaimFields
  <1>3. /\ q.status = "claimed" /\ q.required = RowsAtClaim[u].required
        /\ q.worker = w /\ q.lease = "live"
    <2>1. RowsAtClaim[u] \in UnitRow
      BY <1>2
    <2> DEFINE n == RowsAtClaim[u].attempt + 1
               m == RowsAtClaim[u].epoch + 1
    <2>2. q = [RowsAtClaim[u] EXCEPT
                  !.status = "claimed", !.attempt = n, !.worker = w, !.lease = "live",
                  !.epoch = m, !.settledBy = NULL, !.run = NULL, !.backoff = FALSE]
      BY Zenon DEF ClaimedRow
    <2> HIDE DEF n, m, q
    <2> QED
      BY <2>1, <2>2, Zenon DEF UnitRow
  <1>4. ASSUME NEW v \in Unit
        PROVE  /\ v \in Exhausted => RowsAtClaim[v].status = "failed" /\ unit[v].lease # "live"
               /\ v \notin Exhausted => RowsAtClaim[v] = unit[v]
    <2>1. v \in Exhausted => RowsAtClaim[v].status = "failed"
      BY <1>0, SettleFields DEF RowsAtClaim
    <2>2. v \notin Exhausted => RowsAtClaim[v] = unit[v]
      BY Zenon DEF RowsAtClaim, Settle
    <2> QED
      BY <2>1, <2>2 DEF Exhausted
  <1> HIDE DEF q
  <1>5. \A v \in Unit : RowHolder(RowsAtClaim[v]) = RowHolder(unit[v])
    BY <1>4 DEF RowHolder, InFlight
  <1>6. /\ RowHolder(RowsAtClaim[u]) = NULL
        /\ RowsAtClaim[u].status \notin {"completed", "failed"}
    BY <1>1 DEF Ready, RowHolder, InFlight
  <1>7. \A v \in Unit : unit'[v] = IF v = u THEN q ELSE RowsAtClaim[v]
    BY <1>1, <1>2
  <1>8. Holding(unit') = [Holding(unit) EXCEPT ![u] = w]
    <2>1. RowHolder(q) = w
      BY <1>3 DEF RowHolder, InFlight
    <2> QED
      BY <1>5, <1>7, <2>1 DEF Holding
  <1>9. RequiredUnits(unit') = RequiredUnits(unit)
    BY <1>2, <1>3, <1>7 DEF RequiredUnits, Edges
  <1>10. With(unit', {"completed"}) = With(unit, {"completed"})
    BY <1>2, <1>3, <1>6, <1>7 DEF With, SameDone
  <1>11. u \notin With(unit, {"completed"}) /\ Holding(unit)[u] = NULL
    BY <1>2, <1>5, <1>6 DEF With, SameDone, Holding
  <1>12. Phase(task) = "open" /\ Phase(task') = Phase(task)
    BY <1>1 DEF ClaimAdmitted, Phase
  <1>13. Cardinality(Ledger!Held) < MaxParallelism
    BY <1>0, <1>1, HeldUnits DEF ClaimAdmitted
  <1> QED
    BY <1>8, <1>9, <1>10, <1>11, <1>12, <1>13, SameCardinality
       DEF Ledger!Take, Holding, RowHolder, Phase

\* What a call with a lease in force finds.
LEMMA LeaseHolds ==
    ASSUME RefInv, NEW tk \in tokens, HoldsLease(tk)
    PROVE  /\ Phase(task) = "open" /\ tk.unit \in Unit
           /\ tk.unit \in Ledger!Held \ With(unit, {"completed"})
  <1>0. LeaseInv /\ Before /\ TypeOK
    BY DEF RefInv, WorkInv, LeaseInv, Before
  <1>1. /\ tk.unit \in Unit /\ unit[tk.unit].status \in InFlight
        /\ unit[tk.unit].status # "completed"
    BY <1>0, HeldInFlight
  <1>2. unit[tk.unit].lease = "live" /\ task.status = "running"
    BY DEF HoldsLease
  <1> QED
    BY <1>0, <1>1, <1>2, HeldUnits DEF With, Phase

\* A delivered result finishes the unit for its holder.
LEMMA CompleteFinishes ==
    ASSUME RefInv, NEW tk \in tokens, NEW r, CompleteUnit(tk, r)
    PROVE  Ledger!Finish(tk.unit)
  <1> DEFINE u == tk.unit
  <1>0. Before /\ task \in TaskRow
    BY DEF RefInv, WorkInv, LeaseInv, Before, TypeOK
  <1>1. PICK rows : HoldsLease(tk) /\ task' = Refresh(task, rows)
    BY Zenon DEF CompleteUnit, WorkerCall
  <1>2. Phase(task) = "open" /\ u \in Unit /\ u \in Ledger!Held \ With(unit, {"completed"})
    BY <1>1, LeaseHolds
  <1>3. Phase(task') = Phase(task)
    BY <1>0, <1>1, RefreshFields DEF Phase
  <1>4. /\ Edges(unit, unit')
        /\ \A v \in Unit : v # u => unit'[v] = unit[v]
        /\ unit'[u].status = "completed"
    BY <1>0, CompleteEffect
  <1>5. RequiredUnits(unit') = RequiredUnits(unit)
    BY <1>4 DEF RequiredUnits, Edges
  <1>6. With(unit', {"completed"}) = With(unit, {"completed"}) \union {u}
    BY <1>2, <1>4 DEF With
  <1>7. RowHolder(unit'[u]) = NULL
    BY <1>4 DEF RowHolder, InFlight
  <1> HIDE DEF u
  <1>8. Holding(unit') = [Holding(unit) EXCEPT ![u] = NULL]
    BY <1>4, <1>7 DEF Holding
  <1>9. Ledger!Finish(u)
    BY <1>2, <1>3, <1>5, <1>6, <1>8 DEF Ledger!Finish, Holding, RowHolder, Phase
  <1> QED
    BY <1>9 DEF u

\* A split replaces the unit by fresh ones.
LEMMA SplitSplits ==
    ASSUME RefInv, NEW tk \in tokens, SplitUnit(tk)
    PROVE  \E fresh \in SUBSET Unit : Ledger!Split(tk.unit, fresh)
  <1> DEFINE u == tk.unit
  <1>0. Before /\ TypeOK /\ AbsentUnclaimed /\ AbsentFree
    BY DEF RefInv, WorkInv, LeaseInv, Before
  <1>1. HoldsLease(tk)
    BY Zenon DEF SplitUnit, ExpandUnit, WorkerCall
  <1>2. Phase(task) = "open" /\ u \in Unit /\ u \in Ledger!Held \ With(unit, {"completed"})
    BY <1>1, LeaseHolds
  <1>3. /\ unit'[u].status = "expanded" /\ ~unit'[u].required
        /\ \A v \in Unit \ {u} : unit[v].status # "absent" =>
              /\ unit'[v].status = unit[v].status /\ unit'[v].required = unit[v].required
              /\ unit'[v].worker = unit[v].worker /\ unit'[v].lease = unit[v].lease
        /\ \A v \in Unit : unit[v].status = "absent" =>
              \/ unit'[v].status = "pending"
              \/ unit'[v].status = "absent" /\ unit'[v].required = unit[v].required
        /\ unit[u].status \in InFlight
        /\ task.status = "running" /\ task'.status = "running"
    BY <1>0, SplitEffect
  <1>4. Phase(task') = Phase(task)
    BY <1>3 DEF Phase
  <1> HIDE DEF u
  <1>5. PICK fresh \in SUBSET Unit :
            \A v \in Unit : v \in fresh <=> unit[v].status = "absent" /\ unit'[v].required
    <2> DEFINE S == {v \in Unit : unit[v].status = "absent" /\ unit'[v].required}
    <2>1. S \in SUBSET Unit /\ \A v \in Unit : v \in S <=> unit[v].status = "absent" /\ unit'[v].required
      OBVIOUS
    <2> QED
      BY <2>1
  <1>6. "absent" \notin InFlight /\ "pending" \notin InFlight /\ "expanded" \notin InFlight
    BY DEF InFlight
  <1>7. \A v \in Unit : v \in Ledger!Held => unit[v].status \in InFlight
    BY LedgerState DEF RowHolder
  <1>8. fresh \intersect (RequiredUnits(unit) \union With(unit, {"completed"}) \union Ledger!Held) = {}
    BY <1>0, <1>5, <1>6, <1>7 DEF AbsentFree, RequiredUnits, With
  <1>9. RequiredUnits(unit') = (RequiredUnits(unit) \ {u}) \union fresh
    BY <1>0, <1>2, <1>3, <1>5, <1>6 DEF AbsentFree, RequiredUnits
  <1>10. With(unit', {"completed"}) = With(unit, {"completed"})
    BY <1>2, <1>3, <1>6 DEF With, InFlight
  <1>11. \A v \in Unit : RowHolder(unit'[v]) = IF v = u THEN NULL ELSE RowHolder(unit[v])
    BY <1>3, <1>6 DEF RowHolder
  <1>12. Holding(unit') = [Holding(unit) EXCEPT ![u] = NULL]
    BY <1>11 DEF Holding
  <1>13. Ledger!Split(u, fresh)
    BY <1>2, <1>4, <1>8, <1>9, <1>10, <1>12 DEF Ledger!Split, Holding, RowHolder, Phase
  <1> QED
    BY <1>13 DEF u

\* Every step of the task is a step of the ledger, or none.
LEMMA LedgerStep == ASSUME RefInv, [Next]_vars PROVE [Ledger!Next]_(Ledger!ledger)
  <1>0. Before /\ TypeOK /\ AbsentUnclaimed
    BY DEF RefInv, WorkInv, LeaseInv, Before
  <1>1. ASSUME NEW w \in Worker, NEW u \in Unit, ClaimUnit(w, u) PROVE Ledger!Next
    BY <1>1, ClaimTakes DEF Ledger!Next
  <1>2. ASSUME NEW tk \in tokens, NEW r, CompleteUnit(tk, r) PROVE Ledger!Next
    BY <1>0, <1>2, CompleteFinishes, TokenType DEF Ledger!Next
  <1>3. ASSUME NEW tk \in tokens, SplitUnit(tk) PROVE Ledger!Next
    BY <1>0, <1>3, SplitSplits, TokenType DEF Ledger!Next
  <1>4. CASE Quiet /\ Edges(unit, unit') /\ Releases(unit, unit')
    <2>1. LetGo /\ Goes /\ SameDone(unit, unit')
      BY <1>4, QuietLetsGo, StepGoes, QuietDone DEF Quiet
    <2>2. RequiredUnits(unit') = RequiredUnits(unit)
      BY <1>4 DEF RequiredUnits, Edges
    <2>3. With(unit', {"completed"}) = With(unit, {"completed"})
      BY <2>1 DEF With, SameDone
    <2> QED
      BY <2>1, <2>2, <2>3, MoveSteps
  <1> QED
    BY <1>0, <1>1, <1>2, <1>3, <1>4, StepIsQuietOrWork, StepEffect, StepReleases

\* The created task is a ledger on which nothing was done.
LEMMA LedgerInit == Init => Ledger!Init
  <1> SUFFICES ASSUME Init PROVE Ledger!Init
    OBVIOUS
  <1>1. ASSUME NEW u \in Unit PROVE unit[u].status \in {"pending", "absent"}
    BY Zenon DEF Init, InitialRow
  <1>2. With(unit, {"completed"}) = {}
    BY <1>1 DEF With
  <1>3. Holding(unit) = [u \in Unit |-> NULL]
    BY <1>1 DEF Holding, RowHolder, InFlight
  <1>4. RequiredUnits(unit) \in SUBSET Unit /\ task.status = "pending"
    BY DEF RequiredUnits, Init
  <1> QED
    BY <1>2, <1>3, <1>4 DEF Ledger!Init, Holding, RowHolder
-----------------------------------------------------------------------------
\* Theorems

\* No unit is worked on or completed before what it depends on, whatever splits
\* have made of the graph.
THEOREM DependenciesAlwaysFirst == Spec => []DependenciesFirst
  <1>1. WorkInv => DependenciesFirst
    BY DEF WorkInv
  <1> QED
    BY <1>1, WorkInit, WorkStep, PTL DEF Spec

\* The stored counters are those of the rows, and a completed task has all its
\* required units and no pending cancel request.
THEOREM CompletionAlwaysEarned == Spec => []CompletionIsEarned
  <1>1. WorkInv => CompletionIsEarned
    BY DEF WorkInv, Counted, CompletedEarned, Earned, CompletionIsEarned
  <1> QED
    BY <1>1, WorkInit, WorkStep, PTL DEF Spec

\* A required unit fails only with its task, and a failed task has no work in hand.
THEOREM FailureAlwaysFailsTask == Spec => []FailedUnitFailsTask
  <1>1. WorkInv => FailedUnitFailsTask
    BY DEF WorkInv, LiveTask, FailedIdle, FailedUnitFailsTask, RequiredUnits, Terminal
  <1> QED
    BY <1>1, WorkInit, WorkStep, PTL DEF Spec

\* Beyond the budget nothing is in anybody's hands.
THEOREM OverBudgetAlwaysStopsWork == Spec => []OverBudgetStopsWork
  <1>1. WorkInv => OverBudgetStopsWork
    BY DEF WorkInv
  <1> QED
    BY <1>1, WorkInit, WorkStep, PTL DEF Spec

\* The task implements the ledger: at most MaxParallelism units are held at a time,
\* a unit is finished once and by its holder, and a task completes only with
\* everything needed finished.
THEOREM TaskImplementsLedger == Spec => LedgerSpec
  <1>1. RefInv /\ [Next]_vars => [Ledger!Next]_(Ledger!ledger)
    BY LedgerStep
  <1>2. RefInv /\ [Next]_vars => RefInv'
    BY AbsentStep
  <1> QED
    BY <1>1, <1>2, RefInit, LedgerInit, PTL DEF Spec, LedgerSpec, Ledger!Spec

-----------------------------------------------------------------------------
\* Progress: a running task that owes work can move

\* A row never has more attempts than it may, and one that waits to be claimed
\* has an attempt left.
Fit(r) == /\ r.attempt <= r.maxAttempts
          /\ r.status \in {"pending", "waiting_retry", "absent"} => r.attempt < r.maxAttempts

FitRows(rows) == \A u \in Unit : Fit(rows[u])

\* Dependencies name units that exist.
DepsExist(rows) == \A u \in Unit : \A d \in rows[u].deps : rows[d].status # "absent"

\* No unit of a task that is not over is canceled.
NoneCanceled == task.status \notin Terminal => \A u \in Unit : unit[u].status # "canceled"

\* What was split is no longer required.
ExpandedFree == \A u \in Unit : unit[u].status = "expanded" => ~unit[u].required

MoveInv == /\ RefInv
           /\ FitRows(unit) /\ Acyclic(unit) /\ DepsExist(unit)
           /\ NoneCanceled /\ ExpandedFree

\* Attempts are taken and granted as FitRows asks; no row comes, goes or is split.
Tidy(p, q) ==
    \A u \in Unit :
        /\ Fit(p[u]) => Fit(q[u])
        /\ q[u].status \in {"expanded", "absent"} => p[u].status = q[u].status

\* No unit is canceled.
NeverCancels(p, q) == \A u \in Unit : q[u].status = "canceled" => p[u].status = "canceled"

\* Units are canceled only with the task, and put back with it.
CancelsEnd ==
    \/ task'.status \in Terminal
    \/ task.status \notin Terminal /\ NeverCancels(unit, unit')
    \/ \A u \in Unit : unit'[u].status # "canceled"

\* What a step does, unless it splits.
Moves == Tidy(unit, unit') /\ CancelsEnd

\* One update after the other.
LEMMA TidyCompose ==
    ASSUME NEW p, NEW q, NEW r
    PROVE  /\ Tidy(p, q) /\ Tidy(q, r) => Tidy(p, r)
           /\ NeverCancels(p, q) /\ NeverCancels(q, r) => NeverCancels(p, r)
  <1>1. ASSUME Tidy(p, q), Tidy(q, r), NEW u \in Unit
        PROVE  /\ Fit(p[u]) => Fit(r[u])
               /\ r[u].status \in {"expanded", "absent"} => p[u].status = r[u].status
    BY <1>1, Zenon DEF Tidy
  <1>2. NeverCancels(p, q) /\ NeverCancels(q, r) => NeverCancels(p, r)
    BY Zenon DEF NeverCancels
  <1> QED
    BY <1>1, <1>2, Zenon DEF Tidy

\* The bulk updates: what they settle is not claimed again without a grant.
LEMMA BulkTidy ==
    ASSUME NEW rows \in [Unit -> UnitRow], NEW S, NEW extra \in Nat \ {0},
           NEW status \in {"blocked", "needs_split", "failed", "canceled"}
    PROVE  /\ Tidy(rows, Settle(rows, S, status)) /\ Tidy(rows, Requeue(rows, S, extra))
           /\ status # "canceled" => NeverCancels(rows, Settle(rows, S, status))
           /\ NeverCancels(rows, Requeue(rows, S, extra))
  <1>1. ASSUME NEW u \in Unit
        PROVE  /\ Fit(rows[u]) => Fit(Settle(rows, S, status)[u]) /\ Fit(Requeue(rows, S, extra)[u])
               /\ Settle(rows, S, status)[u].status \in {rows[u].status, status}
               /\ Requeue(rows, S, extra)[u].status \in {rows[u].status, "pending"}
    <2>1. rows[u] \in UnitRow /\ rows[u].attempt \in Nat /\ rows[u].maxAttempts \in Nat
      BY DEF UnitRow
    <2>2. CASE u \in S
      <3> DEFINE n == rows[u].maxAttempts + extra
                 a == Settle(rows, S, status)[u]
                 b == Requeue(rows, S, extra)[u]
      <3>1. /\ a = [rows[u] EXCEPT !.status = status, !.worker = NULL, !.lease = "none"]
            /\ b = [rows[u] EXCEPT !.status = "pending", !.worker = NULL, !.lease = "none",
                                   !.maxAttempts = n]
        BY <2>2, Zenon DEF Settle, Requeue
      <3> HIDE DEF n, a, b
      <3>2. /\ a.status = status /\ a.attempt = rows[u].attempt
            /\ a.maxAttempts = rows[u].maxAttempts
            /\ b.status = "pending" /\ b.attempt = rows[u].attempt /\ b.maxAttempts = n
        BY <2>1, <3>1, Zenon DEF UnitRow
      <3>3. Fit(rows[u]) => Fit(a)
        BY <3>2 DEF Fit
      <3>4. rows[u].attempt <= rows[u].maxAttempts => rows[u].attempt < n
        BY <2>1 DEF n
      <3>5. rows[u].attempt < n => rows[u].attempt <= n
        BY <2>1 DEF n
      <3>6. Fit(rows[u]) => Fit(b)
        BY <3>2, <3>4, <3>5, Zenon DEF Fit
      <3> QED
        BY <3>2, <3>3, <3>6 DEF a, b
    <2>3. CASE u \notin S
      <3>1. Settle(rows, S, status)[u] = rows[u] /\ Requeue(rows, S, extra)[u] = rows[u]
        BY <2>3, Zenon DEF Settle, Requeue
      <3> QED
        BY <3>1
    <2> QED
      BY <2>2, <2>3
  <1>2. Tidy(rows, Settle(rows, S, status))
    BY <1>1 DEF Tidy
  <1>3. Tidy(rows, Requeue(rows, S, extra))
    BY <1>1 DEF Tidy
  <1> QED
    BY <1>1, <1>2, <1>3 DEF NeverCancels

\* The update of one row.
LEMMA OneRowTidy ==
    ASSUME NEW rows \in [Unit -> UnitRow], NEW u \in Unit, NEW q,
           Fit(rows[u]) => Fit(q),
           q.status \notin {"expanded", "absent"} \/ q.status = rows[u].status
    PROVE  /\ Tidy(rows, [rows EXCEPT ![u] = q])
           /\ q.status # "canceled" \/ q.status = rows[u].status =>
                 NeverCancels(rows, [rows EXCEPT ![u] = q])
  <1>1. \A v \in Unit : [rows EXCEPT ![u] = q][v] = IF v = u THEN q ELSE rows[v]
    OBVIOUS
  <1> HIDE DEF Fit
  <1>2. Tidy(rows, [rows EXCEPT ![u] = q])
    BY <1>1 DEF Tidy
  <1> QED
    BY <1>1, <1>2 DEF NeverCancels

\* What the calls write into one row.
LEMMA RowsFit ==
    ASSUME NEW row \in UnitRow, NEW n \in Nat, NEW m \in Nat, NEW tk, NEW r, NEW w
    PROVE  /\ Fit(row) => /\ Fit(BlockedRow(row, n, m)) /\ Fit(CompletedRow(row, tk, r))
                          /\ Fit([row EXCEPT !.waited = 0, !.backoff = FALSE])
                          /\ Fit([row EXCEPT !.status = "running", !.run = r])
                          /\ Fit([row EXCEPT !.backoff = FALSE])
                          /\ Fit([row EXCEPT !.lease = "live"])
                          /\ Fit([row EXCEPT !.lease = "expired"])
           /\ row.attempt < row.maxAttempts + m => Fit(WaitingRow(row, n, m))
           /\ row.attempt < row.maxAttempts => Fit(ClaimedRow(row, w))
           /\ [row EXCEPT !.status = "running", !.run = r].status = "running"
           /\ [row EXCEPT !.backoff = FALSE].status = row.status
           /\ [row EXCEPT !.lease = "live"].status = row.status
           /\ [row EXCEPT !.lease = "expired"].status = row.status
  <1> DEFINE k == row.maxAttempts + m
             l == row.waited + n
             a == row.attempt + 1
             e == row.epoch + 1
             run == IF r = NULL THEN row.run ELSE r
             blocked == BlockedRow(row, n, m)
             waiting == WaitingRow(row, n, m)
             completed == CompletedRow(row, tk, r)
             claimed == ClaimedRow(row, w)
  <1>1. blocked = [row EXCEPT !.status = "blocked", !.worker = NULL,
             !.lease = "none", !.backoff = FALSE, !.waited = n, !.maxAttempts = k]
    BY Zenon DEF BlockedRow
  <1>2. waiting = [row EXCEPT !.status = "waiting_retry", !.worker = NULL,
             !.lease = "none", !.backoff = TRUE, !.waited = l, !.maxAttempts = k]
    BY Zenon DEF WaitingRow
  <1>3. completed = [row EXCEPT !.status = "completed", !.worker = NULL,
             !.lease = "none", !.settledBy = tk.worker, !.output = tk.epoch, !.run = run]
    BY Zenon DEF CompletedRow
  <1>4. claimed = [row EXCEPT !.status = "claimed", !.attempt = a, !.worker = w,
             !.lease = "live", !.epoch = e, !.settledBy = NULL, !.run = NULL, !.backoff = FALSE]
    BY Zenon DEF ClaimedRow
  <1>5. row.attempt \in Nat /\ row.maxAttempts \in Nat
    BY DEF UnitRow
  <1>6. /\ row.attempt <= row.maxAttempts => row.attempt <= k
        /\ row.attempt < k => row.attempt <= k
        /\ row.attempt < row.maxAttempts => a <= row.maxAttempts
    BY <1>5
  <1> HIDE DEF k, l, a, e, run, blocked, waiting, completed, claimed
  <1>7. /\ blocked.status = "blocked" /\ blocked.attempt = row.attempt /\ blocked.maxAttempts = k
        /\ waiting.status = "waiting_retry" /\ waiting.attempt = row.attempt
        /\ waiting.maxAttempts = k
        /\ completed.status = "completed" /\ completed.attempt = row.attempt
        /\ completed.maxAttempts = row.maxAttempts
        /\ claimed.status = "claimed" /\ claimed.attempt = a
        /\ claimed.maxAttempts = row.maxAttempts
    BY <1>1, <1>2, <1>3, <1>4, Zenon DEF UnitRow
  <1>8. /\ Fit(row) => Fit(blocked) /\ Fit(completed)
        /\ row.attempt < k => Fit(waiting)
        /\ row.attempt < row.maxAttempts => Fit(claimed)
    BY <1>6, <1>7 DEF Fit
  <1>9. ASSUME NEW q \in {[row EXCEPT !.waited = 0, !.backoff = FALSE],
                          [row EXCEPT !.backoff = FALSE],
                          [row EXCEPT !.lease = "live"], [row EXCEPT !.lease = "expired"]}
        PROVE  /\ q.status = row.status /\ q.attempt = row.attempt
               /\ q.maxAttempts = row.maxAttempts
    BY Zenon DEF UnitRow
  <1>10. ASSUME NEW q, q = [row EXCEPT !.status = "running", !.run = r]
         PROVE  /\ q.status = "running" /\ q.attempt = row.attempt
                /\ q.maxAttempts = row.maxAttempts
    BY <1>10, Zenon DEF UnitRow
  <1>11. Fit(row) => Fit([row EXCEPT !.status = "running", !.run = r])
    BY <1>10 DEF Fit
  <1>12. ASSUME NEW q \in {[row EXCEPT !.waited = 0, !.backoff = FALSE],
                           [row EXCEPT !.backoff = FALSE],
                           [row EXCEPT !.lease = "live"], [row EXCEPT !.lease = "expired"]},
                Fit(row)
         PROVE  Fit(q)
    BY <1>9, <1>12 DEF Fit
  <1>13. [row EXCEPT !.status = "running", !.run = r].status = "running"
    BY <1>10
  <1> QED
    BY <1>7, <1>8, <1>9, <1>11, <1>12, <1>13 DEF k, blocked, waiting, completed, claimed

\* The rows of a failure without a retry.
LEMMA RowsEndedTidy ==
    ASSUME Before, NEW tk \in tokens, HoldsLease(tk),
           NEW status \in {"needs_split", "failed", "canceled"}
    PROVE  /\ Tidy(unit, RowsEnded(tk, status)) /\ RowsEnded(tk, status) \in [Unit -> UnitRow]
           /\ status # "canceled" => NeverCancels(unit, RowsEnded(tk, status))
  <1> DEFINE rows == Settle(unit, {tk.unit}, status)
             q == [rows[tk.unit] EXCEPT !.waited = 0, !.backoff = FALSE]
  <1>1. tk.unit \in Unit /\ unit \in [Unit -> UnitRow]
    BY HeldRow
  <1>2. /\ rows \in [Unit -> UnitRow] /\ Tidy(unit, rows)
        /\ status # "canceled" => NeverCancels(unit, rows)
    <2>1. 1 \in Nat \ {0} /\ status \in {"blocked", "needs_split", "failed", "canceled"}
      OBVIOUS
    <2> QED
      BY <1>1, <2>1, SettleType, StatusType, BulkTidy
  <1>3. RowsEnded(tk, status) = [rows EXCEPT ![tk.unit] = q]
    BY <1>1, <1>2, Zenon DEF RowsEnded
  <1>4. rows[tk.unit].status = status
    BY <1>1, SettleFields
  <1> HIDE DEF rows
  <1>5. q.status = rows[tk.unit].status
    BY <1>1, <1>2, FailureRowFields
  <1>6. Fit(rows[tk.unit]) => Fit(q)
    <2>1. rows[tk.unit] \in UnitRow /\ 0 \in Nat
      BY <1>1, <1>2
    <2> QED
      BY <2>1, RowsFit
  <1> HIDE DEF q
  <1>7. /\ Tidy(rows, [rows EXCEPT ![tk.unit] = q])
        /\ NeverCancels(rows, [rows EXCEPT ![tk.unit] = q])
    BY <1>1, <1>2, <1>4, <1>5, <1>6, OneRowTidy
  <1> QED
    BY <1>2, <1>3, <1>7, TidyCompose, RowsEndedFields

\* Where a call leaves the task open, and no unit is canceled by it.
LEMMA MovesOpen ==
    ASSUME task.status \notin Terminal, Tidy(unit, unit'), NeverCancels(unit, unit')
    PROVE  Moves
  BY DEF Moves, CancelsEnd

\* settle_unit_failure, for every disposition.
LEMMA SettleMoves ==
    ASSUME Before, FitRows(unit), NEW tk \in tokens, SettleUnitFailure(tk) PROVE Moves
  <1> DEFINE row == unit[tk.unit]
  <1>0. HoldsLease(tk)
    BY Zenon DEF SettleUnitFailure, SettleRetry, SettleBlocked, SettleNeedsSplit,
                 SettleCanceled, SettleFailed, WorkerCall
  <1>r. /\ tk.unit \in Unit /\ row \in UnitRow /\ unit \in [Unit -> UnitRow]
        /\ task \in TaskRow /\ task.status = "running" /\ task.status \notin Terminal
    BY <1>0, HeldRow DEF Terminal
  <1>f. Fit(row) /\ row.attempt \in Nat /\ row.maxAttempts \in Nat
    BY <1>r DEF FitRows, UnitRow
  <1>1. ASSUME NEW d \in {"retry_attempt", "resume_checkpoint"}, SettleRetry(tk, d) PROVE Moves
    <2>1. /\ d = "retry_attempt" => row.attempt < row.maxAttempts
          /\ \E delay \in Backoff(row.attempt) :
                unit' = [unit EXCEPT ![tk.unit] = WaitingRow(row, delay, Grant(row, d))]
      BY <1>1, Zenon DEF SettleRetry
    <2>2. PICK delay \in Backoff(row.attempt) :
              unit' = [unit EXCEPT ![tk.unit] = WaitingRow(row, delay, Grant(row, d))]
      BY <2>1
    <2> DEFINE q == WaitingRow(row, delay, Grant(row, d))
    <2>3. delay \in Nat
      BY <1>f, <2>2, BackoffType
    <2>4. Grant(row, d) \in Nat /\ row.attempt < row.maxAttempts + Grant(row, d)
      <3>1. CASE d = "retry_attempt"
        BY <1>f, <2>1, <3>1 DEF Grant
      <3>2. CASE d = "resume_checkpoint"
        BY <1>f, <3>2 DEF Grant, Fit
      <3> QED
        BY <3>1, <3>2
    <2>5. Fit(q) /\ q.status = "waiting_retry"
      <3>1. Fit(q)
        BY <1>r, <2>3, <2>4, RowsFit, Zenon
      <3>2. q.status = "waiting_retry"
        BY <1>r, FailureRowFields
      <3> QED
        BY <3>1, <3>2
    <2>6. unit' = [unit EXCEPT ![tk.unit] = q]
      BY <2>2
    <2> HIDE DEF q
    <2> QED
      BY <1>r, <2>5, <2>6, OneRowTidy, MovesOpen
  <1>2. ASSUME NEW d, NEW systemic \in BOOLEAN, SettleBlocked(tk, d, systemic) PROVE Moves
    <2> DEFINE retry == d \in {"retry_attempt", "resume_checkpoint"}
               n == IF retry THEN row.waited ELSE 0
               q == BlockedRow(row, n, Grant(row, d))
               rows == [unit EXCEPT ![tk.unit] = q]
               sibling == With(unit, InFlight) \ {tk.unit}
    <2>1. unit' = Requeue(rows, sibling, 1) \/ unit' = rows
      BY <1>2, Zenon DEF SettleBlocked
    <2>2. n \in Nat /\ Grant(row, d) \in Nat
      BY <1>r DEF Grant, UnitRow
    <2> HIDE DEF n
    <2>3. q \in UnitRow /\ q.status = "blocked" /\ Fit(q)
      <3>1. q \in UnitRow
        BY <1>r, <2>2, FailureRowType
      <3>3. q.status = "blocked"
        BY <1>r, FailureRowFields
      <3>2. Fit(q)
        BY <1>r, <1>f, <2>2, RowsFit, Zenon
      <3> QED
        BY <3>1, <3>2, <3>3
    <2> HIDE DEF q
    <2>4. Tidy(unit, rows) /\ NeverCancels(unit, rows) /\ rows \in [Unit -> UnitRow]
      BY <1>r, <2>3, OneRowTidy
    <2> HIDE DEF rows, sibling
    <2>5. Tidy(rows, Requeue(rows, sibling, 1)) /\ NeverCancels(rows, Requeue(rows, sibling, 1))
      <3>1. 1 \in Nat \ {0} /\ "failed" \in {"blocked", "needs_split", "failed", "canceled"}
        OBVIOUS
      <3> QED
        BY <2>4, <3>1, BulkTidy
    <2> QED
      BY <1>r, <2>1, <2>4, <2>5, TidyCompose, MovesOpen
  <1>3. CASE SettleNeedsSplit(tk)
    <2>1. unit' = RowsEnded(tk, "needs_split")
      BY <1>3 DEF SettleNeedsSplit
    <2> QED
      BY <1>0, <1>r, <2>1, RowsEndedTidy, MovesOpen
  <1>4. CASE SettleCanceled(tk)
    <2>1. unit' = RowsEnded(tk, "canceled") /\ task' = [task EXCEPT !.status = "canceled"]
      BY <1>4 DEF SettleCanceled, CanceledTask
    <2>2. task'.status = "canceled"
      BY <1>r, <2>1, TaskFields
    <2>3. Tidy(unit, unit')
      BY <1>0, <2>1, RowsEndedTidy
    <2> QED
      BY <2>2, <2>3 DEF Moves, CancelsEnd, Terminal
  <1>5. CASE SettleFailed(tk)
    <2> DEFINE rows == RowsEnded(tk, "failed")
               S == With(unit, InFlight \union {"pending"}) \ {tk.unit}
               n == task.failed + 1
    <2>1. unit' = Settle(rows, S, "canceled")
      BY <1>5, Zenon DEF SettleFailed
    <2>2. Tidy(unit, rows) /\ rows \in [Unit -> UnitRow]
      BY <1>0, RowsEndedTidy
    <2>3. task' = [task EXCEPT !.status = "failed", !.failed = n]
      BY <1>5, Zenon DEF SettleFailed
    <2> HIDE DEF rows, S, n
    <2>4. Tidy(rows, Settle(rows, S, "canceled"))
      <3>1. 1 \in Nat \ {0} /\ "canceled" \in {"blocked", "needs_split", "failed", "canceled"}
        OBVIOUS
      <3> QED
        BY <2>2, <3>1, BulkTidy
    <2>5. task'.status = "failed"
      BY <1>r, <2>3, Zenon DEF TaskRow
    <2>6. Tidy(unit, unit')
      BY <2>1, <2>2, <2>4, TidyCompose
    <2> QED
      BY <2>5, <2>6 DEF Moves, CancelsEnd, Terminal
  <1> QED
    BY <1>1, <1>2, <1>3, <1>4, <1>5, Zenon DEF SettleUnitFailure

\* The other calls with a lease, but a split.
LEMMA UnitCallMoves ==
    ASSUME Before, FitRows(unit), UnitCall
    PROVE  Moves \/ \E tk \in tokens : SplitUnit(tk)
  <1>0. PICK tk \in tokens :
           \/ \E r \in Run : BindUnitRun(tk, r)
           \/ RenewUnitLease(tk)
           \/ \E r \in Run \union {NULL} : CompleteUnit(tk, r)
           \/ SettleUnitFailure(tk)
           \/ SplitUnit(tk)
           \/ InterruptUnit(tk)
    BY Zenon DEF UnitCall
  <1> DEFINE row == unit[tk.unit]
  <1>1. ASSUME HoldsLease(tk)
        PROVE  /\ tk.unit \in Unit /\ row \in UnitRow /\ unit \in [Unit -> UnitRow] /\ Fit(row)
               /\ row.status \in InFlight /\ task.status \notin Terminal
    BY <1>1, HeldRow DEF FitRows, Terminal
  <1>2. ASSUME NEW q, HoldsLease(tk), unit' = [unit EXCEPT ![tk.unit] = q],
               Fit(q), q.status \in InFlight \union {"completed"}
        PROVE  Moves
    <2>1. q.status \notin {"expanded", "absent", "canceled"}
      BY <1>2 DEF InFlight
    <2> QED
      BY <1>1, <1>2, <2>1, OneRowTidy, MovesOpen
  <1>3. ASSUME NEW r, BindUnitRun(tk, r) \/ RenewUnitLease(tk) \/ CompleteUnit(tk, r)
        PROVE  Moves
    <2>1. /\ HoldsLease(tk)
          /\ \/ unit' = [unit EXCEPT ![tk.unit].status = "running", ![tk.unit].run = r]
             \/ unit' = [unit EXCEPT ![tk.unit].lease = "live"]
             \/ unit' = [unit EXCEPT ![tk.unit] = CompletedRow(@, tk, r)]
      BY <1>3, Zenon DEF BindUnitRun, RenewUnitLease, CompleteUnit, WorkerCall
    <2>2. \E q \in {[row EXCEPT !.status = "running", !.run = r],
                    [row EXCEPT !.lease = "live"], CompletedRow(row, tk, r)} :
             unit' = [unit EXCEPT ![tk.unit] = q]
      BY <1>1, <2>1
    <2>3. 0 \in Nat
      OBVIOUS
    <2>4. /\ Fit([row EXCEPT !.status = "running", !.run = r])
          /\ Fit([row EXCEPT !.lease = "live"]) /\ Fit(CompletedRow(row, tk, r))
          /\ [row EXCEPT !.status = "running", !.run = r].status = "running"
          /\ [row EXCEPT !.lease = "live"].status = row.status
          /\ CompletedRow(row, tk, r).status = "completed"
      <3>1. row \in UnitRow /\ Fit(row)
        BY <1>1, <2>1
      <3> HIDE DEF row
      <3>2. Fit([row EXCEPT !.status = "running", !.run = r])
        BY <2>3, <3>1, RowsFit, Zenon
      <3>3. Fit([row EXCEPT !.lease = "live"])
        BY <2>3, <3>1, RowsFit, Zenon
      <3>4. Fit(CompletedRow(row, tk, r))
        BY <2>3, <3>1, RowsFit, Zenon
      <3>5. /\ [row EXCEPT !.status = "running", !.run = r].status = "running"
            /\ [row EXCEPT !.lease = "live"].status = row.status
        BY <3>1, Zenon DEF UnitRow
      <3>6. CompletedRow(row, tk, r).status = "completed"
        BY <3>1, Zenon DEF CompletedRow, UnitRow
      <3> QED
        BY <3>2, <3>3, <3>4, <3>5, <3>6
    <2>5. "running" \in InFlight
      BY DEF InFlight
    <2>6. ASSUME NEW q \in {[row EXCEPT !.status = "running", !.run = r],
                            [row EXCEPT !.lease = "live"], CompletedRow(row, tk, r)}
          PROVE  Fit(q) /\ q.status \in InFlight \union {"completed"}
      BY <1>1, <2>1, <2>4, <2>5, Zenon
    <2> QED
      BY <1>2, <2>1, <2>2, <2>6
  <1>4. CASE InterruptUnit(tk)
    <2>1. unit' = Requeue(unit, {tk.unit}, 1) /\ HoldsLease(tk)
      BY <1>4, Zenon DEF InterruptUnit, WorkerCall
    <2>2. 1 \in Nat \ {0} /\ "failed" \in {"blocked", "needs_split", "failed", "canceled"}
      OBVIOUS
    <2> QED
      BY <1>1, <2>1, <2>2, BulkTidy, MovesOpen
  <1> QED
    BY <1>0, <1>3, <1>4, SettleMoves

\* The calls that leave every unit alone move the task only within what is open.
LEMMA StillMoves ==
    ASSUME UNCHANGED unit, task'.status \notin Terminal => task.status \notin Terminal
    PROVE  Moves
  BY DEF Moves, CancelsEnd, Tidy, NeverCancels

\* The passing of time.
LEMMA TickMoves == ASSUME Before, Tick PROVE Moves
  <1>0. unit \in [Unit -> UnitRow] /\ task \in TaskRow
    BY DEF Before, TypeOK
  <1>1. ASSUME NEW u \in Unit, NEW q, unit' = [unit EXCEPT ![u] = q], UNCHANGED task,
               q \in {[unit[u] EXCEPT !.lease = "expired"], [unit[u] EXCEPT !.backoff = FALSE]}
        PROVE  Moves
    <2>1. /\ q.status = unit[u].status /\ q.attempt = unit[u].attempt
          /\ q.maxAttempts = unit[u].maxAttempts
      BY <1>0, <1>1, Zenon DEF UnitRow
    <2>2. Fit(unit[u]) => Fit(q)
      BY <2>1 DEF Fit
    <2>3. Tidy(unit, unit') /\ NeverCancels(unit, unit')
      BY <1>0, <1>1, <2>1, <2>2, OneRowTidy
    <2> QED
      BY <1>1, <2>3 DEF Moves, CancelsEnd, NeverCancels
  <1>2. CASE DeadlineElapses \/ AutoResumeFallsDue
    <2>1. UNCHANGED unit /\ task' \in {task, [task EXCEPT !.autoResume = "due"]}
      BY <1>2, Zenon DEF DeadlineElapses, AutoResumeFallsDue
    <2>2. [task EXCEPT !.autoResume = "due"].status = task.status
      BY <1>0, Zenon DEF TaskRow
    <2> QED
      BY <2>1, <2>2, StillMoves
  <1>3. ASSUME NEW u \in Unit, LeaseExpires(u) \/ BackoffElapses(u) PROVE Moves
    <2>1. /\ UNCHANGED task
          /\ \/ unit' = [unit EXCEPT ![u].lease = "expired"]
             \/ unit' = [unit EXCEPT ![u].backoff = FALSE]
      BY <1>3, Zenon DEF LeaseExpires, BackoffElapses
    <2> QED
      BY <1>0, <1>1, <2>1
  <1> QED
    BY <1>2, <1>3 DEF Tick

\* Bulk updates of the units as they are.
LEMMA BulkMoves ==
    ASSUME Before, NEW S, NEW extra \in Nat \ {0},
           NEW status \in {"blocked", "failed", "canceled"},
           \/ unit' = Settle(unit, S, status) /\ task'.status \in Terminal
           \/ /\ unit' = Settle(unit, S, status) /\ status # "canceled"
              /\ task'.status \notin Terminal => task.status \notin Terminal
           \/ /\ unit' = Requeue(unit, S, extra)
              /\ task.status \notin Terminal
    PROVE  Moves
  <1>1. /\ unit \in [Unit -> UnitRow]
        /\ status \in {"blocked", "needs_split", "failed", "canceled"}
    BY DEF Before, TypeOK
  <1>2. /\ Tidy(unit, Settle(unit, S, status)) /\ Tidy(unit, Requeue(unit, S, extra))
        /\ status # "canceled" => NeverCancels(unit, Settle(unit, S, status))
        /\ NeverCancels(unit, Requeue(unit, S, extra))
    BY <1>1, BulkTidy
  <1> QED
    BY <1>2 DEF Moves, CancelsEnd

\* _fail_budget leaves a task that is over as it is.
LEMMA BudgetStatus ==
    ASSUME Before, task' = BudgetTask, task'.status \notin Terminal
    PROVE  task.status \notin Terminal
  <1> DEFINE t == Refresh(task, BudgetRows)
  <1>1. task \in TaskRow
    BY DEF Before, TypeOK
  <1>2. t.status = task.status
    BY <1>1, RefreshFields
  <1>3. t.status \in Terminal => task' = t
    BY Zenon DEF BudgetTask
  <1> HIDE DEF t
  <1> QED
    BY <1>2, <1>3

\* Task-level calls.
LEMMA TaskCallMoves == ASSUME Before, TaskCall PROVE Moves
  <1>0. /\ unit \in [Unit -> UnitRow] /\ task \in TaskRow
        /\ 1 \in Nat \ {0} /\ {"failed", "canceled"} \subseteq {"blocked", "failed", "canceled"}
    BY DEF Before, TypeOK
  <1>1. CASE Start \/ FinalizeIfComplete
    <2>1. UNCHANGED unit /\ task.status \in {"pending", "running"}
      BY <1>1, Zenon DEF Start, FinalizeIfComplete
    <2> QED
      BY <2>1, StillMoves DEF Terminal
  <1>2. CASE RequestCancel
    <2>1. UNCHANGED unit /\ task.status \notin Terminal
      BY <1>2 DEF RequestCancel
    <2> QED
      BY <2>1, StillMoves
  <1>3. CASE ObserveDeadline
    <2> DEFINE t == Refresh(task, Settle(unit, With(unit, Open), "failed"))
    <2>1. /\ unit' = Settle(unit, With(unit, Open), "failed")
          /\ task' = IF t.status \in Terminal THEN t ELSE [t EXCEPT !.status = "failed"]
      BY <1>3, Zenon DEF ObserveDeadline, ExpireTask
    <2>2. t \in TaskRow
      BY <1>0, RefreshType DEF Before
    <2> HIDE DEF t
    <2>3. [t EXCEPT !.status = "failed"].status = "failed"
      BY <2>2, TaskFields
    <2>4. task'.status \in Terminal
      BY <2>1, <2>3 DEF Terminal
    <2> QED
      BY <1>0, <2>1, <2>4, BulkMoves
  <1>4. CASE ObserveCancel \/ Cancel
    <2>1. /\ unit' = Settle(unit, With(unit, Open), "canceled")
          /\ task' = [task EXCEPT !.status = "canceled"]
      BY <1>4, Zenon DEF ObserveCancel, Cancel, CancelTask, CanceledTask
    <2>2. task'.status \in Terminal
      BY <1>0, <2>1, TaskFields DEF Terminal
    <2> QED
      BY <1>0, <2>1, <2>2, BulkMoves
  <1>5. ASSUME task' = BudgetTask, unit' = BudgetRows PROVE Moves
    <2>1. PICK status \in {"blocked", "failed"} : unit' = Settle(unit, With(unit, Open), status)
      BY <1>5 DEF BudgetRows
    <2>2. status \in {"blocked", "failed", "canceled"} /\ status # "canceled"
      OBVIOUS
    <2> QED
      BY <1>0, <1>5, <2>1, <2>2, BudgetStatus, BulkMoves
  <1>6. CASE ClaimOverBudget
    BY <1>5, <1>6 DEF ClaimOverBudget
  <1>7. ASSUME NEW r \in Run, NEW n \in UsageSizes, RecordUsage(r, n) PROVE Moves
    <2>1. (task' = BudgetTask /\ unit' = BudgetRows) \/ UNCHANGED <<task, unit>>
      BY <1>7, Zenon DEF RecordUsage
    <2> QED
      BY <1>5, <2>1, StillMoves
  <1>8. CASE Fail
    <2>1. PICK S, T : LET rows == Settle(Settle(unit, S, "failed"), T, "canceled")
                      IN  unit' = rows /\ task' = [Refresh(task, rows) EXCEPT !.status = "failed"]
      BY <1>8, Zenon DEF Fail
    <2> DEFINE rows1 == Settle(unit, S, "failed")
               rows == Settle(rows1, T, "canceled")
               t == Refresh(task, rows)
    <2>2. rows1 \in [Unit -> UnitRow]
      BY <1>0, SettleType, StatusType
    <2>3. {"failed", "canceled"} \subseteq {"blocked", "needs_split", "failed", "canceled"}
      OBVIOUS
    <2>4. Tidy(unit, rows1)
      BY <1>0, <2>3, BulkTidy
    <2>5. unit' = rows /\ task' = [t EXCEPT !.status = "failed"] /\ t \in TaskRow
      BY <1>0, <2>1, RefreshType DEF Before
    <2> HIDE DEF rows1, t
    <2>6. Tidy(rows1, rows)
      BY <1>0, <2>2, <2>3, BulkTidy
    <2>7. task'.status = "failed"
      BY <2>5, TaskFields
    <2> QED
      BY <2>4, <2>5, <2>6, <2>7, TidyCompose DEF Moves, CancelsEnd, Terminal
  <1>9. CASE RecoverAfterRestart
    <2>1. unit' = Requeue(unit, With(unit, InFlight), 1) /\ task.status \notin Terminal
      BY <1>9 DEF RecoverAfterRestart, Terminal
    <2> QED
      BY <1>0, <2>1, BulkMoves
  <1> QED
    BY <1>1, <1>2, <1>3, <1>4, <1>6, <1>7, <1>8, <1>9 DEF TaskCall

\* pause, resume, and a retry, which puts back whatever was canceled.
LEMMA PauseOrResumeMoves == ASSUME Before, PauseOrResume PROVE Moves
  <1>0. /\ unit \in [Unit -> UnitRow]
        /\ 1 \in Nat \ {0} /\ "failed" \in {"blocked", "needs_split", "failed", "canceled"}
    BY DEF Before, TypeOK
  <1>1. ASSUME NEW scope, Pause(scope) PROVE Moves
    <2>1. unit' = Requeue(unit, With(unit, InFlight), 1) /\ task.status \notin Terminal
      BY <1>1, Zenon DEF Pause, Terminal
    <2>2. "failed" \in {"blocked", "failed", "canceled"}
      OBVIOUS
    <2> QED
      BY <1>0, <2>1, <2>2, BulkMoves
  <1>2. ASSUME NEW source, ResumePaused(source) PROVE Moves
    <2> DEFINE rows == Requeue(unit, With(unit, {"blocked"}), 1)
    <2>1. task.status = "paused" /\ unit' = ResumedRows
      BY <1>2, Zenon DEF ResumePaused
    <2>2. Tidy(unit, rows) /\ NeverCancels(unit, rows) /\ rows \in [Unit -> UnitRow]
      BY <1>0, BulkTidy, RequeueType
    <2>3. \A u \in Unit : unit'[u] \in {rows[u], [rows[u] EXCEPT !.backoff = FALSE, !.waited = 0]}
      BY <2>1, Zenon DEF ResumedRows
    <2> HIDE DEF rows
    <2>4. ASSUME NEW u \in Unit
          PROVE  unit'[u].status = rows[u].status /\ (Fit(rows[u]) => Fit(unit'[u]))
      <3>1. rows[u] \in UnitRow
        BY <2>2
      <3> DEFINE q == [rows[u] EXCEPT !.backoff = FALSE, !.waited = 0]
      <3>2. q.status = rows[u].status /\ q.attempt = rows[u].attempt
            /\ q.maxAttempts = rows[u].maxAttempts
        BY <3>1, Zenon DEF UnitRow
      <3> HIDE DEF q
      <3>3. Fit(rows[u]) => Fit(q)
        BY <3>2 DEF Fit
      <3> QED
        BY <2>3, <3>2, <3>3 DEF q
    <2>5. Tidy(rows, unit') /\ NeverCancels(rows, unit')
      BY <2>4, Zenon DEF Tidy, NeverCancels
    <2>6. Tidy(unit, unit') /\ NeverCancels(unit, unit')
      BY <2>2, <2>5, TidyCompose
    <2> QED
      BY <2>1, <2>6, MovesOpen DEF Terminal
  <1>3. ASSUME NEW extra \in 1 .. MaxGrants, NEW source, RetryFailed(extra, source) PROVE Moves
    <2> DEFINE back == With(unit, {"failed", "canceled"} \union InFlight)
    <2>1. unit' = Requeue(unit, back, extra)
      BY <1>3, Zenon DEF RetryFailed
    <2>2. extra \in Nat \ {0}
      BY NumberAssumption
    <2>3. Tidy(unit, unit')
      BY <1>0, <2>1, <2>2, BulkTidy
    <2>4. \A u \in Unit : unit'[u].status = IF u \in back THEN "pending" ELSE unit[u].status
      BY <1>0, <2>1, RequeueFields
    <2>5. \A u \in Unit : unit'[u].status # "canceled"
      BY <2>4 DEF With
    <2> QED
      BY <2>3, <2>5 DEF Moves, CancelsEnd
  <1> QED
    BY <1>1, <1>2, <1>3 DEF PauseOrResume

\* Claims: what is granted has an attempt left.
LEMMA ClaimMoves == ASSUME Before, ClaimCall PROVE Moves
  <1>0. /\ unit \in [Unit -> UnitRow] /\ task \in TaskRow /\ RowsAtClaim \in [Unit -> UnitRow]
    BY RowsAtClaimFields DEF Before, TypeOK
  <1>1. 1 \in Nat \ {0} /\ {"failed", "canceled"} \subseteq {"blocked", "needs_split", "failed", "canceled"}
    OBVIOUS
  <1>2. Tidy(unit, RowsAtClaim) /\ NeverCancels(unit, RowsAtClaim)
    BY <1>0, <1>1, BulkTidy DEF RowsAtClaim
  <1>3. task.status \notin Terminal
    BY DEF ClaimCall, ClaimUnit, ClaimNothing, ClaimAfterExhaustion, ClaimAdmitted, Terminal
  <1>4. ASSUME NEW w, NEW u \in Unit, ClaimUnit(w, u) PROVE Moves
    <2> DEFINE row == RowsAtClaim[u]
               q == ClaimedRow(row, w)
    <2>1. unit' = [RowsAtClaim EXCEPT ![u] = q] /\ row.attempt < row.maxAttempts
      BY <1>4, Zenon DEF ClaimUnit, Ready
    <2>2. row \in UnitRow
      BY <1>0
    <2>3. 0 \in Nat
      OBVIOUS
    <2> HIDE DEF row
    <2>4. Fit(q)
      BY <2>1, <2>2, <2>3, RowsFit, Zenon
    <2>5. q.status = "claimed"
      BY <2>2, ClaimedRowFields
    <2> HIDE DEF q
    <2>6. Tidy(RowsAtClaim, unit') /\ NeverCancels(RowsAtClaim, unit')
      BY <1>0, <2>1, <2>4, <2>5, OneRowTidy
    <2>7. Tidy(unit, unit') /\ NeverCancels(unit, unit')
      BY <1>2, <2>6, TidyCompose
    <2> QED
      BY <1>3, <2>7, MovesOpen
  <1>5. CASE ClaimNothing
    <2>1. unit' = RowsAtClaim
      BY <1>5 DEF ClaimNothing
    <2> QED
      BY <1>2, <1>3, <2>1, MovesOpen
  <1>6. CASE ClaimAfterExhaustion
    <2> DEFINE rows == Settle(RowsAtClaim, With(RowsAtClaim, Open), "canceled")
               t == Refresh(task, rows)
    <2>1. unit' = rows /\ task' = [t EXCEPT !.status = "failed"] /\ t \in TaskRow
      BY <1>0, <1>6, RefreshType, Zenon DEF ClaimAfterExhaustion, Before
    <2> HIDE DEF t
    <2>2. Tidy(RowsAtClaim, rows)
      BY <1>0, <1>1, BulkTidy
    <2> HIDE DEF rows
    <2>3. task'.status = "failed" /\ Tidy(unit, unit')
      BY <1>2, <2>1, <2>2, TaskFields, TidyCompose
    <2> QED
      BY <2>3 DEF Moves, CancelsEnd, Terminal
  <1> QED
    BY <1>4, <1>5, <1>6 DEF ClaimCall

\* A split: fresh children have all their attempts, and what the split rewires
\* names the children or units that were there.
LEMMA SplitMoves ==
    ASSUME Before, FitRows(unit), DepsExist(unit), NoneCanceled, ExpandedFree,
           NEW tk \in tokens, SplitUnit(tk)
    PROVE  /\ FitRows(unit') /\ Acyclic(unit') /\ DepsExist(unit')
           /\ NoneCanceled' /\ ExpandedFree'
  <1> DEFINE p == tk.unit
             Known(children) == ((Unit \ With(unit, {"absent"})) \union children) \ {p}
  <1>1. PICK children \in SUBSET With(unit, {"absent"}) :
           \E deps \in [children -> SUBSET Known(children)] :
           \E needed, replacement \in SUBSET children :
              ExpandUnit(tk, children, deps, needed, replacement)
    BY Zenon DEF SplitUnit
  <1>2. PICK deps \in [children -> SUBSET Known(children)] :
           \E needed, replacement \in SUBSET children :
              ExpandUnit(tk, children, deps, needed, replacement)
    BY <1>1
  <1>3. PICK needed \in SUBSET children, replacement \in SUBSET children :
              ExpandUnit(tk, children, deps, needed, replacement)
    BY <1>2
  <1> DEFINE rows == ExpandedRows(p, children, deps, needed, replacement)
  <1>4. HoldsLease(tk) /\ unit' = rows /\ Acyclic(rows)
    BY <1>3, Zenon DEF ExpandUnit, WorkerCall
  <1>5. /\ p \in Unit /\ unit \in [Unit -> UnitRow] /\ unit[p].status \in InFlight
        /\ task.status \notin Terminal
    BY <1>4, HeldRow DEF Terminal
  <1>6. p \notin children /\ unit[p].status # "absent" /\ children \subseteq Unit
    BY <1>5 DEF With, InFlight
  <1>7. rows[p].status = "expanded" /\ ~rows[p].required /\ rows[p].deps = unit[p].deps
        /\ rows[p].attempt = unit[p].attempt /\ rows[p].maxAttempts = unit[p].maxAttempts
    <2>1. rows[p] = [unit[p] EXCEPT !.status = "expanded", !.required = FALSE,
                                    !.worker = NULL, !.lease = "none",
                                    !.settledBy = unit[p].worker]
      BY <1>5, Zenon DEF ExpandedRows
    <2>2. unit[p] \in UnitRow
      BY <1>5
    <2> QED
      BY <2>1, <2>2, Zenon DEF UnitRow
  <1>8. ASSUME NEW v \in children
        PROVE  /\ rows[v].status = "pending" /\ rows[v].deps = unit[p].deps \union deps[v]
               /\ rows[v].attempt = 0 /\ rows[v].maxAttempts = InitialAttempts
    <2>1. rows[v] = [InitialRow(v) EXCEPT !.status = "pending", !.required = v \in needed,
                                          !.deps = unit[p].deps \union deps[v]]
      BY <1>6, <1>8, Zenon DEF ExpandedRows
    <2> QED
      BY <2>1, Zenon DEF InitialRow
  <1>9. ASSUME NEW v \in Unit, v # p, v \notin children
        PROVE  /\ rows[v].status = unit[v].status /\ rows[v].required = unit[v].required
               /\ rows[v].attempt = unit[v].attempt
               /\ rows[v].maxAttempts = unit[v].maxAttempts
               /\ rows[v].deps = IF p \in unit[v].deps THEN (unit[v].deps \ {p}) \union replacement
                                 ELSE unit[v].deps
    <2>1. rows[v] = IF p \in unit[v].deps
                    THEN [unit[v] EXCEPT !.deps = (@ \ {p}) \union replacement]
                    ELSE unit[v]
      BY <1>9, Zenon DEF ExpandedRows
    <2>2. unit[v] \in UnitRow
      BY <1>5
    <2> DEFINE e == (unit[v].deps \ {p}) \union replacement
    <2>3. CASE p \in unit[v].deps
      <3>1. rows[v] = [unit[v] EXCEPT !.deps = e]
        BY <2>1, <2>3
      <3> HIDE DEF e, rows
      <3>2. /\ rows[v].status = unit[v].status /\ rows[v].required = unit[v].required
            /\ rows[v].attempt = unit[v].attempt
            /\ rows[v].maxAttempts = unit[v].maxAttempts /\ rows[v].deps = e
        BY <2>2, <3>1, Zenon DEF UnitRow
      <3> QED
        BY <2>3, <3>2 DEF e
    <2>4. CASE p \notin unit[v].deps
      <3>1. rows[v] = unit[v]
        BY <2>1, <2>4
      <3> HIDE DEF rows
      <3> QED
        BY <2>4, <3>1
    <2> QED
      BY <2>3, <2>4
  <1> HIDE DEF rows
  <1>10. FitRows(rows)
    <2> SUFFICES ASSUME NEW v \in Unit PROVE Fit(rows[v])
      BY DEF FitRows
    <2>0. Fit(unit[v])
      BY DEF FitRows
    <2>1. CASE v = p
      <3>1. Fit(unit[p])
        BY <2>0, <2>1
      <3> QED
        BY <1>7, <2>1, <3>1 DEF Fit
    <2>2. CASE v \in children
      BY <1>8, <2>2, NumberAssumption DEF Fit
    <2>3. CASE v # p /\ v \notin children
      BY <1>9, <2>0, <2>3 DEF Fit
    <2> QED
      BY <2>1, <2>2, <2>3
  <1>11. ASSUME NEW d \in Unit, unit[d].status # "absent" \/ d \in children
         PROVE  rows[d].status # "absent"
    BY <1>7, <1>8, <1>9, <1>11
  <1>12. DepsExist(rows)
    <2> SUFFICES ASSUME NEW v \in Unit, NEW d \in rows[v].deps PROVE rows[d].status # "absent"
      BY DEF DepsExist
    <2>1. \A x \in Unit : \A y \in unit[x].deps : y \in Unit /\ unit[y].status # "absent"
      BY <1>5 DEF DepsExist, UnitRow
    <2>2. CASE v = p
      BY <1>5, <1>7, <1>11, <2>1, <2>2
    <2>3. CASE v \in children
      <3>1. d \in unit[p].deps \/ d \in Known(children)
        BY <1>8, <2>3
      <3>2. d \in Unit /\ (unit[d].status # "absent" \/ d \in children)
        BY <1>5, <1>6, <2>1, <3>1 DEF With
      <3> QED
        BY <1>11, <3>2
    <2>4. CASE v # p /\ v \notin children
      <3>1. d \in unit[v].deps \/ d \in replacement
        BY <1>9, <2>4
      <3>2. d \in Unit /\ (unit[d].status # "absent" \/ d \in children)
        BY <1>6, <2>1, <3>1
      <3> QED
        BY <1>11, <3>2
    <2> QED
      BY <2>2, <2>3, <2>4
  <1>13. \A v \in Unit : rows[v].status # "canceled"
    BY <1>5, <1>7, <1>8, <1>9 DEF NoneCanceled
  <1>14. \A v \in Unit : rows[v].status = "expanded" => ~rows[v].required
    BY <1>7, <1>8, <1>9 DEF ExpandedFree
  <1> QED
    BY <1>4, <1>10, <1>12, <1>13, <1>14 DEF NoneCanceled, ExpandedFree

\* Every other step.
LEMMA StepMoves ==
    ASSUME Before, FitRows(unit), [Next]_vars
    PROVE  Moves \/ \E tk \in tokens : SplitUnit(tk)
  <1>1. CASE UNCHANGED vars
    BY <1>1, StillMoves DEF vars
  <1> QED
    BY <1>1, TickMoves, TaskCallMoves, PauseOrResumeMoves, ClaimMoves, UnitCallMoves DEF Next

\* The progress invariant survives every step.
LEMMA MoveInvStep == MoveInv /\ [Next]_vars => MoveInv'
  <1> SUFFICES ASSUME MoveInv, [Next]_vars PROVE MoveInv'
    OBVIOUS
  <1>1. /\ RefInv /\ Before /\ TypeOK /\ FitRows(unit) /\ Acyclic(unit) /\ DepsExist(unit)
        /\ NoneCanceled /\ ExpandedFree
    BY DEF MoveInv, RefInv, WorkInv, LeaseInv, Before
  <1>2. RefInv' /\ TypeOK'
    BY <1>1, AbsentStep DEF RefInv, WorkInv, LeaseInv
  <1>3. CASE \E tk \in tokens : SplitUnit(tk)
    <2>1. PICK tk \in tokens : SplitUnit(tk)
      BY <1>3
    <2>2. /\ FitRows(unit') /\ Acyclic(unit') /\ DepsExist(unit')
          /\ NoneCanceled' /\ ExpandedFree'
      BY <1>1, <2>1, SplitMoves
    <2>3. FitRows(unit)' /\ Acyclic(unit)' /\ DepsExist(unit)'
      BY <2>2 DEF FitRows, Fit, Acyclic, DepsExist
    <2> QED
      BY <1>2, <2>2, <2>3 DEF MoveInv
  <1>4. CASE Moves /\ Edges(unit, unit')
    <2>1. FitRows(unit')
      BY <1>1, <1>4, Zenon DEF Moves, Tidy, FitRows
    <2>2. Acyclic(unit')
      <3> SUFFICES ASSUME NEW S \in SUBSET Unit, S # {}
                   PROVE  \E u \in S : unit'[u].deps \intersect S = {}
        BY DEF Acyclic
      <3>1. PICK u \in S : unit[u].deps \intersect S = {}
        BY <1>1 DEF Acyclic
      <3>2. unit'[u].deps = unit[u].deps
        BY <1>4 DEF Edges
      <3> QED
        BY <3>1, <3>2
    <2>3. DepsExist(unit')
      <3> SUFFICES ASSUME NEW u \in Unit, NEW d \in unit'[u].deps PROVE unit'[d].status # "absent"
        BY DEF DepsExist
      <3>1. d \in unit[u].deps /\ d \in Unit
        BY <1>1, <1>4 DEF Edges, TypeOK, UnitRow
      <3>2. unit[d].status # "absent"
        BY <1>1, <3>1 DEF DepsExist
      <3> QED
        BY <1>4, <3>1, <3>2 DEF Moves, Tidy
    <2>4. NoneCanceled'
      BY <1>1, <1>4 DEF Moves, CancelsEnd, NeverCancels, NoneCanceled
    <2>5. ExpandedFree'
      BY <1>1, <1>4 DEF Moves, Tidy, Edges, ExpandedFree
    <2>6. FitRows(unit)' /\ Acyclic(unit)' /\ DepsExist(unit)'
      BY <2>1, <2>2, <2>3 DEF FitRows, Fit, Acyclic, DepsExist
    <2> QED
      BY <1>2, <2>4, <2>5, <2>6 DEF MoveInv
  <1> QED
    BY <1>1, <1>3, <1>4, StepMoves, StepEffect

\* Fresh tasks have it: the units have all their attempts and form a DAG.
LEMMA MoveInvInit == Init => MoveInv
  <1> SUFFICES ASSUME Init PROVE MoveInv
    OBVIOUS
  <1>1. ASSUME NEW u \in Unit
        PROVE  /\ unit[u].status = IF u \in InitialUnit THEN "pending" ELSE "absent"
               /\ unit[u].deps = IF u \in InitialUnit THEN InitialDeps[u] ELSE {}
               /\ unit[u].attempt = 0 /\ unit[u].maxAttempts = InitialAttempts
    BY Zenon DEF Init, InitialRow
  <1>2. FitRows(unit)
    BY <1>1, NumberAssumption DEF FitRows, Fit
  <1>3. \A u \in InitialUnit : InitialDeps[u] \subseteq InitialUnit
    BY UnitAssumption
  <1>4. Acyclic(unit)
    <2> SUFFICES ASSUME NEW S \in SUBSET Unit, S # {}
                 PROVE  \E u \in S : unit[u].deps \intersect S = {}
      BY DEF Acyclic
    <2>1. CASE S \subseteq InitialUnit
      <3>1. PICK u \in S : InitialDeps[u] \intersect S = {}
        BY <2>1, RecipeAssumption
      <3> QED
        BY <1>1, <2>1, <3>1
    <2>2. CASE ~(S \subseteq InitialUnit)
      BY <1>1, <2>2
    <2> QED
      BY <2>1, <2>2
  <1>5. DepsExist(unit)
    BY <1>1, <1>3, UnitAssumption DEF DepsExist
  <1>6. NoneCanceled /\ ExpandedFree
    BY <1>1 DEF NoneCanceled, ExpandedFree
  <1> QED
    BY <1>2, <1>4, <1>5, <1>6, RefInit DEF MoveInv

\* Among the units that wait to be claimed one waits for none of them.
LEMMA MoveInvMoves == MoveInv => SomebodyCanMove
  <1> SUFFICES ASSUME MoveInv, task.status = "running",
                      NEW u0 \in RequiredUnits(unit), unit[u0].status # "completed",
                      With(unit, InFlight \union {"blocked", "needs_split"}) = {},
                      \A u \in With(unit, {"waiting_retry"}) : ~unit[u].backoff,
                      \A u \in With(unit, {"pending", "waiting_retry"}) :
                         \A d \in unit[u].deps : unit[d].status \notin {"failed", "canceled", "expanded"}
               PROVE  Ready(unit) # {}
    BY DEF SomebodyCanMove
  <1>1. /\ TypeOK /\ LiveTask /\ AbsentFree /\ FitRows(unit) /\ Acyclic(unit) /\ DepsExist(unit)
        /\ NoneCanceled /\ ExpandedFree /\ unit \in [Unit -> UnitRow]
    BY DEF MoveInv, RefInv, WorkInv, LeaseInv, TypeOK
  <1> DEFINE S == With(unit, {"pending", "waiting_retry"})
  <1>2. ASSUME NEW u \in Unit
        PROVE  \/ u \in S
               \/ unit[u].status \in {"completed", "expanded", "failed", "canceled", "absent"}
    <2>1. unit[u].status \notin InFlight \union {"blocked", "needs_split"}
      BY DEF With
    <2>2. unit[u].status \in Open \union Closed \union {"absent"}
      BY <1>1 DEF UnitRow
    <2> QED
      BY <2>1, <2>2 DEF Open, Closed, Waiting, InFlight, With
  <1>3. u0 \in S
    <2>1. u0 \in Unit /\ unit[u0].required
      BY DEF RequiredUnits
    <2> QED
      BY <1>1, <1>2, <2>1 DEF LiveTask, AbsentFree, NoneCanceled, ExpandedFree, Terminal
  <1>4. PICK u \in S : unit[u].deps \intersect S = {}
    <2>1. S \in SUBSET Unit /\ S # {}
      BY <1>3 DEF With
    <2> QED
      BY <1>1, <2>1 DEF Acyclic
  <1>5. u \in Unit /\ unit[u].status \in {"pending", "waiting_retry"}
    BY <1>4 DEF With
  <1>6. \A d \in unit[u].deps : unit[d].status = "completed"
    <2> SUFFICES ASSUME NEW d \in unit[u].deps PROVE unit[d].status = "completed"
      OBVIOUS
    <2>1. d \in Unit /\ d \notin S /\ unit[d].status # "absent"
      BY <1>1, <1>4, <1>5 DEF UnitRow, DepsExist
    <2>2. unit[d].status \notin {"failed", "canceled", "expanded"}
      BY <1>4
    <2> QED
      BY <1>2, <2>1, <2>2
  <1>7. unit[u].attempt < unit[u].maxAttempts
    BY <1>1, <1>5 DEF FitRows, Fit
  <1>8. unit[u].status = "waiting_retry" => ~unit[u].backoff
    BY <1>5 DEF With
  <1> QED
    BY <1>5, <1>6, <1>7, <1>8 DEF Ready

\* A task that runs and owes work is never stuck with nothing to wait for: among
\* the units to be claimed one has all its inputs, and has an attempt left.
THEOREM SomebodyAlwaysCanMove == Spec => []SomebodyCanMove
  <1>1. MoveInv /\ [Next]_vars => MoveInv'
    BY MoveInvStep
  <1> QED
    BY <1>1, MoveInvInit, MoveInvMoves, PTL DEF Spec

-----------------------------------------------------------------------------
\* The task under its recovery: module LongTaskRecovery

\* Whoever drives the task, a step of the composed system is a step of the task.
LEMMA RecoveryStepIsTaskStep == [RecoveryNext]_allVars => [Next]_vars
  <1> SUFFICES ASSUME [RecoveryNext]_allVars PROVE [Next]_vars
    OBVIOUS
  <1>1. CASE UNCHANGED allVars
    BY <1>1 DEF allVars
  <1>2. CASE Execute
    BY <1>2, Zenon DEF Execute, ExecutorCall, Next, TaskCall
  <1>3. CASE HolderSettles
    <2>1. PICK tk \in tokens : CompleteUnit(tk, NULL) \/ SettleUnitFailure(tk)
      BY <1>3 DEF HolderSettles
    <2> QED
      BY <2>1, Zenon DEF Next, UnitCall
  <1>4. CASE HolderInterrupts
    BY <1>4, Zenon DEF HolderInterrupts, Next, UnitCall
  <1>5. CASE UnitLeaseLapses \/ BackoffLapses \/ ResumeFallsDue
    BY <1>5, Zenon DEF UnitLeaseLapses, BackoffLapses, ResumeFallsDue, Next, Tick
  <1>6. CASE RootEnds \/ RootLeaseLapses \/ RecoverDue \/ DispatchEnds \/ SubmitRun \/ Crash
    BY <1>6, Zenon DEF RootEnds, RootLeaseLapses, RecoverDue, DispatchEnds, SubmitRun, Crash
  <1>7. ASSUME NEW scope \in {"user", "system"}, Pause(scope) PROVE [Next]_vars
    BY <1>7, Zenon DEF Next, PauseOrResume
  <1>8. ASSUME NEW source \in {"user", "automatic"}, ResumePaused(source) PROVE [Next]_vars
    BY <1>8, Zenon DEF Next, PauseOrResume
  <1>9. CASE StartFails \/ RecoverOrphan \/ UserPause
    BY <1>7, <1>9, Zenon DEF StartFails, RecoverOrphan, UserPause
  <1>10. CASE AutomaticResume \/ UserResume
    BY <1>8, <1>10, Zenon DEF AutomaticResume, UserResume
  <1>11. CASE UserCancel
    BY <1>11, Zenon DEF UserCancel, Next, TaskCall
  <1>12. CASE Restart
    BY <1>12, Zenon DEF Restart, Next, TaskCall
  <1> QED
    BY <1>1, <1>2, <1>3, <1>4, <1>5, <1>6, <1>9, <1>10, <1>11, <1>12 DEF RecoveryNext

\* The composed system is a task: all that is proved of Spec holds of it.
THEOREM RecoveryImplementsTask == RecoverySpec => Spec
  <1>1. RecoveryInit => Init
    BY DEF RecoveryInit
  <1> QED
    BY <1>1, RecoveryStepIsTaskStep, PTL DEF RecoverySpec, Spec

\* What the other components keep is typed.
LEMMA RecoveryTypeStep == RecoveryTypeOK /\ [RecoveryNext]_allVars => RecoveryTypeOK'
  <1> SUFFICES ASSUME RecoveryTypeOK, [RecoveryNext]_allVars PROVE RecoveryTypeOK'
    OBVIOUS
  <1> USE DEF RecoveryTypeOK
  <1>1. CASE UNCHANGED allVars
    BY <1>1 DEF allVars, control
  <1>2. CASE UNCHANGED control
    BY <1>2 DEF control
  <1>3. CASE RootEnds \/ RootLeaseLapses \/ RecoverDue \/ DispatchEnds \/ SubmitRun
    BY <1>3 DEF RootEnds, RootLeaseLapses, RecoverDue, DispatchEnds, SubmitRun
  <1>4. CASE AutomaticResume \/ StartFails \/ Restart \/ RecoverOrphan
    BY <1>4 DEF AutomaticResume, StartFails, Restart, RecoverOrphan
  <1>5. CASE Intervene /\ (UserPause \/ UserResume \/ UserCancel \/ Crash)
    <2>1. interventions' \in 0 .. MaxInterventions
      BY <1>5, InterventionAssumption DEF Intervene
    <2>2. CancelRoots => root' \in {"none", "live", "expired"}
      BY DEF CancelRoots
    <2> QED
      BY <1>5, <2>1, <2>2 DEF UserPause, UserResume, UserCancel, Crash
  <1>6. UserPause \/ UserResume \/ UserCancel \/ Crash => Intervene
    BY DEF UserPause, UserResume, UserCancel, Crash
  <1> QED
    BY <1>1, <1>2, <1>3, <1>4, <1>5, <1>6
       DEF RecoveryNext, Execute, HolderSettles, HolderInterrupts, UnitLeaseLapses,
           BackoffLapses, ResumeFallsDue

\* Every reachable state of the composed system is typed.
THEOREM RecoveryTypeCorrect == RecoverySpec => [](TypeOK /\ RecoveryTypeOK)
  <1>1. RecoveryInit => RecoveryTypeOK
    <2>1. 0 \in 0 .. MaxInterventions
      BY InterventionAssumption
    <2> QED
      BY <2>1, Zenon DEF RecoveryInit, RecoveryTypeOK
  <1> QED
    BY <1>1, RecoveryTypeStep, RecoveryImplementsTask, TypeCorrect, PTL DEF RecoverySpec

\* What every run of the task keeps, it keeps under its recovery: a take-over, a
\* checkpoint or an automatic resume leaves no stale lease in force, no unit ahead
\* of its dependencies, no completion unearned and no failed unit in a live task.
THEOREM RecoveredTaskIsSafe ==
    RecoverySpec => /\ [](LatestLeaseSettles /\ DependenciesFirst)
                    /\ [](CompletionIsEarned /\ FailedUnitFailsTask /\ OverBudgetStopsWork)
                    /\ []SomebodyCanMove
                    /\ CompletedUnitIsFinal /\ NoWorkWhenStopped /\ LedgerSpec
  BY RecoveryImplementsTask, LatestLeaseSettlesAlways, DependenciesAlwaysFirst,
     CompletionAlwaysEarned, FailureAlwaysFailsTask, OverBudgetAlwaysStopsWork,
     SomebodyAlwaysCanMove, CompletedUnitStaysFinal, StoppedTaskDoesNoWork, TaskImplementsLedger, PTL

-----------------------------------------------------------------------------
\* The automatic recovery is paid for

\* What a step may do to the books of the automatic recovery.  Keep: a call that
\* does not write them, and makes no paused or ended task run.
SameBooks == /\ task'.autoAttempt = task.autoAttempt
             /\ task'.autoWaited = task.autoWaited
             /\ task'.autoResume = task.autoResume

Keep == SameBooks /\ \/ task'.status = task.status
                     \/ task'.status \in {"paused"} \union Terminal
                     \/ task.status = "pending" /\ task'.status = "running"

\* A system pause books one more automatic resume, or gives up.
Book ==
    /\ task.status \in {"pending", "running"} /\ task'.status = "paused"
    /\ task'.autoAttempt = task.autoAttempt + 1
    /\ \E delay \in Nat \ {0} :
          /\ task.autoAttempt = 0 => delay = 1
          /\ \/ /\ task.autoWaited + delay > WaitBudget
                /\ task'.autoResume = "exhausted" /\ task'.autoWaited = task.autoWaited
             \/ /\ task.autoWaited + delay <= WaitBudget
                /\ task'.autoResume = "scheduled" /\ task'.autoWaited = task.autoWaited + delay

\* A resume clears what is booked; the one of a user starts a fresh ledger.
Clear(source) ==
    /\ task.status = "paused" /\ task'.status = "running" /\ task'.autoResume = "none"
    /\ IF source = "user"
       THEN task'.autoAttempt = 0 /\ task'.autoWaited = 0
       ELSE task'.autoAttempt = task.autoAttempt /\ task'.autoWaited = task.autoWaited

\* Every backoff is at least one unit of the wait ledger, the first exactly one.
LEMMA BackoffPositive ==
    ASSUME NEW n \in Nat, NEW delay \in Backoff(n)
    PROVE  delay \in Nat \ {0} /\ (n = 1 => delay = 1)
  BY DEF Backoff, BackoffBase

\* What a system pause writes.
LEMMA SystemPauseBooks ==
    ASSUME task \in TaskRow, task.status \in {"pending", "running"}, PauseBySystem
    PROVE  Book
  <1>1. PICK delay \in Backoff(task.autoAttempt + 1) :
            task' = [ScheduleRecovery(task, delay) EXCEPT !.status = "paused", !.reason = "system"]
    BY DEF PauseBySystem
  <1>2. task.autoAttempt \in Nat /\ task.autoWaited \in Nat
    BY DEF TaskRow
  <1>3. delay \in Nat \ {0} /\ (task.autoAttempt = 0 => delay = 1)
    BY <1>2, BackoffPositive
  <1> DEFINE n == task.autoAttempt + 1
             m == task.autoWaited + delay
             gone   == [task EXCEPT !.autoAttempt = n, !.autoResume = "exhausted"]
             booked == [task EXCEPT !.autoAttempt = n, !.autoResume = "scheduled", !.autoWaited = m]
  <1>4. CASE m > WaitBudget
    <2>1. task' = [gone EXCEPT !.status = "paused", !.reason = "system"]
      BY <1>1, <1>4 DEF ScheduleRecovery
    <2> HIDE DEF n, m
    <2>2. /\ task'.status = "paused" /\ task'.autoAttempt = n
          /\ task'.autoResume = "exhausted" /\ task'.autoWaited = task.autoWaited
      BY <2>1, Zenon DEF TaskRow
    <2> QED
      BY <1>3, <1>4, <2>2 DEF Book, n, m
  <1>5. CASE ~(m > WaitBudget)
    <2>1. task' = [booked EXCEPT !.status = "paused", !.reason = "system"]
      BY <1>1, <1>5 DEF ScheduleRecovery
    <2> HIDE DEF n, m
    <2>2. /\ task'.status = "paused" /\ task'.autoAttempt = n
          /\ task'.autoResume = "scheduled" /\ task'.autoWaited = m
      BY <2>1, Zenon DEF TaskRow
    <2>3. m <= WaitBudget
      BY <1>2, <1>3, <1>5, NumberAssumption DEF m
    <2> QED
      BY <1>3, <2>2, <2>3 DEF Book, n, m
  <1> QED
    BY <1>4, <1>5

\* What the other writes of the row leave alone.
LEMMA BooksExcept ==
    ASSUME NEW t \in TaskRow, NEW x
    PROVE  /\ [t EXCEPT !.status = x].status = x
           /\ [t EXCEPT !.status = x].autoAttempt = t.autoAttempt
           /\ [t EXCEPT !.status = x].autoWaited = t.autoWaited
           /\ [t EXCEPT !.status = x].autoResume = t.autoResume
  BY Zenon DEF TaskRow

\* A refresh writes counters only.
LEMMA RefreshBooks ==
    ASSUME NEW t \in TaskRow, NEW rows
    PROVE  /\ Refresh(t, rows).status = t.status
           /\ Refresh(t, rows).autoAttempt = t.autoAttempt
           /\ Refresh(t, rows).autoWaited = t.autoWaited
           /\ Refresh(t, rows).autoResume = t.autoResume
  BY Zenon DEF TaskRow, Refresh

\* A resume of a paused task.
LEMMA ResumeBooks ==
    ASSUME task \in TaskRow, NEW source \in {"user", "automatic"}, ResumePaused(source)
    PROVE  Clear(source)
  <1> DEFINE t == ClearReason(task, source)
  <1>1. task.status = "paused" /\ task' = [t EXCEPT !.status = "running"]
    BY DEF ResumePaused
  <1>2. CASE source = "automatic"
    <2>1. t = [task EXCEPT !.reason = "none", !.autoResume = "none"]
      BY <1>2 DEF ClearReason
    <2>2. task' = [[task EXCEPT !.reason = "none", !.autoResume = "none"] EXCEPT !.status = "running"]
      BY <1>1, <2>1
    <2>3. /\ task'.status = "running" /\ task'.autoResume = "none"
          /\ task'.autoAttempt = task.autoAttempt /\ task'.autoWaited = task.autoWaited
      BY <2>2, Zenon DEF TaskRow
    <2> QED
      BY <1>1, <1>2, <2>3 DEF Clear
  <1>3. CASE source = "user"
    <2>1. t = [task EXCEPT !.reason = "none", !.autoResume = "none",
                           !.autoAttempt = 0, !.autoWaited = 0]
      BY <1>3 DEF ClearReason
    <2>2. task' = [[task EXCEPT !.reason = "none", !.autoResume = "none",
                                !.autoAttempt = 0, !.autoWaited = 0] EXCEPT !.status = "running"]
      BY <1>1, <2>1
    <2>3. /\ task'.status = "running" /\ task'.autoResume = "none"
          /\ task'.autoAttempt = 0 /\ task'.autoWaited = 0
      BY <2>2, Zenon DEF TaskRow
    <2> QED
      BY <1>1, <1>3, <2>3 DEF Clear
  <1> QED
    BY <1>2, <1>3

\* The classes above, and who belongs to them.
BookMove ==
    \/ Keep /\ dispatch' = dispatch
    \/ /\ SameBooks /\ task'.status = task.status
       /\ dispatch' = "dispatched" => task.status = "paused" /\ task.autoResume = "due"
    \/ /\ task.autoResume = "scheduled" /\ task'.autoResume = "due"
       /\ task'.status = task.status /\ dispatch' = dispatch
       /\ task'.autoAttempt = task.autoAttempt /\ task'.autoWaited = task.autoWaited
    \/ Book /\ dispatch' = dispatch
    \/ Clear("user") /\ dispatch' = dispatch
    \/ Clear("automatic") /\ dispatch = "dispatched" /\ dispatch' = "busy"

\* A call that leaves the task row alone keeps the books.
LEMMA KeepStutter == ASSUME UNCHANGED task PROVE Keep
  BY DEF Keep, SameBooks

\* The statuses a call may write without touching the books.
Lasting(x) == \/ x = task.status
              \/ x \in {"paused"} \union Terminal
              \/ task.status = "pending" /\ x = "running"

\* A call that writes its status keeps them too,
LEMMA KeepStatus ==
    ASSUME task \in TaskRow, NEW x, Lasting(x), task' = [task EXCEPT !.status = x]
    PROVE  Keep
  BY BooksExcept DEF Keep, SameBooks, Lasting

\* a call that refreshes the counters,
LEMMA KeepRefresh ==
    ASSUME task \in TaskRow, NEW rows, task' = Refresh(task, rows)
    PROVE  Keep
  BY RefreshBooks DEF Keep, SameBooks

\* and one that does both.
LEMMA KeepBoth ==
    ASSUME task \in TaskRow, NEW x, Lasting(x), NEW rows,
           task' = [Refresh(task, rows) EXCEPT !.status = x]
    PROVE  Keep
  <1>1. DOMAIN Refresh(task, rows) = DOMAIN task /\ "status" \in DOMAIN task
    BY Zenon DEF Refresh, TaskRow
  <1> DEFINE t == Refresh(task, rows)
  <1> HIDE DEF t
  <1>2. /\ task'.status = x /\ task'.autoAttempt = t.autoAttempt
        /\ task'.autoWaited = t.autoWaited /\ task'.autoResume = t.autoResume
    BY <1>1 DEF t
  <1> QED
    BY <1>2, RefreshBooks DEF Keep, SameBooks, Lasting, t

\* A pause books a resume if it is the system's, and keeps the books if the user's.
LEMMA PauseMoves ==
    ASSUME task \in TaskRow, NEW scope \in {"user", "system"}, Pause(scope)
    PROVE  (scope = "system" /\ Book) \/ (scope = "user" /\ Keep)
  <1>1. task.status \in {"pending", "running"}
    BY DEF Pause
  <1>2. CASE scope = "system"
    BY <1>1, <1>2, SystemPauseBooks DEF Pause
  <1>3. CASE scope = "user"
    <2>1. task' = [task EXCEPT !.status = "paused", !.reason = scope]
      BY <1>3 DEF Pause
    <2>2. /\ task'.status = "paused" /\ task'.autoAttempt = task.autoAttempt
          /\ task'.autoWaited = task.autoWaited /\ task'.autoResume = task.autoResume
      BY <2>1, Zenon DEF TaskRow
    <2> QED
      BY <1>3, <2>2 DEF Keep, SameBooks
  <1> QED
    BY <1>2, <1>3

\* The executor's calls keep the books.
LEMMA ExecutorKeeps == ASSUME task \in TaskRow, ExecutorCall PROVE Keep
  <1>1. CASE Start
    <2>1. Lasting("running") /\ task' = [task EXCEPT !.status = "running"]
      BY <1>1 DEF Start, Lasting
    <2> QED
      BY <2>1, KeepStatus
  <1>2. CASE FinalizeIfComplete
    <2>1. PICK x \in {"failed", "completed", "paused"} : task' = [task EXCEPT !.status = x]
      BY <1>2 DEF FinalizeIfComplete
    <2>2. Lasting(x)
      BY DEF Lasting, Terminal
    <2> QED
      BY <2>1, <2>2, KeepStatus
  <1>3. CASE ClaimAfterExhaustion
    <2>1. PICK rows : task' = [Refresh(task, rows) EXCEPT !.status = "failed"]
      BY <1>3 DEF ClaimAfterExhaustion
    <2>2. Lasting("failed")
      BY DEF Lasting, Terminal
    <2> QED
      BY <2>1, <2>2, KeepBoth
  <1>4. CASE ClaimNothing \/ \E w \in Worker, u \in Unit : ClaimUnit(w, u)
    <2>1. UNCHANGED task
      BY <1>4, Zenon DEF ClaimNothing, ClaimUnit
    <2> QED
      BY <2>1, KeepStutter
  <1> QED
    BY <1>1, <1>2, <1>3, <1>4 DEF ExecutorCall, ClaimCall

\* A worker's settlement keeps them too, unless its failure is systemic.
LEMMA HolderMoves == ASSUME TypeOK, HolderSettles PROVE Keep \/ Book
  <1>0. task \in TaskRow
    BY DEF TypeOK
  <1>1. PICK tk \in tokens : CompleteUnit(tk, NULL) \/ SettleUnitFailure(tk)
    BY DEF HolderSettles
  <1>2. CASE CompleteUnit(tk, NULL)
    <2>1. PICK rows : task' = Refresh(task, rows)
      BY <1>2 DEF CompleteUnit
    <2> QED
      BY <1>0, <2>1, KeepRefresh
  <1>3. ASSUME NEW d, SettleRetry(tk, d) \/ SettleNeedsSplit(tk) PROVE Keep
    BY <1>3, KeepStutter, Zenon DEF SettleRetry, SettleNeedsSplit
  <1>4. ASSUME NEW d, NEW systemic \in BOOLEAN, SettleBlocked(tk, d, systemic)
        PROVE  Keep \/ Book
    <2>1. PauseBySystem \/ UNCHANGED task
      BY <1>4, Zenon DEF SettleBlocked
    <2>2. task.status = "running"
      BY <1>4, Zenon DEF SettleBlocked, WorkerCall, HoldsLease
    <2> QED
      BY <1>0, <2>1, <2>2, SystemPauseBooks, KeepStutter
  <1>5. CASE SettleCanceled(tk)
    <2>1. Lasting("canceled") /\ task' = [task EXCEPT !.status = "canceled"]
      BY <1>5 DEF SettleCanceled, CanceledTask, Lasting, Terminal
    <2> QED
      BY <1>0, <2>1, KeepStatus
  <1>6. CASE SettleFailed(tk)
    <2>1. task' = [task EXCEPT !.status = "failed", !.failed = @ + 1]
      BY <1>6 DEF SettleFailed
    <2>2. /\ task'.status = "failed" /\ task'.autoAttempt = task.autoAttempt
          /\ task'.autoWaited = task.autoWaited /\ task'.autoResume = task.autoResume
      BY <1>0, <2>1, Zenon DEF TaskRow
    <2> QED
      BY <2>2 DEF Keep, SameBooks, Terminal
  <1> QED
    BY <1>1, <1>2, <1>3, <1>4, <1>5, <1>6, Zenon DEF SettleUnitFailure

\* Every step of the composed system is one of them.
LEMMA RecoveryMoves == ASSUME TypeOK, [RecoveryNext]_allVars PROVE BookMove
  <1>0. task \in TaskRow
    BY DEF TypeOK
  <1>s. UNCHANGED task /\ dispatch' \in {dispatch, "idle"} => BookMove
    BY KeepStutter DEF BookMove, SameBooks
  <1>1. CASE UNCHANGED allVars
    BY <1>s, <1>1 DEF allVars, vars, control
  <1>2. CASE Execute
    BY <1>0, <1>2, ExecutorKeeps DEF Execute, control, BookMove
  <1>3. CASE HolderSettles
    <2>1. dispatch' = dispatch
      BY <1>3 DEF HolderSettles, control
    <2> QED
      BY <1>3, <2>1, HolderMoves DEF BookMove
  <1>4. CASE HolderInterrupts
    <2>1. task' = [task EXCEPT !.status = "paused"] /\ dispatch' = dispatch
      BY <1>4 DEF HolderInterrupts, InterruptUnit, control
    <2>2. Lasting("paused")
      BY DEF Lasting
    <2> QED
      BY <1>0, <2>1, <2>2, KeepStatus DEF BookMove
  <1>5. CASE UnitLeaseLapses \/ BackoffLapses
    BY <1>s, <1>5 DEF UnitLeaseLapses, BackoffLapses, LeaseExpires, BackoffElapses, control
  <1>6. CASE ResumeFallsDue
    <2>1. /\ task.autoResume = "scheduled" /\ dispatch' = dispatch
          /\ task' = [task EXCEPT !.autoResume = "due"]
      BY <1>6 DEF ResumeFallsDue, AutoResumeFallsDue, control
    <2>2. /\ task'.autoResume = "due" /\ task'.status = task.status
          /\ task'.autoAttempt = task.autoAttempt /\ task'.autoWaited = task.autoWaited
      BY <1>0, <2>1, Zenon DEF TaskRow
    <2> QED
      BY <2>1, <2>2 DEF BookMove
  <1>7. CASE RootEnds \/ RootLeaseLapses \/ DispatchEnds \/ SubmitRun \/ Crash
    BY <1>s, <1>7 DEF RootEnds, RootLeaseLapses, DispatchEnds, SubmitRun, Crash, vars
  <1>8. CASE RecoverDue
    BY <1>8 DEF RecoverDue, vars, BookMove, SameBooks
  <1>9. CASE AutomaticResume
    BY <1>0, <1>9, ResumeBooks DEF AutomaticResume, BookMove
  <1>10. CASE UserResume
    BY <1>0, <1>10, ResumeBooks DEF UserResume, BookMove
  <1>11. CASE StartFails \/ RecoverOrphan
    <2>1. Pause("system") \/ UNCHANGED task
      BY <1>11 DEF StartFails, RecoverOrphan, vars
    <2>2. dispatch' = dispatch
      BY <1>11 DEF StartFails, RecoverOrphan
    <2> QED
      BY <1>0, <1>s, <2>1, <2>2, PauseMoves DEF BookMove
  <1>12. CASE UserPause
    <2>1. Pause("user") \/ UNCHANGED task
      BY <1>12 DEF UserPause, vars
    <2>2. dispatch' = dispatch
      BY <1>12 DEF UserPause
    <2> QED
      BY <1>0, <1>s, <2>1, <2>2, PauseMoves DEF BookMove
  <1>13. CASE UserCancel
    <2>1. task' = [task EXCEPT !.status = "canceled"] /\ dispatch' = dispatch
      BY <1>13 DEF UserCancel, Cancel, CancelTask, CanceledTask
    <2>2. Lasting("canceled")
      BY DEF Lasting, Terminal
    <2> QED
      BY <1>0, <2>1, <2>2, KeepStatus DEF BookMove
  <1>14. CASE Restart
    <2>1. dispatch' = dispatch
      BY <1>14 DEF Restart
    <2>2. UNCHANGED task \/ (task.status = "running" /\ PauseBySystem)
      BY <1>14 DEF Restart, RecoverAfterRestart, vars
    <2> QED
      BY <1>0, <1>s, <2>1, <2>2, SystemPauseBooks DEF BookMove
  <1> QED
    BY <1>1, <1>2, <1>3, <1>4, <1>5, <1>6, <1>7, <1>8, <1>9, <1>10, <1>11, <1>12, <1>13, <1>14
       DEF RecoveryNext

\* The invariant.  A task that runs has nothing booked; a dispatched recovery was
\* due, so the budget pays for a first wait, and if the task runs meanwhile, a
\* user resumed it and started a fresh ledger.
BooksInv ==
    /\ TypeOK /\ AutomaticRecoveryBounded
    /\ task.autoResume # "exhausted" => task.autoAttempt <= task.autoWaited
    /\ task.status \in {"pending", "running"} => task.autoResume = "none"
    /\ task.autoResume \in {"scheduled", "due"} => WaitBudget >= 1
    /\ dispatch = "dispatched" =>
          /\ WaitBudget >= 1 /\ task.autoResume # "exhausted" /\ task.status # "pending"
          /\ task.status = "running" => task.autoAttempt = 0 /\ task.autoWaited = 0

\* The created task has empty books.
LEMMA BooksInit == RecoveryInit => BooksInv
  <1> SUFFICES ASSUME RecoveryInit PROVE BooksInv
    OBVIOUS
  <1>1. /\ task.status = "pending" /\ task.autoResume = "none"
        /\ task.autoAttempt = 0 /\ task.autoWaited = 0 /\ dispatch = "idle"
    BY DEF RecoveryInit, Init
  <1>2. TypeOK
    BY InitType DEF RecoveryInit
  <1> QED
    BY <1>1, <1>2, NumberAssumption DEF BooksInv, AutomaticRecoveryBounded

\* Every step keeps them in order.
LEMMA BooksStep == BooksInv /\ [RecoveryNext]_allVars => BooksInv'
  <1> SUFFICES ASSUME BooksInv, [RecoveryNext]_allVars PROVE BooksInv'
    OBVIOUS
  <1>1. TypeOK /\ BookMove
    BY RecoveryMoves DEF BooksInv
  <1>2. TypeOK'
    BY <1>1, RecoveryStepIsTaskStep, TypeStep
  <1>3. /\ task.autoAttempt \in Nat /\ task.autoWaited \in Nat /\ WaitBudget \in Nat
        /\ task.autoResume \in {"none", "scheduled", "due", "exhausted"}
    BY <1>1, NumberAssumption DEF TypeOK, TaskRow
  <1> USE DEF BooksInv, AutomaticRecoveryBounded
  <1>4. CASE Keep /\ dispatch' = dispatch
    BY <1>2, <1>3, <1>4 DEF Keep, SameBooks, Terminal
  <1>5. CASE /\ SameBooks /\ task'.status = task.status
             /\ dispatch' = "dispatched" => task.status = "paused" /\ task.autoResume = "due"
    BY <1>2, <1>3, <1>5 DEF SameBooks
  <1>6. CASE /\ task.autoResume = "scheduled" /\ task'.autoResume = "due"
             /\ task'.status = task.status /\ dispatch' = dispatch
             /\ task'.autoAttempt = task.autoAttempt /\ task'.autoWaited = task.autoWaited
    BY <1>2, <1>3, <1>6
  <1>7. CASE Book /\ dispatch' = dispatch
    <2>1. PICK delay \in Nat \ {0} :
             /\ task.autoAttempt = 0 => delay = 1
             /\ \/ /\ task.autoWaited + delay > WaitBudget
                   /\ task'.autoResume = "exhausted" /\ task'.autoWaited = task.autoWaited
                \/ /\ task.autoWaited + delay <= WaitBudget
                   /\ task'.autoResume = "scheduled" /\ task'.autoWaited = task.autoWaited + delay
      BY <1>7 DEF Book
    <2>2. /\ task.autoAttempt <= task.autoWaited
          /\ task'.autoAttempt = task.autoAttempt + 1 /\ task'.status = "paused"
      BY <1>7 DEF Book
    <2> QED
      BY <1>2, <1>3, <1>7, <2>1, <2>2 DEF Book
  <1>8. CASE Clear("user") /\ dispatch' = dispatch
    BY <1>2, <1>3, <1>8 DEF Clear
  <1>9. CASE Clear("automatic") /\ dispatch = "dispatched" /\ dispatch' = "busy"
    BY <1>2, <1>3, <1>9 DEF Clear
  <1> QED
    BY <1>1, <1>4, <1>5, <1>6, <1>7, <1>8, <1>9 DEF BookMove

\* Between two commands of the user a task is paused by the system at most once
\* more than WaitBudget times: automatic recovery cannot go on for ever.
THEOREM AutomaticRecoveryAlwaysBounded == RecoverySpec => []AutomaticRecoveryBounded
  <1>1. BooksInv => AutomaticRecoveryBounded
    BY DEF BooksInv
  <1> QED
    BY <1>1, BooksInit, BooksStep, PTL DEF RecoverySpec

-----------------------------------------------------------------------------
\* Who is forgotten

\* The Run that drives the task holds its lease.
ExecutorHasRoot == continuation = "executing" => root = "live"

\* An executor that lost the lease of its Run has stopped driving.
LEMMA ExecutorStep == ExecutorHasRoot /\ [RecoveryNext]_allVars => ExecutorHasRoot'
  <1> SUFFICES ASSUME ExecutorHasRoot, [RecoveryNext]_allVars PROVE ExecutorHasRoot'
    OBVIOUS
  <1> USE DEF ExecutorHasRoot
  <1>1. CASE UNCHANGED <<continuation, root>>
    BY <1>1
  <1>2. CASE RootEnds \/ RootLeaseLapses \/ SubmitRun \/ StartFails \/ AutomaticResume
    BY <1>2 DEF RootEnds, RootLeaseLapses, SubmitRun, StartFails, AutomaticResume
  <1>3. CASE UserPause \/ UserResume \/ UserCancel \/ RecoverOrphan \/ Crash
    BY <1>3 DEF UserPause, UserResume, UserCancel, RecoverOrphan, Crash, CancelRoots
  <1> QED
    BY <1>1, <1>2, <1>3
       DEF RecoveryNext, allVars, control, Execute, HolderSettles, HolderInterrupts,
           UnitLeaseLapses, BackoffLapses, ResumeFallsDue, RecoverDue, DispatchEnds, Restart

\* Pauses and cancellations leave a task that does not run.
LEMMA StopFields ==
    ASSUME task \in TaskRow
    PROVE  /\ \A scope \in {"user", "system"} : Pause(scope) => task'.status # "running"
           /\ RecoverAfterRestart => task'.status # "running"
           /\ Cancel => task'.status # "running"
           /\ \A tk \in tokens : InterruptUnit(tk) => task'.status # "running"
  <1>1. ASSUME NEW scope \in {"user", "system"}, Pause(scope) PROVE task'.status # "running"
    <2>1. PauseBySystem \/ task' = [task EXCEPT !.status = "paused", !.reason = scope]
      BY <1>1 DEF Pause
    <2>2. task' = [task EXCEPT !.status = "paused", !.reason = scope] => task'.status = "paused"
      BY Zenon DEF TaskRow
    <2> QED
      BY <2>1, <2>2, PauseFields
  <1>2. RecoverAfterRestart => task'.status # "running"
    BY PauseFields DEF RecoverAfterRestart
  <1>3. Cancel => task'.status # "running"
    BY BooksExcept DEF Cancel, CancelTask, CanceledTask
  <1>4. ASSUME NEW tk \in tokens, InterruptUnit(tk) PROVE task'.status # "running"
    BY <1>4, BooksExcept DEF InterruptUnit
  <1> QED
    BY <1>1, <1>2, <1>3, <1>4

\* The call of a worker holds a live lease, and time passing grants none.
LEMMA LiveWorkSteps ==
    ASSUME TypeOK
    PROVE  /\ HolderSettles => LiveWork # {} /\ task.status = "running"
           /\ UnitLeaseLapses \/ BackoffLapses => LiveWork' \subseteq LiveWork
  <1>0. unit \in [Unit -> UnitRow]
    BY DEF TypeOK
  <1>1. ASSUME NEW tk \in tokens, CompleteUnit(tk, NULL) \/ SettleUnitFailure(tk)
        PROVE  LiveWork # {} /\ task.status = "running"
    <2>1. HoldsLease(tk)
      BY <1>1, Zenon DEF CompleteUnit, SettleUnitFailure, SettleRetry, SettleBlocked,
                         SettleNeedsSplit, SettleCanceled, SettleFailed, WorkerCall
    <2>2. tk.unit \in Unit
      BY TokenType
    <2> QED
      BY <2>1, <2>2 DEF HoldsLease, LiveWork, With
  <1>2. ASSUME NEW u \in Unit, LeaseExpires(u) PROVE LiveWork' \subseteq LiveWork
    <2> DEFINE q == [unit[u] EXCEPT !.lease = "expired"]
    <2>1. unit' = [unit EXCEPT ![u] = q] /\ unit[u] \in UnitRow
      BY <1>0, <1>2, Zenon DEF LeaseExpires
    <2>2. q.lease = "expired"
      BY <2>1, Zenon DEF UnitRow
    <2> HIDE DEF q
    <2> QED
      BY <1>0, <2>1, <2>2 DEF LiveWork, With
  <1>3. ASSUME NEW u \in Unit, BackoffElapses(u) PROVE LiveWork' \subseteq LiveWork
    <2> DEFINE q == [unit[u] EXCEPT !.backoff = FALSE]
    <2>1. unit' = [unit EXCEPT ![u] = q] /\ unit[u] \in UnitRow
      BY <1>0, <1>3, Zenon DEF BackoffElapses
    <2>2. q.lease = unit[u].lease /\ q.status = unit[u].status
      BY <2>1, Zenon DEF UnitRow
    <2> HIDE DEF q
    <2> QED
      BY <1>0, <2>1, <2>2 DEF LiveWork, With
  <1> QED
    BY <1>1, <1>2, <1>3 DEF HolderSettles, UnitLeaseLapses, BackoffLapses

\* The one way to be forgotten.
LEMMA ForgetStep ==
    ASSUME TypeOK, RecoveryTypeOK, ExecutorHasRoot, [RecoveryNext]_allVars,
           ~Forgotten, Forgotten'
    PROVE  continuation = "starting" /\ up /\ ~up' /\ LiveWork # {}
  <1>0. task \in TaskRow
    BY DEF TypeOK
  <1>f. /\ task'.status = "running" /\ continuation' = "none" /\ root' = "none"
        /\ up' \/ LiveWork' # {}
    BY DEF Forgotten
  <1>g. \/ task.status # "running" \/ continuation # "none" \/ root # "none"
        \/ ~up /\ LiveWork = {}
    BY DEF Forgotten
  <1>u. UNCHANGED unit => LiveWork' = LiveWork
    BY DEF LiveWork, With
  <1>1. CASE UNCHANGED allVars
    BY <1>f, <1>g, <1>u, <1>1 DEF allVars, vars, control
  <1>2. CASE Execute \/ UserResume \/ AutomaticResume \/ SubmitRun \/ RootLeaseLapses
    BY <1>f, <1>2 DEF Execute, control, UserResume, AutomaticResume, SubmitRun, RootLeaseLapses
  <1>3. CASE HolderSettles
    <2>1. LiveWork # {} /\ task.status = "running" /\ continuation = "none" /\ root = "none"
      BY <1>f, <1>3, LiveWorkSteps DEF HolderSettles, control
    <2> QED
      BY <1>g, <2>1
  <1>4. CASE HolderInterrupts \/ UserPause \/ UserCancel \/ StartFails \/ RecoverOrphan
    <2>1. task'.status # "running" \/ (UNCHANGED task /\ task.status # "running")
      BY <1>0, <1>4, StopFields
         DEF HolderInterrupts, UserPause, UserCancel, StartFails, RecoverOrphan, vars
    <2> QED
      BY <1>f, <2>1
  <1>5. CASE UnitLeaseLapses \/ BackoffLapses
    <2>1. UNCHANGED <<task, up, continuation, root>>
      BY <1>5 DEF UnitLeaseLapses, BackoffLapses, LeaseExpires, BackoffElapses, control
    <2> QED
      BY <1>f, <1>g, <1>5, <2>1, LiveWorkSteps
  <1>6. CASE ResumeFallsDue
    <2>1. UNCHANGED <<unit, up, continuation, root>> /\ task'.status = task.status
      BY <1>6, DueFields DEF ResumeFallsDue, control
    <2> QED
      BY <1>f, <1>g, <1>u, <2>1
  <1>7. CASE RootEnds \/ RecoverDue \/ DispatchEnds
    BY <1>f, <1>g, <1>u, <1>7 DEF RootEnds, RecoverDue, DispatchEnds, vars
  <1>8. CASE Crash
    <2>1. /\ up /\ ~up' /\ UNCHANGED <<task, unit, root>>
      BY <1>8 DEF Crash, vars
    <2>2. continuation # "none" /\ continuation # "executing" /\ LiveWork # {}
      BY <1>f, <1>g, <1>u, <2>1 DEF ExecutorHasRoot
    <2> QED
      BY <2>1, <2>2 DEF RecoveryTypeOK
  <1>9. CASE Restart
    <2>1. ~up /\ UNCHANGED <<continuation, root>>
      BY <1>9 DEF Restart
    <2>2. task'.status = "running" => UNCHANGED vars /\ (task.status = "running" => LiveWork # {})
      BY <1>0, <1>f, <1>9, <2>1, StopFields DEF Restart
    <2> QED
      BY <1>f, <1>g, <2>1, <2>2 DEF vars
  <1> QED
    BY <1>1, <1>2, <1>3, <1>4, <1>5, <1>6, <1>7, <1>8, <1>9 DEF RecoveryNext

\* Only a crash between a resume and the submission of its Run, with a unit lease
\* still live, leaves a running task that neither monitor nor startup will find.
THEOREM OnlyCrashAlwaysForgets == RecoverySpec => OnlyCrashForgets
  <1>1. RecoveryInit => ExecutorHasRoot
    BY DEF RecoveryInit, ExecutorHasRoot
  <1>2. TypeOK /\ RecoveryTypeOK /\ ExecutorHasRoot /\ [RecoveryNext]_allVars
           => [~Forgotten /\ Forgotten' =>
                  continuation = "starting" /\ up /\ ~up' /\ LiveWork # {}]_allVars
    BY ForgetStep
  <1> QED
    BY <1>1, <1>2, ExecutorStep, RecoveryTypeCorrect, PTL DEF RecoverySpec, OnlyCrashForgets
=============================================================================
