--------------------------- MODULE LongTask_proofs ---------------------------
(* Proofs about LongTask, for every set of units, workers and Runs. *)
EXTENDS LongTask, FiniteSetTheorems, TLAPS

\* A row whose status, worker, lease and attempt limit are rewritten is a row.
LEMMA RowType ==
    ASSUME NEW row \in UnitRow, NEW status \in Open \union Closed, NEW extra \in Nat
    PROVE  /\ [row EXCEPT !.status = status, !.worker = NULL, !.lease = "none"] \in UnitRow
           /\ [row EXCEPT !.status = status, !.worker = NULL, !.lease = "none",
                          !.maxAttempts = @ + extra] \in UnitRow
  <1>1. row.maxAttempts + extra \in Nat
    BY SMT DEF UnitRow
  <1> QED
    BY <1>1, Zenon DEF UnitRow

\* Settling rows keeps them well typed.
LEMMA SettleType ==
    ASSUME NEW rows \in [Unit -> UnitRow], NEW S,
           NEW status \in Open \union Closed
    PROVE  Settle(rows, S, status) \in [Unit -> UnitRow]
  <1>1. \A u \in Unit : [rows[u] EXCEPT !.status = status, !.worker = NULL, !.lease = "none"]
                            \in UnitRow
    BY RowType
  <1> QED
    BY <1>1, Zenon DEF Settle

\* So does requeueing them.
LEMMA RequeueType ==
    ASSUME NEW rows \in [Unit -> UnitRow], NEW S, NEW extra \in Nat
    PROVE  Requeue(rows, S, extra) \in [Unit -> UnitRow]
  <1>1. "pending" \in Open \union Closed
    BY DEF Open, Waiting
  <1>2. \A u \in Unit : [rows[u] EXCEPT !.status = "pending", !.worker = NULL, !.lease = "none",
                                         !.maxAttempts = @ + extra] \in UnitRow
    BY <1>1, RowType
  <1> QED
    BY <1>2, Zenon DEF Requeue

\* The counters are natural numbers because the units are finitely many.
LEMMA RefreshType ==
    ASSUME NEW t \in TaskRow, NEW rows
    PROVE  Refresh(t, rows) \in TaskRow /\ Refresh(t, rows).status = t.status
  <1> DEFINE need == RequiredUnits(rows)
  <1>1. /\ Cardinality(need) \in Nat
        /\ \A S : Cardinality(need \intersect With(rows, S)) \in Nat
    BY FS_Subset, FS_CardinalityType, UnitAssumption, Zenon DEF RequiredUnits, With
  <1> QED
    BY <1>1, Zenon DEF Refresh, TaskRow

\* Backoff delays are natural numbers.
LEMMA BackoffType == ASSUME NEW n \in Nat PROVE Backoff(n) \subseteq Nat
  BY SMT DEF Backoff, BackoffBase

\* A system pause keeps the task row well typed.
LEMMA PauseBySystemType ==
    ASSUME task \in TaskRow, PauseBySystem
    PROVE  task' \in TaskRow
  <1>1. task.autoAttempt + 1 \in Nat
    BY SMT DEF TaskRow
  <1>2. PICK delay \in Backoff(task.autoAttempt + 1) :
            task' = [ScheduleRecovery(task, delay) EXCEPT !.status = "paused", !.reason = "system"]
    BY DEF PauseBySystem
  <1>3. delay \in Nat
    BY <1>1, <1>2, BackoffType
  <1>4. task.autoWaited + delay \in Nat
    BY <1>3, SMT DEF TaskRow
  <1>5. ScheduleRecovery(task, delay) \in TaskRow
    BY <1>1, <1>4, Zenon DEF ScheduleRecovery, TaskRow
  <1> QED
    BY <1>2, <1>5, Zenon DEF TaskRow

-----------------------------------------------------------------------------
\* TypeOK is inductive: one lemma per group of actions.

\* The initial rows are well typed.
LEMMA InitialRowType == ASSUME NEW u \in Unit PROVE InitialRow(u) \in UnitRow
  <1>1. (IF u \in InitialUnit THEN InitialDeps[u] ELSE {}) \in SUBSET Unit
    BY UnitAssumption
  <1>2. InitialAttempts \in Nat /\ 0 \in Nat
    BY NumberAssumption
  <1>3. /\ (IF u \in InitialUnit THEN "pending" ELSE "absent") \in Open \union Closed \union {"absent"}
        /\ (u \in InitialUnit \ Optional) \in BOOLEAN
    BY DEF Open, Waiting
  <1> QED
    BY <1>1, <1>2, <1>3, Zenon DEF InitialRow, UnitRow

\* The rows a create command writes are well typed.
LEMMA InitType == Init => TypeOK
  <1> SUFFICES ASSUME Init PROVE TypeOK
    OBVIOUS
  <1>1. Cardinality(InitialUnit \ Optional) \in Nat
    BY UnitAssumption, FS_Subset, FS_CardinalityType, Zenon
  <1>2. task \in TaskRow
    BY <1>1, SMT DEF Init, TaskRow
  <1>3. unit \in [Unit -> UnitRow]
    BY InitialRowType, Zenon DEF Init
  <1> QED
    BY <1>2, <1>3 DEF Init, TypeOK

\* A token names a worker, a unit and an epoch.
LEMMA TokenType ==
    ASSUME TypeOK, NEW tk \in tokens
    PROVE  /\ tk \in Token
           /\ tk.unit \in Unit /\ tk.worker \in Worker /\ tk.epoch \in Nat
           /\ unit[tk.unit] \in UnitRow
  BY Zenon DEF TypeOK, Token

\* Time passing (a deadline, a lease, a backoff) keeps every row typed.
LEMMA TickType == ASSUME TypeOK, Tick PROVE TypeOK'
  <1>1. CASE DeadlineElapses
    BY <1>1 DEF DeadlineElapses, TypeOK
  <1>2. ASSUME NEW u \in Unit, LeaseExpires(u) PROVE TypeOK'
    <2>1. unit[u] \in UnitRow
      BY DEF TypeOK
    <2>2. [unit[u] EXCEPT !.lease = "expired"] \in UnitRow
      BY <2>1, Zenon DEF UnitRow
    <2>3. unit' \in [Unit -> UnitRow]
      BY <1>2, <2>2 DEF LeaseExpires, TypeOK
    <2> QED
      BY <1>2, <2>3 DEF LeaseExpires, TypeOK
  <1>3. ASSUME NEW u \in Unit, BackoffElapses(u) PROVE TypeOK'
    <2>1. unit[u] \in UnitRow
      BY DEF TypeOK
    <2>2. [unit[u] EXCEPT !.backoff = FALSE] \in UnitRow
      BY <2>1, Zenon DEF UnitRow
    <2>3. unit' \in [Unit -> UnitRow]
      BY <1>3, <2>2 DEF BackoffElapses, TypeOK
    <2> QED
      BY <1>3, <2>3 DEF BackoffElapses, TypeOK
  <1>4. CASE AutoResumeFallsDue
    <2>1. task \in TaskRow
      BY DEF TypeOK
    <2>2. task' \in TaskRow
      BY <1>4, <2>1, Zenon DEF AutoResumeFallsDue, TaskRow
    <2> QED
      BY <1>4, <2>2 DEF AutoResumeFallsDue, TypeOK
  <1> QED
    BY <1>1, <1>2, <1>3, <1>4 DEF Tick

\* Every status the bulk updates write.
LEMMA StatusType ==
    /\ {"pending", "blocked", "needs_split", "canceled", "failed"} \subseteq Open \union Closed
    /\ {"completed", "expanded", "claimed", "running", "waiting_retry"} \subseteq Open \union Closed
  BY DEF Open, Closed, Waiting, InFlight

\* _cancel_in_transaction keeps the rows typed.
LEMMA CancelType == ASSUME TypeOK, CancelTask PROVE TypeOK'
  <1>1. task' \in TaskRow
    BY Zenon DEF CancelTask, CanceledTask, TypeOK, TaskRow, Terminal
  <1>2. unit' \in [Unit -> UnitRow]
    BY SettleType, StatusType, Zenon DEF CancelTask, TypeOK
  <1> QED
    BY <1>1, <1>2 DEF CancelTask, TypeOK

\* _expire_deadline_in_transaction keeps the rows typed.
LEMMA ExpireType == ASSUME TypeOK, ExpireTask PROVE TypeOK'
  <1> DEFINE rows == Settle(unit, With(unit, Open), "failed")
  <1>1. Refresh(task, rows) \in TaskRow
    BY RefreshType, Zenon DEF TypeOK
  <1>2. task' \in TaskRow
    BY <1>1, Zenon DEF ExpireTask, TaskRow, Terminal
  <1>3. unit' \in [Unit -> UnitRow]
    BY SettleType, StatusType, Zenon DEF ExpireTask, TypeOK
  <1> QED
    BY <1>2, <1>3, Zenon DEF ExpireTask, TypeOK

\* _fail_budget keeps the rows typed.
LEMMA BudgetType ==
    ASSUME TypeOK
    PROVE  BudgetRows \in [Unit -> UnitRow] /\ BudgetTask \in TaskRow
  <1>1. BudgetRows \in [Unit -> UnitRow]
    BY SettleType, StatusType, Zenon DEF BudgetRows, TypeOK
  <1>2. Refresh(task, BudgetRows) \in TaskRow
    BY RefreshType, Zenon DEF TypeOK
  <1> QED
    BY <1>1, <1>2, Zenon DEF BudgetTask, TaskRow, Terminal

\* Statements about one task row, used by several actions.
LEMMA TaskRowType ==
    ASSUME NEW t \in TaskRow, NEW status \in Terminal \union {"pending", "running", "paused"}
    PROVE  [t EXCEPT !.status = status] \in TaskRow
  BY Zenon DEF TaskRow

\* fail keeps the rows typed.
LEMMA FailType == ASSUME TypeOK, Fail PROVE TypeOK'
  <1>1. PICK named :
            LET rows == Settle(Settle(unit, With(unit, InFlight) \union named, "failed"),
                               With(unit, Waiting) \ named, "canceled")
            IN unit' = rows /\ task' = [Refresh(task, rows) EXCEPT !.status = "failed"]
    BY Zenon DEF Fail
  <1> DEFINE rows == Settle(Settle(unit, With(unit, InFlight) \union named, "failed"),
                            With(unit, Waiting) \ named, "canceled")
  <1>2. rows \in [Unit -> UnitRow]
    BY SettleType, StatusType, Zenon DEF TypeOK
  <1>3. Refresh(task, rows) \in TaskRow
    BY RefreshType, Zenon DEF TypeOK
  <1>4. task' \in TaskRow
    BY <1>1, <1>3, TaskRowType, Zenon DEF Terminal
  <1> QED
    BY <1>1, <1>2, <1>4, Zenon DEF Fail, TypeOK

\* Every task-level call keeps the rows typed.
LEMMA TaskCallType == ASSUME TypeOK, TaskCall PROVE TypeOK'
  <1>1. CASE Start
    <2>1. task' \in TaskRow
      BY <1>1, TaskRowType, Zenon DEF Start, TypeOK
    <2> QED
      BY <1>1, <2>1 DEF Start, TypeOK
  <1>2. CASE ObserveDeadline
    BY <1>2, ExpireType DEF ObserveDeadline
  <1>3. CASE ClaimOverBudget
    BY <1>3, BudgetType DEF ClaimOverBudget, TypeOK
  <1>4. ASSUME NEW r \in Run, NEW n \in UsageSizes, RecordUsage(r, n) PROVE TypeOK'
    <2>1. used + n \in Nat
      BY NumberAssumption DEF TypeOK
    <2>2. task' \in TaskRow /\ unit' \in [Unit -> UnitRow]
      BY <1>4, BudgetType, Zenon DEF RecordUsage, TypeOK
    <2> QED
      BY <1>4, <2>1, <2>2 DEF RecordUsage, TypeOK
  <1>5. CASE RequestCancel
    <2>1. task' \in TaskRow
      BY <1>5, Zenon DEF RequestCancel, TypeOK, TaskRow
    <2> QED
      BY <1>5, <2>1 DEF RequestCancel, TypeOK
  <1>6. CASE ObserveCancel \/ Cancel
    BY <1>6, CancelType DEF ObserveCancel, Cancel
  <1>7. CASE Fail
    BY <1>7, FailType
  <1>8. CASE FinalizeIfComplete
    <2>1. PICK target \in {"failed", "completed", "paused", "running"} :
              task' = [task EXCEPT !.status = target]
      BY <1>8, Zenon DEF FinalizeIfComplete
    <2>2. task' \in TaskRow
      BY <2>1, TaskRowType, Zenon DEF TypeOK, Terminal
    <2> QED
      BY <1>8, <2>2, Zenon DEF FinalizeIfComplete, TypeOK
  <1>9. CASE RecoverAfterRestart
    <2>1. task' \in TaskRow
      BY <1>9, PauseBySystemType, Zenon DEF RecoverAfterRestart, TypeOK
    <2>2. unit' \in [Unit -> UnitRow]
      BY <1>9, RequeueType DEF RecoverAfterRestart, TypeOK
    <2> QED
      BY <1>9, <2>1, <2>2, Zenon DEF RecoverAfterRestart, TypeOK
  <1> QED
    BY <1>1, <1>2, <1>3, <1>4, <1>5, <1>6, <1>7, <1>8, <1>9 DEF TaskCall

\* pause, resume and a retry of a failed task keep the rows typed.
LEMMA PauseOrResumeType == ASSUME TypeOK, PauseOrResume PROVE TypeOK'
  <1>1. ASSUME NEW scope \in {"user", "system"}, Pause(scope) PROVE TypeOK'
    <2>1. task' \in TaskRow
      <3>1. CASE scope = "system"
        BY <1>1, <3>1, PauseBySystemType, Zenon DEF Pause, TypeOK
      <3>2. CASE scope = "user"
        BY <1>1, <3>2, Zenon DEF Pause, TypeOK, TaskRow
      <3> QED
        BY <3>1, <3>2
    <2>2. unit' \in [Unit -> UnitRow]
      BY <1>1, RequeueType DEF Pause, TypeOK
    <2> QED
      BY <1>1, <2>1, <2>2, Zenon DEF Pause, TypeOK
  <1>2. ASSUME NEW source \in {"user", "automatic"}, ResumePaused(source) PROVE TypeOK'
    <2>1. ClearReason(task, source) \in TaskRow
      BY Zenon DEF ClearReason, TypeOK, TaskRow
    <2>2. task' \in TaskRow
      BY <1>2, <2>1, TaskRowType, Zenon DEF ResumePaused
    <2> DEFINE rows == Requeue(unit, With(unit, {"blocked"}), 1)
    <2>3. rows \in [Unit -> UnitRow]
      BY RequeueType DEF TypeOK
    <2>4. \A u \in Unit : [rows[u] EXCEPT !.backoff = FALSE, !.waited = 0] \in UnitRow
      <3> TAKE u \in Unit
      <3>1. rows[u] \in UnitRow /\ 0 \in Nat
        BY <2>3
      <3> HIDE DEF rows
      <3> QED
        BY <3>1, Zenon DEF UnitRow
    <2>5. unit' \in [Unit -> UnitRow]
      BY <1>2, <2>3, <2>4, Zenon DEF ResumePaused, ResumedRows
    <2> QED
      BY <1>2, <2>2, <2>5, Zenon DEF ResumePaused, TypeOK
  <1>3. ASSUME NEW extra \in 1 .. MaxGrants, NEW source, RetryFailed(extra, source) PROVE TypeOK'
    <2>1. ClearReason(task, source) \in TaskRow
      BY Zenon DEF ClearReason, TypeOK, TaskRow
    <2>2. task' \in TaskRow
      BY <1>3, <2>1, Zenon DEF RetryFailed, TaskRow
    <2>3. unit' \in [Unit -> UnitRow]
      BY <1>3, RequeueType, NumberAssumption DEF RetryFailed, TypeOK
    <2> QED
      BY <1>3, <2>2, <2>3, Zenon DEF RetryFailed, TypeOK
  <1> QED
    BY <1>1, <1>2, <1>3 DEF PauseOrResume

\* The row a claim writes is a unit row.
LEMMA ClaimedRowType ==
    ASSUME NEW row \in UnitRow, NEW w \in Worker
    PROVE  ClaimedRow(row, w) \in UnitRow
  <1>1. row.attempt + 1 \in Nat /\ row.epoch + 1 \in Nat
    BY SMT DEF UnitRow
  <1>2. "claimed" \in Open
    BY DEF Open, InFlight
  <1> QED
    BY <1>1, <1>2, Zenon DEF ClaimedRow, UnitRow

\* The three outcomes of a claim keep the rows and the lease history typed.
LEMMA ClaimCallType == ASSUME TypeOK, ClaimCall PROVE TypeOK'
  <1>1. RowsAtClaim \in [Unit -> UnitRow]
    BY SettleType, StatusType DEF RowsAtClaim, TypeOK
  <1>2. ASSUME NEW w \in Worker, NEW u \in Unit, ClaimUnit(w, u) PROVE TypeOK'
    <2>1. unit' \in [Unit -> UnitRow]
      BY <1>1, <1>2, ClaimedRowType, Zenon DEF ClaimUnit
    <2>2. unit[u].epoch + 1 \in Nat
      BY DEF TypeOK, UnitRow
    <2>3. [worker |-> w, unit |-> u, epoch |-> unit[u].epoch + 1] \in Token
      BY <2>2 DEF Token
    <2>4. tokens' \subseteq Token
      BY <1>2, <2>3 DEF ClaimUnit, TypeOK
    <2> QED
      BY <1>2, <2>1, <2>4, Zenon DEF ClaimUnit, TypeOK
  <1>3. CASE ClaimNothing
    BY <1>1, <1>3 DEF ClaimNothing, TypeOK
  <1>4. CASE ClaimAfterExhaustion
    <2> DEFINE rows == Settle(RowsAtClaim, With(RowsAtClaim, Open), "canceled")
    <2>1. rows \in [Unit -> UnitRow]
      BY <1>1, SettleType, StatusType
    <2>2. [Refresh(task, rows) EXCEPT !.status = "failed"] \in TaskRow
      BY RefreshType, TaskRowType, Zenon DEF TypeOK, Terminal
    <2> QED
      BY <1>4, <2>1, <2>2, Zenon DEF ClaimAfterExhaustion, TypeOK
  <1> QED
    BY <1>2, <1>3, <1>4 DEF ClaimCall

\* The rows a settled failure leaves behind.
LEMMA FailureRowType ==
    ASSUME NEW row \in UnitRow, NEW n \in Nat, NEW m \in Nat
    PROVE  /\ BlockedRow(row, n, m) \in UnitRow
           /\ WaitingRow(row, n, m) \in UnitRow
           /\ [row EXCEPT !.waited = 0, !.backoff = FALSE] \in UnitRow
  <1>1. row.maxAttempts + m \in Nat /\ row.waited + n \in Nat /\ 0 \in Nat
    BY SMT DEF UnitRow
  <1>2. "blocked" \in Open /\ "waiting_retry" \in Open
    BY DEF Open, Waiting
  <1> QED
    BY <1>1, <1>2, Zenon DEF BlockedRow, WaitingRow, UnitRow

\* settle_unit_failure keeps the rows typed for every disposition.
LEMMA SettleUnitFailureType ==
    ASSUME TypeOK, NEW tk \in tokens, SettleUnitFailure(tk)
    PROVE  TypeOK'
  <1> DEFINE row == unit[tk.unit]
  <1>0. tk.unit \in Unit /\ row \in UnitRow /\ row.waited \in Nat
    BY TokenType, Zenon DEF UnitRow
  <1>1. ASSUME NEW d, SettleRetry(tk, d) PROVE TypeOK'
    <2> DEFINE grant == Grant(row, d)
    <2>1. PICK delay \in Backoff(row.attempt) :
              unit' = [unit EXCEPT ![tk.unit] = WaitingRow(@, delay, grant)]
      BY <1>1, Zenon DEF SettleRetry
    <2>2. row.attempt \in Nat
      BY <1>0 DEF UnitRow
    <2>3. delay \in Nat /\ grant \in Nat
      BY <2>1, <2>2, BackoffType DEF Grant
    <2>4. WaitingRow(row, delay, grant) \in UnitRow
      BY <1>0, <2>3, FailureRowType
    <2>5. unit' \in [Unit -> UnitRow]
      BY <1>0, <2>1, <2>4, Zenon DEF TypeOK
    <2> QED
      BY <1>1, <2>5, Zenon DEF SettleRetry, TypeOK
  <1>2. ASSUME NEW d, NEW systemic \in BOOLEAN, SettleBlocked(tk, d, systemic) PROVE TypeOK'
    <2> DEFINE retry == d \in {"retry_attempt", "resume_checkpoint"}
               grant == Grant(row, d)
               rows == [unit EXCEPT ![tk.unit] =
                          BlockedRow(@, IF retry THEN @.waited ELSE 0, grant)]
    <2>1. (IF retry THEN row.waited ELSE 0) \in Nat /\ grant \in Nat
      BY <1>0 DEF Grant
    <2>2. rows \in [Unit -> UnitRow]
      <3> HIDE DEF retry, grant
      <3>1. BlockedRow(row, IF retry THEN row.waited ELSE 0, grant) \in UnitRow
        BY <1>0, <2>1, FailureRowType
      <3> QED
        BY <1>0, <3>1, Zenon DEF TypeOK
    <2>3. /\ IF systemic THEN unit' = Requeue(rows, With(unit, InFlight) \ {tk.unit}, 1) /\ PauseBySystem
                         ELSE unit' = rows /\ UNCHANGED task
          /\ UNCHANGED <<used, recorded, deadlineElapsed, tokens>>
      BY <1>2, Zenon DEF SettleBlocked
    <2> HIDE DEF rows
    <2>4. unit' \in [Unit -> UnitRow]
      BY <2>2, <2>3, RequeueType
    <2>5. task' \in TaskRow
      BY <2>3, PauseBySystemType, Zenon DEF TypeOK
    <2> QED
      BY <2>3, <2>4, <2>5, Zenon DEF TypeOK
  <1>3. \A status \in {"needs_split", "canceled", "failed"} :
           RowsEnded(tk, status) \in [Unit -> UnitRow]
    <2> TAKE status \in {"needs_split", "canceled", "failed"}
    <2> DEFINE rows == Settle(unit, {tk.unit}, status)
    <2>1. rows \in [Unit -> UnitRow]
      BY SettleType, StatusType DEF TypeOK
    <2>2. RowsEnded(tk, status) = [rows EXCEPT ![tk.unit] = [@ EXCEPT !.waited = 0, !.backoff = FALSE]]
      BY DEF RowsEnded
    <2> HIDE DEF rows
    <2>3. [rows[tk.unit] EXCEPT !.waited = 0, !.backoff = FALSE] \in UnitRow
      BY <1>0, <2>1, FailureRowType
    <2> QED
      BY <1>0, <2>1, <2>2, <2>3, Zenon
  <1>4. CASE SettleNeedsSplit(tk)
    BY <1>3, <1>4, Zenon DEF SettleNeedsSplit, TypeOK
  <1>5. CASE SettleCanceled(tk)
    <2>1. task' \in TaskRow
      BY <1>5, TaskRowType, Zenon DEF SettleCanceled, CanceledTask, TypeOK, Terminal
    <2> QED
      BY <1>3, <1>5, <2>1, Zenon DEF SettleCanceled, TypeOK
  <1>6. CASE SettleFailed(tk)
    <2>1. task.failed + 1 \in Nat
      BY DEF TypeOK, TaskRow
    <2>2. task' \in TaskRow
      BY <1>6, <2>1, Zenon DEF SettleFailed, TypeOK, TaskRow, Terminal
    <2>3. unit' \in [Unit -> UnitRow]
      BY <1>3, <1>6, SettleType, StatusType, Zenon DEF SettleFailed
    <2> QED
      BY <1>6, <2>2, <2>3, Zenon DEF SettleFailed, TypeOK
  <1> QED
    BY <1>1, <1>2, <1>4, <1>5, <1>6, Zenon DEF SettleUnitFailure

\* A split writes well-typed rows.
LEMMA ExpandedRowsType ==
    ASSUME TypeOK, NEW u \in Unit, NEW children \in SUBSET Unit,
           NEW deps \in [children -> SUBSET Unit],
           NEW needed, NEW replacement \in SUBSET Unit
    PROVE  ExpandedRows(u, children, deps, needed, replacement) \in [Unit -> UnitRow]
  <1> DEFINE new(v) == ExpandedRows(u, children, deps, needed, replacement)[v]
  <1>1. ASSUME NEW v \in Unit PROVE new(v) \in UnitRow
    <2>0. unit[v] \in UnitRow /\ unit[u] \in UnitRow
      BY DEF TypeOK
    <2>1. CASE v = u
      <3>1. new(v) = [unit[v] EXCEPT !.status = "expanded", !.required = FALSE,
                                     !.worker = NULL, !.lease = "none",
                                     !.settledBy = unit[u].worker]
        BY <2>1, Zenon DEF ExpandedRows
      <3>2. unit[u].worker \in Worker \union {NULL}
        BY <2>0, Zenon DEF UnitRow
      <3> QED
        BY <2>0, <3>1, <3>2, StatusType, Zenon DEF UnitRow, Closed
    <2>2. CASE v # u /\ v \in children
      <3>1. new(v) = [InitialRow(v) EXCEPT !.status = "pending", !.required = v \in needed,
                                           !.deps = unit[u].deps \union deps[v]]
        BY <2>2, Zenon DEF ExpandedRows
      <3>2. unit[u].deps \union deps[v] \in SUBSET Unit
        BY <2>0, <2>2 DEF UnitRow
      <3>3. (v \in needed) \in BOOLEAN
        OBVIOUS
      <3> QED
        BY <3>1, <3>2, <3>3, InitialRowType, Zenon DEF UnitRow, Open, Waiting
    <2>3. CASE v # u /\ v \notin children /\ u \in unit[v].deps
      <3>1. new(v) = [unit[v] EXCEPT !.deps = (@ \ {u}) \union replacement]
        BY <2>3, Zenon DEF ExpandedRows
      <3>2. (unit[v].deps \ {u}) \union replacement \in SUBSET Unit
        BY <2>0 DEF UnitRow
      <3> QED
        BY <2>0, <3>1, <3>2, Zenon DEF UnitRow
    <2>4. CASE v # u /\ v \notin children /\ u \notin unit[v].deps
      BY <2>0, <2>4, Zenon DEF ExpandedRows
    <2> QED
      BY <2>1, <2>2, <2>3, <2>4
  <1> QED
    BY <1>1, Zenon DEF ExpandedRows

\* expand_unit keeps the rows typed.
LEMMA SplitUnitType ==
    ASSUME TypeOK, NEW tk \in tokens, SplitUnit(tk)
    PROVE  TypeOK'
  <1>0. tk.unit \in Unit
    BY TokenType
  <1>1. PICK children \in SUBSET With(unit, {"absent"}) :
           LET known == ((Unit \ With(unit, {"absent"})) \union children) \ {tk.unit} IN
           \E deps \in [children -> SUBSET known] :
           \E needed, replacement \in SUBSET children :
              ExpandUnit(tk, children, deps, needed, replacement)
    BY Zenon DEF SplitUnit
  <1>2. children \in SUBSET Unit
    BY <1>1 DEF With
  <1>3. PICK deps \in [children -> SUBSET Unit], needed, replacement \in SUBSET Unit :
           ExpandUnit(tk, children, deps, needed, replacement)
    BY <1>1, <1>2
  <1> DEFINE rows == ExpandedRows(tk.unit, children, deps, needed, replacement)
  <1>4. rows \in [Unit -> UnitRow]
    BY <1>0, <1>2, <1>3, ExpandedRowsType
  <1>5. Refresh(task, rows) \in TaskRow
    BY RefreshType, Zenon DEF TypeOK
  <1>6. /\ unit' = rows /\ task' = Refresh(task, rows)
        /\ UNCHANGED <<used, recorded, deadlineElapsed, tokens>>
    BY <1>3, Zenon DEF ExpandUnit
  <1> QED
    BY <1>4, <1>5, <1>6, Zenon DEF TypeOK

\* Every call made with a lease keeps the rows typed.
LEMMA UnitCallType == ASSUME TypeOK, UnitCall PROVE TypeOK'
  <1>0. PICK tk \in tokens :
           \/ \E r \in Run : BindUnitRun(tk, r)
           \/ RenewUnitLease(tk)
           \/ \E r \in Run \union {NULL} : CompleteUnit(tk, r)
           \/ SettleUnitFailure(tk)
           \/ SplitUnit(tk)
           \/ InterruptUnit(tk)
    BY DEF UnitCall
  <1> DEFINE row == unit[tk.unit]
  <1>r. tk.unit \in Unit /\ tk.worker \in Worker /\ tk.epoch \in Nat /\ row \in UnitRow
    BY TokenType
  <1>1. ASSUME NEW r \in Run, BindUnitRun(tk, r) PROVE TypeOK'
    <2>1. unit' = [unit EXCEPT ![tk.unit] = [@ EXCEPT !.status = "running", !.run = r]]
      BY <1>1, Zenon DEF BindUnitRun
    <2>2. [row EXCEPT !.status = "running", !.run = r] \in UnitRow
      BY <1>r, StatusType, Zenon DEF UnitRow, Open, InFlight
    <2>3. unit' \in [Unit -> UnitRow]
      BY <1>r, <2>1, <2>2, Zenon DEF TypeOK
    <2> QED
      BY <1>1, <2>3, Zenon DEF BindUnitRun, TypeOK
  <1>2. CASE RenewUnitLease(tk)
    <2>1. unit' = [unit EXCEPT ![tk.unit] = [@ EXCEPT !.lease = "live"]]
      BY <1>2, Zenon DEF RenewUnitLease
    <2>2. [row EXCEPT !.lease = "live"] \in UnitRow
      BY <1>r, Zenon DEF UnitRow
    <2>3. unit' \in [Unit -> UnitRow]
      BY <1>r, <2>1, <2>2, Zenon DEF TypeOK
    <2> QED
      BY <1>2, <2>3, Zenon DEF RenewUnitLease, TypeOK
  <1>3. ASSUME NEW r \in Run \union {NULL}, CompleteUnit(tk, r) PROVE TypeOK'
    <2> DEFINE rows == [unit EXCEPT ![tk.unit] = CompletedRow(@, tk, r)]
    <2>1. unit' = rows /\ task' = Refresh(task, rows)
      BY <1>3, Zenon DEF CompleteUnit
    <2>2. CompletedRow(row, tk, r) \in UnitRow
      BY <1>r, StatusType, Zenon DEF CompletedRow, UnitRow, Closed
    <2>3. unit' \in [Unit -> UnitRow]
      BY <1>r, <2>1, <2>2, Zenon DEF TypeOK
    <2>4. task' \in TaskRow
      BY <2>1, RefreshType, Zenon DEF TypeOK
    <2> QED
      BY <1>3, <2>3, <2>4, Zenon DEF CompleteUnit, TypeOK
  <1>4. CASE InterruptUnit(tk)
    <2>1. unit' \in [Unit -> UnitRow]
      BY <1>4, RequeueType DEF InterruptUnit, TypeOK
    <2>2. task' \in TaskRow
      BY <1>4, TaskRowType, Zenon DEF InterruptUnit, TypeOK
    <2> QED
      BY <1>4, <2>1, <2>2, Zenon DEF InterruptUnit, TypeOK
  <1> QED
    BY <1>0, <1>1, <1>2, <1>3, <1>4, SettleUnitFailureType, SplitUnitType

\* Every step of the specification preserves the types.
LEMMA TypeStep == TypeOK /\ [Next]_vars => TypeOK'
  <1> SUFFICES ASSUME TypeOK, [Next]_vars PROVE TypeOK'
    OBVIOUS
  <1>1. CASE UNCHANGED vars
    BY <1>1 DEF vars, TypeOK
  <1> QED
    BY <1>1, TickType, TaskCallType, PauseOrResumeType, ClaimCallType, UnitCallType, Zenon DEF Next

\* Every row the repository methods write is well formed: statuses from the
\* enum, epochs, attempts and counters never negative, workers and Runs known.
THEOREM TypeCorrect == Spec => []TypeOK
  BY InitType, TypeStep, PTL DEF Spec

-----------------------------------------------------------------------------
\* The latest lease settles.  Of all actions only a claim and a completion
\* touch what the invariant speaks of; every other step is quiet.

\* Row r becomes row q without a claim, a completion or a result lost.
QuietRow(r, q) ==
    /\ q.epoch = r.epoch
    /\ q.status \in InFlight => r.status \in InFlight /\ q.worker = r.worker
    /\ q.status = "completed" <=> r.status = "completed"
    /\ r.status = "completed" => q.output = r.output /\ q.settledBy = r.settledBy
    /\ q.status = "absent" => r.status = "absent"

QuietRows(rows, next) == \A u \in Unit : QuietRow(rows[u], next[u])

\* An id without a row was never claimed.
AbsentUnclaimed == \A u \in Unit : unit[u].status = "absent" => unit[u].epoch = 0

\* The inductive invariant.
LeaseInv == TypeOK /\ AbsentUnclaimed /\ LatestLeaseSettles

\* The statuses a bulk update selects exclude finished units.
LEMMA OpenStatus ==
    /\ \A s \in Open \union {"failed", "canceled"} : s # "completed" /\ s # "absent"
    /\ InFlight \subseteq Open /\ Waiting \subseteq Open
    /\ "completed" \notin InFlight /\ "absent" \notin InFlight
    /\ {"pending", "blocked", "needs_split", "waiting_retry", "canceled", "failed",
        "expanded"} \intersect (InFlight \union {"completed", "absent"}) = {}
    /\ {"claimed", "running"} = InFlight
  BY DEF Open, Waiting, InFlight

\* Settling or requeueing unfinished units is quiet.
LEMMA SettleQuiet ==
    ASSUME NEW rows \in [Unit -> UnitRow], NEW S,
           NEW status \in {"pending", "blocked", "needs_split", "canceled", "failed"},
           \A u \in S : u \in Unit => rows[u].status \in Open \union {"failed", "canceled"}
    PROVE  QuietRows(rows, Settle(rows, S, status))
  <1> SUFFICES ASSUME NEW u \in Unit
               PROVE  QuietRow(rows[u], Settle(rows, S, status)[u])
    BY DEF QuietRows
  <1>0. rows[u] \in UnitRow
    OBVIOUS
  <1>1. CASE u \in S
    <2>1. Settle(rows, S, status)[u] =
             [rows[u] EXCEPT !.status = status, !.worker = NULL, !.lease = "none"]
      BY <1>1, Zenon DEF Settle
    <2>2. /\ Settle(rows, S, status)[u].status = status
          /\ Settle(rows, S, status)[u].epoch = rows[u].epoch
      BY <1>0, <2>1, Zenon DEF UnitRow
    <2> QED
      BY <1>1, <2>2, OpenStatus, Zenon DEF QuietRow
  <1>2. CASE u \notin S
    BY <1>2, Zenon DEF Settle, QuietRow
  <1> QED
    BY <1>1, <1>2

\* Putting units that are not finished back to pending is quiet.
LEMMA RequeueQuiet ==
    ASSUME NEW rows \in [Unit -> UnitRow], NEW S, NEW extra,
           \A u \in S : u \in Unit => rows[u].status \in Open \union {"failed", "canceled"}
    PROVE  QuietRows(rows, Requeue(rows, S, extra))
  <1> SUFFICES ASSUME NEW u \in Unit
               PROVE  QuietRow(rows[u], Requeue(rows, S, extra)[u])
    BY DEF QuietRows
  <1>0. rows[u] \in UnitRow
    OBVIOUS
  <1>1. CASE u \in S
    <2>1. Requeue(rows, S, extra)[u] =
             [rows[u] EXCEPT !.status = "pending", !.worker = NULL, !.lease = "none",
                             !.maxAttempts = @ + extra]
      BY <1>1, Zenon DEF Requeue
    <2>2. /\ Requeue(rows, S, extra)[u].status = "pending"
          /\ Requeue(rows, S, extra)[u].epoch = rows[u].epoch
      BY <1>0, <2>1, Zenon DEF UnitRow
    <2> QED
      BY <1>1, <2>2, OpenStatus, Zenon DEF QuietRow
  <1>2. CASE u \notin S
    BY <1>2, Zenon DEF Requeue, QuietRow
  <1> QED
    BY <1>1, <1>2

\* Quiet steps compose, and rewriting one row quietly is quiet.
LEMMA QuietCompose ==
    ASSUME NEW p, NEW q, NEW r, QuietRows(p, q), QuietRows(q, r)
    PROVE  QuietRows(p, r)
  BY Zenon DEF QuietRows, QuietRow

\* A rewrite of one unit that neither claims nor completes it is quiet.
LEMMA QuietExcept ==
    ASSUME NEW rows \in [Unit -> UnitRow], NEW u \in Unit, NEW q, QuietRow(rows[u], q)
    PROVE  QuietRows(rows, [rows EXCEPT ![u] = q])
  <1> SUFFICES ASSUME NEW v \in Unit PROVE QuietRow(rows[v], [rows EXCEPT ![u] = q][v])
    BY DEF QuietRows
  <1>1. CASE v = u
    BY <1>1
  <1>2. CASE v # u
    BY <1>2, Zenon DEF QuietRow
  <1> QED
    BY <1>1, <1>2

Quiet == QuietRows(unit, unit') /\ UNCHANGED tokens

\* A call that leaves the units and the leases alone is quiet.
LEMMA QuietStutter == ASSUME UNCHANGED <<unit, tokens>> PROVE Quiet
  BY Zenon DEF Quiet, QuietRows, QuietRow

\* Time passing is quiet: it expires leases and elapses backoffs only.
LEMMA TickQuiet == ASSUME TypeOK, Tick PROVE Quiet
  <1>1. CASE DeadlineElapses \/ AutoResumeFallsDue
    BY <1>1, QuietStutter DEF DeadlineElapses, AutoResumeFallsDue
  <1>2. ASSUME NEW u \in Unit, LeaseExpires(u) PROVE Quiet
    <2> DEFINE q == [unit[u] EXCEPT !.lease = "expired"]
    <2>1. unit[u] \in UnitRow /\ unit \in [Unit -> UnitRow]
      BY DEF TypeOK
    <2>2. QuietRow(unit[u], q)
      BY <2>1, Zenon DEF QuietRow, UnitRow
    <2>3. unit' = [unit EXCEPT ![u] = q] /\ UNCHANGED tokens
      BY <1>2, Zenon DEF LeaseExpires
    <2> HIDE DEF q
    <2> QED
      BY <2>1, <2>2, <2>3, QuietExcept DEF Quiet
  <1>3. ASSUME NEW u \in Unit, BackoffElapses(u) PROVE Quiet
    <2> DEFINE q == [unit[u] EXCEPT !.backoff = FALSE]
    <2>1. unit[u] \in UnitRow /\ unit \in [Unit -> UnitRow]
      BY DEF TypeOK
    <2>2. QuietRow(unit[u], q)
      BY <2>1, Zenon DEF QuietRow, UnitRow
    <2>3. unit' = [unit EXCEPT ![u] = q] /\ UNCHANGED tokens
      BY <1>3, Zenon DEF BackoffElapses
    <2> HIDE DEF q
    <2> QED
      BY <2>1, <2>2, <2>3, QuietExcept DEF Quiet
  <1> QED
    BY <1>1, <1>2, <1>3 DEF Tick

\* An exhausted budget blocks or fails open units and is quiet.
LEMMA BudgetQuiet == ASSUME TypeOK PROVE QuietRows(unit, BudgetRows)
  BY SettleQuiet DEF BudgetRows, TypeOK, With

\* fail closes open units only and is quiet.
LEMMA FailQuiet == ASSUME TypeOK, Fail PROVE Quiet
  <1>1. PICK named \in SUBSET With(unit, Waiting) :
            unit' = Settle(Settle(unit, With(unit, InFlight) \union named, "failed"),
                           With(unit, Waiting) \ named, "canceled")
    BY Zenon DEF Fail
  <1> DEFINE S    == With(unit, InFlight) \union named
             T    == With(unit, Waiting) \ named
             rows == Settle(unit, S, "failed")
  <1>2. QuietRows(unit, rows)
    BY <1>1, SettleQuiet, OpenStatus DEF TypeOK, With
  <1>3. rows \in [Unit -> UnitRow]
    BY SettleType, StatusType DEF TypeOK
  <1>4. \A u \in T : u \in Unit => rows[u].status \in Open
    <2> SUFFICES ASSUME NEW u \in T, u \in Unit PROVE rows[u].status \in Open
      OBVIOUS
    <2>1. unit[u].status \in Waiting /\ u \notin named
      BY DEF With
    <2>2. u \notin With(unit, InFlight)
      BY <2>1 DEF With, Waiting, InFlight
    <2>3. rows[u] = unit[u]
      BY <2>1, <2>2, Zenon DEF Settle
    <2> QED
      BY <2>1, <2>3, OpenStatus
  <1> HIDE DEF rows, T
  <1>5. QuietRows(rows, Settle(rows, T, "canceled"))
    BY <1>3, <1>4, SettleQuiet
  <1>6. unit' = Settle(rows, T, "canceled") /\ UNCHANGED tokens
    BY <1>1 DEF Fail, rows, T
  <1> QED
    BY <1>2, <1>5, <1>6, QuietCompose DEF Quiet

\* No task-level call claims or completes a unit.
LEMMA TaskCallQuiet == ASSUME TypeOK, TaskCall PROVE Quiet
  <1>1. CASE Start \/ RequestCancel \/ FinalizeIfComplete
    BY <1>1, QuietStutter, Zenon DEF Start, RequestCancel, FinalizeIfComplete
  <1>2. CASE ObserveDeadline
    <2>1. unit' = Settle(unit, With(unit, Open), "failed") /\ UNCHANGED tokens
      BY <1>2, Zenon DEF ObserveDeadline, ExpireTask
    <2>2. \A u \in With(unit, Open) : u \in Unit => unit[u].status \in Open \union {"failed", "canceled"}
      BY Zenon DEF With
    <2>3. unit \in [Unit -> UnitRow]
      BY DEF TypeOK
    <2> QED
      BY <2>1, <2>2, <2>3, SettleQuiet, Zenon DEF Quiet
  <1>3. CASE ClaimOverBudget
    BY <1>3, BudgetQuiet DEF ClaimOverBudget, Quiet
  <1>4. ASSUME NEW r \in Run, NEW n \in UsageSizes, RecordUsage(r, n) PROVE Quiet
    BY <1>4, BudgetQuiet, QuietStutter, Zenon DEF RecordUsage, Quiet
  <1>5. CASE ObserveCancel \/ Cancel
    <2>1. unit' = Settle(unit, With(unit, Open), "canceled") /\ UNCHANGED tokens
      BY <1>5, Zenon DEF ObserveCancel, Cancel, CancelTask
    <2>2. \A u \in With(unit, Open) : u \in Unit => unit[u].status \in Open \union {"failed", "canceled"}
      BY Zenon DEF With
    <2>3. unit \in [Unit -> UnitRow]
      BY DEF TypeOK
    <2> QED
      BY <2>1, <2>2, <2>3, SettleQuiet, Zenon DEF Quiet
  <1>6. CASE Fail
    BY <1>6, FailQuiet
  <1>7. CASE RecoverAfterRestart
    <2>1. unit' = Requeue(unit, With(unit, InFlight), 1) /\ UNCHANGED tokens
      BY <1>7, Zenon DEF RecoverAfterRestart
    <2> QED
      BY <2>1, RequeueQuiet, OpenStatus DEF Quiet, TypeOK, With
  <1> QED
    BY <1>1, <1>2, <1>3, <1>4, <1>5, <1>6, <1>7 DEF TaskCall

\* No pause, resume or retry claims or completes a unit.
LEMMA PauseOrResumeQuiet == ASSUME TypeOK, PauseOrResume PROVE Quiet
  <1>1. ASSUME NEW scope, Pause(scope) PROVE Quiet
    <2>1. unit' = Requeue(unit, With(unit, InFlight), 1) /\ UNCHANGED tokens
      BY <1>1, Zenon DEF Pause
    <2> QED
      BY <2>1, RequeueQuiet, OpenStatus DEF Quiet, TypeOK, With
  <1>2. ASSUME NEW source, ResumePaused(source) PROVE Quiet
    <2> DEFINE rows == Requeue(unit, With(unit, {"blocked"}), 1)
    <2>1. QuietRows(unit, rows) /\ rows \in [Unit -> UnitRow]
      BY RequeueQuiet, RequeueType DEF TypeOK, With, Open, Waiting
    <2>2. ResumedRows = [u \in Unit |-> IF unit[u].status = "blocked"
                                        THEN [rows[u] EXCEPT !.backoff = FALSE, !.waited = 0]
                                        ELSE rows[u]]
      BY DEF ResumedRows
    <2> HIDE DEF rows
    <2>3. ASSUME NEW u \in Unit PROVE QuietRow(rows[u], ResumedRows[u])
      <3>1. rows[u] \in UnitRow
        BY <2>1
      <3>2. QuietRow(rows[u], [rows[u] EXCEPT !.backoff = FALSE, !.waited = 0])
        BY <3>1, Zenon DEF QuietRow, UnitRow
      <3>3. QuietRow(rows[u], rows[u])
        BY Zenon DEF QuietRow
      <3> QED
        BY <2>2, <3>2, <3>3, Zenon
    <2>4. QuietRows(rows, ResumedRows)
      BY <2>3 DEF QuietRows
    <2> QED
      BY <1>2, <2>1, <2>4, QuietCompose DEF ResumePaused, Quiet
  <1>3. ASSUME NEW extra, NEW source, RetryFailed(extra, source) PROVE Quiet
    <2>1. /\ unit' = Requeue(unit, With(unit, {"failed", "canceled"} \union InFlight), extra)
          /\ UNCHANGED tokens
      BY <1>3, Zenon DEF RetryFailed
    <2> QED
      BY <2>1, RequeueQuiet, OpenStatus DEF Quiet, TypeOK, With
  <1> QED
    BY <1>1, <1>2, <1>3 DEF PauseOrResume

\* Failing the exhausted units at a claim is quiet.
LEMMA RowsAtClaimQuiet ==
    ASSUME TypeOK
    PROVE  QuietRows(unit, RowsAtClaim) /\ RowsAtClaim \in [Unit -> UnitRow]
  <1>1. \A u \in Exhausted : u \in Unit => unit[u].status \in Open \union {"failed", "canceled"}
    BY OpenStatus DEF Exhausted, With
  <1> QED
    BY <1>1, SettleQuiet, SettleType, StatusType DEF RowsAtClaim, TypeOK

\* A claim that grants nothing is quiet.
LEMMA ClaimFailureQuiet ==
    ASSUME TypeOK, ClaimNothing \/ ClaimAfterExhaustion
    PROVE  Quiet
  <1>1. CASE ClaimNothing
    BY <1>1, RowsAtClaimQuiet DEF ClaimNothing, Quiet
  <1>2. CASE ClaimAfterExhaustion
    <2>1. /\ unit' = Settle(RowsAtClaim, With(RowsAtClaim, Open), "canceled")
          /\ UNCHANGED tokens
      BY <1>2, Zenon DEF ClaimAfterExhaustion
    <2>2. \A u \in With(RowsAtClaim, Open) :
             u \in Unit => RowsAtClaim[u].status \in Open \union {"failed", "canceled"}
      BY Zenon DEF With
    <2>3. QuietRows(RowsAtClaim, Settle(RowsAtClaim, With(RowsAtClaim, Open), "canceled"))
      BY <2>2, RowsAtClaimQuiet, SettleQuiet
    <2> QED
      BY <2>1, <2>3, RowsAtClaimQuiet, QuietCompose DEF Quiet
  <1> QED
    BY <1>1, <1>2

\* The holder of a lease names a unit that is in flight.
LEMMA HeldInFlight ==
    ASSUME TypeOK, NEW tk \in tokens, HoldsLease(tk)
    PROVE  /\ tk.unit \in Unit /\ unit[tk.unit] \in UnitRow
           /\ unit[tk.unit].status \in InFlight
           /\ unit[tk.unit].worker = tk.worker /\ unit[tk.unit].epoch = tk.epoch
           /\ unit[tk.unit].status \in Open
           /\ unit[tk.unit].status # "completed" /\ unit[tk.unit].status # "absent"
  BY TokenType, OpenStatus, Zenon DEF HoldsLease

\* What a settled failure does to the row of its unit, and to all rows.
LEMMA RowsEndedQuiet ==
    ASSUME TypeOK, NEW tk \in tokens, HoldsLease(tk),
           NEW status \in {"needs_split", "canceled", "failed"}
    PROVE  /\ QuietRows(unit, RowsEnded(tk, status))
           /\ RowsEnded(tk, status) \in [Unit -> UnitRow]
  <1> DEFINE rows == Settle(unit, {tk.unit}, status)
             q == [rows[tk.unit] EXCEPT !.waited = 0, !.backoff = FALSE]
  <1>1. QuietRows(unit, rows) /\ rows \in [Unit -> UnitRow]
    BY HeldInFlight, SettleQuiet, SettleType, StatusType DEF TypeOK
  <1>2. RowsEnded(tk, status) = [rows EXCEPT ![tk.unit] = q]
    BY Zenon DEF RowsEnded
  <1>3. tk.unit \in Unit
    BY HeldInFlight
  <1> HIDE DEF rows
  <1>4. rows[tk.unit] \in UnitRow
    BY <1>1, <1>3
  <1>5. QuietRow(rows[tk.unit], q)
    BY <1>4, Zenon DEF QuietRow, UnitRow
  <1>6. q \in UnitRow
    BY <1>4, FailureRowType
  <1> HIDE DEF q
  <1> QED
    BY <1>1, <1>2, <1>3, <1>5, <1>6, QuietExcept, QuietCompose

\* settle_unit_failure never claims or completes a unit.
LEMMA SettleUnitFailureQuiet ==
    ASSUME TypeOK, NEW tk \in tokens, SettleUnitFailure(tk)
    PROVE  Quiet
  <1>0. HoldsLease(tk)
    BY Zenon DEF SettleUnitFailure, SettleRetry, SettleBlocked, SettleNeedsSplit,
                 SettleCanceled, SettleFailed, WorkerCall
  <1> DEFINE row == unit[tk.unit]
  <1>u. unit \in [Unit -> UnitRow] /\ tk.unit \in Unit /\ row \in UnitRow
    BY <1>0, HeldInFlight DEF TypeOK
  <1>1. ASSUME NEW d, SettleRetry(tk, d) PROVE Quiet
    <2>1. PICK delay : /\ unit' = [unit EXCEPT ![tk.unit] = WaitingRow(@, delay, Grant(row, d))]
                       /\ UNCHANGED tokens
      BY <1>1, Zenon DEF SettleRetry
    <2> DEFINE q == WaitingRow(row, delay, Grant(row, d))
    <2>2. q.status = "waiting_retry" /\ q.epoch = row.epoch
      BY <1>u, Zenon DEF WaitingRow, UnitRow
    <2> HIDE DEF q
    <2>3. QuietRow(row, q)
      BY <1>0, <2>2, HeldInFlight, OpenStatus, Zenon DEF QuietRow
    <2>4. unit' = [unit EXCEPT ![tk.unit] = q]
      BY <2>1, Zenon DEF q
    <2>5. QuietRows(unit, [unit EXCEPT ![tk.unit] = q])
      BY <1>u, <2>3, QuietExcept
    <2> QED
      BY <2>1, <2>4, <2>5, Zenon DEF Quiet
  <1>2. ASSUME NEW d, NEW systemic \in BOOLEAN, SettleBlocked(tk, d, systemic) PROVE Quiet
    <2> DEFINE n == IF d \in {"retry_attempt", "resume_checkpoint"} THEN row.waited ELSE 0
               q == BlockedRow(row, n, Grant(row, d))
               rows == [unit EXCEPT ![tk.unit] = q]
               S == With(unit, InFlight) \ {tk.unit}
    <2>1. /\ unit' = Requeue(rows, S, 1) \/ unit' = rows
          /\ UNCHANGED tokens
      BY <1>2, Zenon DEF SettleBlocked
    <2>2. q.status = "blocked" /\ q.epoch = row.epoch
      BY <1>u, Zenon DEF BlockedRow, UnitRow
    <2>3. q \in UnitRow
      <3>1. Grant(row, d) \in Nat /\ n \in Nat
        BY <1>u DEF Grant, UnitRow
      <3> QED
        BY <1>u, <3>1, FailureRowType
    <2> HIDE DEF q
    <2>4. QuietRow(row, q)
      BY <1>0, <2>2, HeldInFlight, OpenStatus, Zenon DEF QuietRow
    <2>5. QuietRows(unit, rows) /\ rows \in [Unit -> UnitRow]
      BY <1>u, <2>3, <2>4, QuietExcept
    <2>6. \A u \in S : u \in Unit => rows[u].status \in Open \union {"failed", "canceled"}
      BY <1>u, OpenStatus DEF With
    <2> HIDE DEF rows, S
    <2>7. QuietRows(rows, Requeue(rows, S, 1))
      BY <2>5, <2>6, RequeueQuiet
    <2> QED
      BY <2>1, <2>5, <2>7, QuietCompose DEF Quiet
  <1>3. CASE SettleNeedsSplit(tk) \/ SettleCanceled(tk)
    BY <1>0, <1>3, RowsEndedQuiet DEF SettleNeedsSplit, SettleCanceled, Quiet
  <1>4. CASE SettleFailed(tk)
    <2> DEFINE rows == RowsEnded(tk, "failed")
               S == With(unit, InFlight \union {"pending"}) \ {tk.unit}
    <2>1. unit' = Settle(rows, S, "canceled") /\ UNCHANGED tokens
      BY <1>4, Zenon DEF SettleFailed
    <2>2. QuietRows(unit, rows) /\ rows \in [Unit -> UnitRow]
      BY <1>0, RowsEndedQuiet
    <2>3. \A u \in S : u \in Unit => rows[u] = unit[u]
      BY <1>u, Zenon DEF RowsEnded, Settle
    <2>4. \A u \in S : u \in Unit => rows[u].status \in Open \union {"failed", "canceled"}
      BY <2>3, OpenStatus DEF With, Open, Waiting
    <2> HIDE DEF rows, S
    <2>5. QuietRows(rows, Settle(rows, S, "canceled"))
      BY <2>2, <2>4, SettleQuiet
    <2> QED
      BY <2>1, <2>2, <2>5, QuietCompose DEF Quiet
  <1> QED
    BY <1>1, <1>2, <1>3, <1>4, Zenon DEF SettleUnitFailure

\* expand_unit closes its parent and creates pending units: it is quiet.
LEMMA SplitUnitQuiet ==
    ASSUME TypeOK, AbsentUnclaimed, NEW tk \in tokens, SplitUnit(tk)
    PROVE  Quiet
  <1>1. PICK children \in SUBSET With(unit, {"absent"}) :
           \E deps, needed, replacement : ExpandUnit(tk, children, deps, needed, replacement)
    BY Zenon DEF SplitUnit
  <1>2. PICK deps, needed, replacement : ExpandUnit(tk, children, deps, needed, replacement)
    BY <1>1
  <1>3. HoldsLease(tk)
    BY <1>2, Zenon DEF ExpandUnit, WorkerCall
  <1> DEFINE p == tk.unit
             next(v) == ExpandedRows(p, children, deps, needed, replacement)[v]
  <1>4. /\ unit' = ExpandedRows(p, children, deps, needed, replacement)
        /\ UNCHANGED tokens
    BY <1>2, Zenon DEF ExpandUnit
  <1>5. ASSUME NEW v \in Unit PROVE QuietRow(unit[v], next(v))
    <2>0. unit[v] \in UnitRow
      BY DEF TypeOK
    <2>1. CASE v = p
      <3>1. next(v) = [unit[v] EXCEPT !.status = "expanded", !.required = FALSE,
                                      !.worker = NULL, !.lease = "none",
                                      !.settledBy = unit[p].worker]
        BY <2>1, Zenon DEF ExpandedRows
      <3>2. next(v).status = "expanded" /\ next(v).epoch = unit[v].epoch
        BY <2>0, <3>1, Zenon DEF UnitRow
      <3> QED
        BY <1>3, <2>1, <3>2, HeldInFlight, OpenStatus, Zenon DEF QuietRow
    <2>2. CASE v # p /\ v \in children
      <3>1. next(v) = [InitialRow(v) EXCEPT !.status = "pending", !.required = v \in needed,
                                            !.deps = unit[p].deps \union deps[v]]
        BY <2>2, Zenon DEF ExpandedRows
      <3>2. next(v).status = "pending" /\ next(v).epoch = 0
        BY <3>1, Zenon DEF InitialRow
      <3>3. unit[v].status = "absent" /\ unit[v].epoch = 0
        BY <1>1, <2>2 DEF With, AbsentUnclaimed
      <3> QED
        BY <3>2, <3>3, OpenStatus, Zenon DEF QuietRow
    <2>3. CASE v # p /\ v \notin children /\ p \in unit[v].deps
      <3>1. next(v) = [unit[v] EXCEPT !.deps = (@ \ {p}) \union replacement]
        BY <2>3, Zenon DEF ExpandedRows
      <3> QED
        BY <2>0, <3>1, Zenon DEF QuietRow, UnitRow
    <2>4. CASE v # p /\ v \notin children /\ p \notin unit[v].deps
      <3>1. next(v) = unit[v]
        BY <2>4, Zenon DEF ExpandedRows
      <3> QED
        BY <3>1, Zenon DEF QuietRow
    <2> QED
      BY <2>1, <2>2, <2>3, <2>4
  <1> QED
    BY <1>4, <1>5, Zenon DEF Quiet, QuietRows

\* A worker call that does not deliver a result is quiet.
LEMMA UnitCallQuiet ==
    ASSUME TypeOK, AbsentUnclaimed, UnitCall
    PROVE  \/ Quiet
           \/ \E tk \in tokens, r \in Run \union {NULL} : CompleteUnit(tk, r)
  <1> SUFFICES ASSUME ~ \E tk \in tokens, r \in Run \union {NULL} : CompleteUnit(tk, r)
               PROVE  Quiet
    OBVIOUS
  <1>0. PICK tk \in tokens :
           \/ \E r \in Run : BindUnitRun(tk, r)
           \/ RenewUnitLease(tk)
           \/ SettleUnitFailure(tk)
           \/ SplitUnit(tk)
           \/ InterruptUnit(tk)
    BY Zenon DEF UnitCall
  <1> DEFINE row == unit[tk.unit]
  <1>u. unit \in [Unit -> UnitRow]
    BY DEF TypeOK
  <1>1. ASSUME NEW r \in Run, BindUnitRun(tk, r) PROVE Quiet
    <2> DEFINE q == [row EXCEPT !.status = "running", !.run = r]
    <2>1. HoldsLease(tk) /\ unit' = [unit EXCEPT ![tk.unit] = q] /\ UNCHANGED tokens
      BY <1>1, Zenon DEF BindUnitRun, WorkerCall
    <2>2. row \in UnitRow /\ tk.unit \in Unit /\ row.status \in InFlight /\ row.status # "completed"
      BY <2>1, HeldInFlight
    <2>3. q.status = "running" /\ q.epoch = row.epoch /\ q.worker = row.worker
      BY <2>2, Zenon DEF UnitRow
    <2> HIDE DEF q
    <2>4. QuietRow(row, q)
      BY <2>2, <2>3, OpenStatus, Zenon DEF QuietRow
    <2> QED
      BY <1>u, <2>1, <2>2, <2>4, QuietExcept DEF Quiet
  <1>2. CASE RenewUnitLease(tk)
    <2> DEFINE q == [row EXCEPT !.lease = "live"]
    <2>1. HoldsLease(tk) /\ unit' = [unit EXCEPT ![tk.unit] = q] /\ UNCHANGED tokens
      BY <1>2, Zenon DEF RenewUnitLease
    <2>2. row \in UnitRow /\ tk.unit \in Unit
      BY <2>1, HeldInFlight
    <2>3. QuietRow(row, q)
      BY <2>2, Zenon DEF QuietRow, UnitRow
    <2> HIDE DEF q
    <2> QED
      BY <1>u, <2>1, <2>2, <2>3, QuietExcept DEF Quiet
  <1>3. CASE InterruptUnit(tk)
    <2>1. HoldsLease(tk) /\ unit' = Requeue(unit, {tk.unit}, 1) /\ UNCHANGED tokens
      BY <1>3, Zenon DEF InterruptUnit, WorkerCall
    <2>2. \A u \in {tk.unit} : u \in Unit => unit[u].status \in Open \union {"failed", "canceled"}
      BY <2>1, HeldInFlight
    <2>3. QuietRows(unit, Requeue(unit, {tk.unit}, 1))
      BY <1>u, <2>2, RequeueQuiet
    <2> QED
      BY <2>1, <2>3 DEF Quiet
  <1> QED
    BY <1>0, <1>1, <1>2, <1>3, SettleUnitFailureQuiet, SplitUnitQuiet

\* So a step is quiet, grants a lease or delivers a result.
LEMMA StepIsQuietOrWork ==
    ASSUME TypeOK, AbsentUnclaimed, [Next]_vars
    PROVE  \/ Quiet
           \/ \E w \in Worker, u \in Unit : ClaimUnit(w, u)
           \/ \E tk \in tokens, r \in Run \union {NULL} : CompleteUnit(tk, r)
  <1>1. CASE UNCHANGED vars
    BY <1>1, QuietStutter DEF vars
  <1>2. CASE Next
    BY <1>2, TickQuiet, TaskCallQuiet, PauseOrResumeQuiet, ClaimFailureQuiet, UnitCallQuiet, Zenon
       DEF Next, ClaimCall
  <1> QED
    BY <1>1, <1>2

\* A quiet step keeps the inductive invariant.
LEMMA QuietKeepsLeases ==
    ASSUME LeaseInv, Quiet
    PROVE  AbsentUnclaimed' /\ LatestLeaseSettles'
  <1>1. ASSUME NEW u \in Unit PROVE QuietRow(unit[u], unit'[u])
    BY DEF Quiet, QuietRows
  <1>2. AbsentUnclaimed'
    BY <1>1, Zenon DEF LeaseInv, AbsentUnclaimed, QuietRow
  <1>3. tokens' = tokens
    BY DEF Quiet
  <1>4. ASSUME NEW u \in Unit
        PROVE  /\ \A tk \in tokens' : tk.unit = u => tk.epoch <= unit'[u].epoch
               /\ unit'[u].status \in InFlight =>
                     [worker |-> unit'[u].worker, unit |-> u, epoch |-> unit'[u].epoch] \in tokens'
               /\ unit'[u].status = "completed" =>
                     /\ unit'[u].output = unit'[u].epoch
                     /\ [worker |-> unit'[u].settledBy, unit |-> u, epoch |-> unit'[u].epoch] \in tokens'
    <2>1. /\ \A tk \in tokens : tk.unit = u => tk.epoch <= unit[u].epoch
          /\ unit[u].status \in InFlight =>
                [worker |-> unit[u].worker, unit |-> u, epoch |-> unit[u].epoch] \in tokens
          /\ unit[u].status = "completed" =>
                /\ unit[u].output = unit[u].epoch
                /\ [worker |-> unit[u].settledBy, unit |-> u, epoch |-> unit[u].epoch] \in tokens
      BY DEF LeaseInv, LatestLeaseSettles
    <2> QED
      BY <1>1, <1>3, <2>1, Zenon DEF QuietRow
  <1> QED
    BY <1>2, <1>4, Zenon DEF LatestLeaseSettles

\* A claim keeps the inductive invariant: its epoch is the new maximum.
LEMMA ClaimKeepsLeases ==
    ASSUME LeaseInv, NEW w \in Worker, NEW u \in Unit, ClaimUnit(w, u)
    PROVE  AbsentUnclaimed' /\ LatestLeaseSettles'
  <1> DEFINE rows == RowsAtClaim
             q == ClaimedRow(rows[u], w)
             tk == [worker |-> w, unit |-> u, epoch |-> unit[u].epoch + 1]
  <1>1. QuietRows(unit, rows) /\ rows \in [Unit -> UnitRow]
    BY RowsAtClaimQuiet DEF LeaseInv
  <1>2. unit' = [rows EXCEPT ![u] = q] /\ tokens' = tokens \union {tk}
    BY Zenon DEF ClaimUnit
  <1>3. rows[u].epoch = unit[u].epoch /\ unit[u].epoch \in Nat
    BY <1>1 DEF QuietRows, QuietRow, LeaseInv, TypeOK, UnitRow
  <1> HIDE DEF rows
  <1>r. rows[u] \in UnitRow
    BY <1>1
  <1>4. q.status = "claimed" /\ q.worker = w /\ q.epoch = unit[u].epoch + 1
    BY <1>r, <1>3, Zenon DEF ClaimedRow, UnitRow
  <1> HIDE DEF q
  <1>5. ASSUME NEW v \in Unit
        PROVE  /\ unit'[v].status = "absent" => unit'[v].epoch = 0
               /\ \A t \in tokens' : t.unit = v => t.epoch <= unit'[v].epoch
               /\ unit'[v].status \in InFlight =>
                     [worker |-> unit'[v].worker, unit |-> v, epoch |-> unit'[v].epoch] \in tokens'
               /\ unit'[v].status = "completed" =>
                     /\ unit'[v].output = unit'[v].epoch
                     /\ [worker |-> unit'[v].settledBy, unit |-> v, epoch |-> unit'[v].epoch] \in tokens'
    <2>1. /\ \A t \in tokens : t.unit = v => t.epoch <= unit[v].epoch
          /\ unit[v].status \in InFlight =>
                [worker |-> unit[v].worker, unit |-> v, epoch |-> unit[v].epoch] \in tokens
          /\ unit[v].status = "completed" =>
                /\ unit[v].output = unit[v].epoch
                /\ [worker |-> unit[v].settledBy, unit |-> v, epoch |-> unit[v].epoch] \in tokens
          /\ unit[v].status = "absent" => unit[v].epoch = 0
      BY DEF LeaseInv, LatestLeaseSettles, AbsentUnclaimed
    <2>2. CASE v = u
      <3>1. unit'[v] = q
        BY <1>1, <1>2, <2>2
      <3>2. \A t \in tokens' : t.unit = v => t.epoch <= unit[u].epoch + 1
        <4>1. \A t \in tokens : t.epoch \in Nat
          BY TokenType DEF LeaseInv
        <4> QED
          BY <1>2, <1>3, <2>1, <2>2, <4>1
      <3> QED
        BY <1>2, <1>4, <2>2, <3>1, <3>2
    <2>3. CASE v # u
      <3>1. unit'[v] = rows[v] /\ QuietRow(unit[v], rows[v])
        BY <1>1, <1>2, <2>3, Zenon DEF QuietRows
      <3>2. \A t \in tokens' : t.unit = v => t \in tokens
        BY <1>2, <2>3
      <3>3. tokens \subseteq tokens'
        BY <1>2
      <3> HIDE DEF tk
      <3> QED
        BY <2>1, <3>1, <3>2, <3>3, Zenon DEF QuietRow
    <2> QED
      BY <2>2, <2>3
  <1> QED
    BY <1>5, Zenon DEF AbsentUnclaimed, LatestLeaseSettles

\* A completion keeps the inductive invariant: its epoch is the latest.
LEMMA CompleteKeepsLeases ==
    ASSUME LeaseInv, NEW tk \in tokens, NEW r, CompleteUnit(tk, r)
    PROVE  AbsentUnclaimed' /\ LatestLeaseSettles'
  <1> DEFINE u == tk.unit
             q == CompletedRow(unit[u], tk, r)
  <1>0. TypeOK
    BY DEF LeaseInv
  <1>1. unit' = [unit EXCEPT ![u] = q] /\ tokens' = tokens /\ HoldsLease(tk)
    BY Zenon DEF CompleteUnit, WorkerCall
  <1>2. u \in Unit /\ unit[u] \in UnitRow /\ unit[u].epoch = tk.epoch /\ tk \in Token
    BY <1>0, <1>1, HeldInFlight, TokenType
  <1>3. /\ q.status = "completed" /\ q.epoch = tk.epoch
        /\ q.output = tk.epoch /\ q.settledBy = tk.worker
    BY <1>2, Zenon DEF CompletedRow, UnitRow
  <1>4. tk = [worker |-> tk.worker, unit |-> u, epoch |-> tk.epoch]
    BY <1>2 DEF Token
  <1> HIDE DEF q, u
  <1>5. ASSUME NEW v \in Unit
        PROVE  /\ unit'[v].status = "absent" => unit'[v].epoch = 0
               /\ \A t \in tokens' : t.unit = v => t.epoch <= unit'[v].epoch
               /\ unit'[v].status \in InFlight =>
                     [worker |-> unit'[v].worker, unit |-> v, epoch |-> unit'[v].epoch] \in tokens'
               /\ unit'[v].status = "completed" =>
                     /\ unit'[v].output = unit'[v].epoch
                     /\ [worker |-> unit'[v].settledBy, unit |-> v, epoch |-> unit'[v].epoch] \in tokens'
    <2>1. /\ \A t \in tokens : t.unit = v => t.epoch <= unit[v].epoch
          /\ unit[v].status \in InFlight =>
                [worker |-> unit[v].worker, unit |-> v, epoch |-> unit[v].epoch] \in tokens
          /\ unit[v].status = "completed" =>
                /\ unit[v].output = unit[v].epoch
                /\ [worker |-> unit[v].settledBy, unit |-> v, epoch |-> unit[v].epoch] \in tokens
          /\ unit[v].status = "absent" => unit[v].epoch = 0
      BY DEF LeaseInv, LatestLeaseSettles, AbsentUnclaimed
    <2>2. CASE v = u
      <3>1. unit'[v] = q
        BY <1>0, <1>1, <2>2 DEF TypeOK
      <3> QED
        BY <1>1, <1>2, <1>3, <1>4, <2>1, <2>2, <3>1, OpenStatus
    <2>3. CASE v # u
      <3>1. unit'[v] = unit[v]
        BY <1>0, <1>1, <2>3, Zenon DEF TypeOK
      <3> QED
        BY <1>1, <2>1, <3>1
    <2> QED
      BY <2>2, <2>3
  <1> QED
    BY <1>5, Zenon DEF AbsentUnclaimed, LatestLeaseSettles

\* No unit is claimed when the task is created.
LEMMA LeaseInit == Init => LeaseInv
  <1> SUFFICES ASSUME Init PROVE LeaseInv
    OBVIOUS
  <1>1. ASSUME NEW u \in Unit
        PROVE  unit[u].epoch = 0 /\ unit[u].status \in {"pending", "absent"}
    BY Zenon DEF Init, InitialRow
  <1>2. tokens = {}
    BY DEF Init
  <1>3. AbsentUnclaimed
    BY <1>1 DEF AbsentUnclaimed
  <1>4. LatestLeaseSettles
    BY <1>1, <1>2, OpenStatus DEF LatestLeaseSettles
  <1> QED
    BY <1>3, <1>4, InitType DEF LeaseInv

\* The inductive invariant survives every step.
LEMMA LeaseStep == LeaseInv /\ [Next]_vars => LeaseInv'
  <1> SUFFICES ASSUME LeaseInv, [Next]_vars PROVE LeaseInv'
    OBVIOUS
  <1>1. TypeOK /\ AbsentUnclaimed
    BY DEF LeaseInv
  <1>2. TypeOK'
    BY <1>1, TypeStep
  <1>3. AbsentUnclaimed' /\ LatestLeaseSettles'
    BY <1>1, StepIsQuietOrWork, QuietKeepsLeases, ClaimKeepsLeases, CompleteKeepsLeases
  <1> QED
    BY <1>2, <1>3 DEF LeaseInv

\* For any number of workers, units, splits, pauses, take-overs and late calls:
\* a unit in flight carries the latest lease granted for it, and the result of
\* a completed unit came from the holder of the latest lease.
THEOREM LatestLeaseSettlesAlways == Spec => []LatestLeaseSettles
  <1>1. LeaseInv => LatestLeaseSettles
    BY DEF LeaseInv
  <1> QED
    BY <1>1, LeaseInit, LeaseStep, PTL DEF Spec

-----------------------------------------------------------------------------
\* Action properties, from the same three kinds of steps.

\* A claim leaves every completed unit as it is.
LEMMA ClaimedRowsFinal ==
    ASSUME LeaseInv, NEW w \in Worker, NEW u \in Unit, ClaimUnit(w, u),
           NEW v \in Unit, unit[v].status = "completed"
    PROVE  unit'[v].status = "completed" /\ unit'[v].output = unit[v].output
  <1>1. QuietRow(unit[v], RowsAtClaim[v]) /\ RowsAtClaim \in [Unit -> UnitRow]
    BY RowsAtClaimQuiet DEF LeaseInv, QuietRows
  <1>2. RowsAtClaim[v].status = "completed" /\ RowsAtClaim[v].output = unit[v].output
    BY <1>1, Zenon DEF QuietRow
  <1>3. RowsAtClaim[u].status \in {"pending", "waiting_retry"} \union InFlight
    BY Zenon DEF ClaimUnit, Ready
  <1>4. v # u
    BY <1>2, <1>3, OpenStatus
  <1>5. unit' = [RowsAtClaim EXCEPT ![u] = ClaimedRow(RowsAtClaim[u], w)]
    BY Zenon DEF ClaimUnit
  <1> QED
    BY <1>1, <1>2, <1>4, <1>5, Zenon

\* No step changes the row of a completed unit.
LEMMA FinalStep ==
    ASSUME LeaseInv, [Next]_vars, NEW v \in Unit, unit[v].status = "completed"
    PROVE  unit'[v].status = "completed" /\ unit'[v].output = unit[v].output
  <1>0. TypeOK /\ AbsentUnclaimed
    BY DEF LeaseInv
  <1>1. CASE Quiet
    BY <1>1, Zenon DEF Quiet, QuietRows, QuietRow
  <1>2. CASE \E w \in Worker, u \in Unit : ClaimUnit(w, u)
    BY <1>2, ClaimedRowsFinal
  <1>3. CASE \E tk \in tokens, r \in Run \union {NULL} : CompleteUnit(tk, r)
    <2>1. PICK tk \in tokens, r \in Run \union {NULL} : CompleteUnit(tk, r)
      BY <1>3
    <2>2. /\ HoldsLease(tk)
          /\ unit' = [unit EXCEPT ![tk.unit] = CompletedRow(unit[tk.unit], tk, r)]
      BY <2>1, Zenon DEF CompleteUnit, WorkerCall
    <2>3. v # tk.unit
      BY <1>0, <2>2, HeldInFlight
    <2> QED
      BY <1>0, <2>2, <2>3, Zenon DEF TypeOK
  <1> QED
    BY <1>0, <1>1, <1>2, <1>3, StepIsQuietOrWork

\* A completed unit keeps its status and its output through every retry,
\* resume, split, failure and late call.
THEOREM CompletedUnitStaysFinal == Spec => CompletedUnitIsFinal
  <1>1. LeaseInv /\ [Next]_vars =>
           [\A u \in Unit : unit[u].status = "completed" =>
               unit'[u].status = "completed" /\ unit'[u].output = unit[u].output]_vars
    BY FinalStep
  <1> QED
    BY <1>1, LeaseInit, LeaseStep, PTL DEF Spec, CompletedUnitIsFinal

\* A step that claims or completes anything finds the task running, within its
\* deadline and not asked to cancel.
LEMMA WorkNeedsRunning ==
    ASSUME LeaseInv, [Next]_vars,
           deadlineElapsed \/ task.cancelRequested \/ task.status # "running"
    PROVE  \A u \in Unit : /\ unit'[u].epoch = unit[u].epoch
                           /\ unit'[u].status = "completed" => unit[u].status = "completed"
  <1>1. TypeOK /\ AbsentUnclaimed
    BY DEF LeaseInv
  <1>2. ~ \E w \in Worker, u \in Unit : ClaimUnit(w, u)
    BY Zenon DEF ClaimUnit, ClaimAdmitted
  <1>3. ~ \E tk \in tokens, r \in Run \union {NULL} : CompleteUnit(tk, r)
    BY Zenon DEF CompleteUnit, WorkerCall, HoldsLease
  <1>4. Quiet
    BY <1>1, <1>2, <1>3, StepIsQuietOrWork
  <1> QED
    BY <1>4, Zenon DEF Quiet, QuietRows, QuietRow

\* Nothing is claimed or completed after a cancel request, after the deadline
\* or while the task is not running, whoever calls.
THEOREM StoppedTaskDoesNoWork == Spec => NoWorkWhenStopped
  <1>1. LeaseInv /\ [Next]_vars => [WorkOnlyWhenAllowed]_vars
    BY WorkNeedsRunning DEF WorkOnlyWhenAllowed
  <1> QED
    BY <1>1, LeaseInit, LeaseStep, PTL DEF Spec, NoWorkWhenStopped

=============================================================================
