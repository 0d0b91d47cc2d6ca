-------------------------- MODULE ChatRequest_proofs --------------------------
(***************************************************************************)
(* Proofs about ChatRequest, for every set of requests of a session and    *)
(* every set of backends that start, overlap and crash.                    *)
(*                                                                         *)
(* The invariant is a statement about one request at a time (RowInv), and  *)
(* no step but a reservation gives the session work.  Each action is shown *)
(* to keep both for the requests it touches; the others stay as they are.  *)
(***************************************************************************)
EXTENDS ChatRequest, TLAPS

\* What the rows of a request, and its starter, say of each other.  A starter
\* without a Run may find its request settled by the start of a backend.
RowInv(r) ==
    /\ starter[r] \in {"validate", "check", "submit"} =>
           receipt[r].status \in Settled \union {"starting"} /\ run[r].status = "none"
    /\ receipt[r].status \in {"none", "accepted"} =>
           run[r].status = "none" /\ starter[r] = "none"
    /\ receipt[r].bound => run[r].status # "none"
    /\ receipt[r].cancelRequested /\ receipt[r].bound /\ run[r].status = "running" =>
           run[r].cancelRequested

Inv == TypeOK /\ OneOwnedWork /\ \A r \in Request : RowInv(r)

\* A request keeps its invariant and does not become work of the session.
Kept(r) == RowInv(r)' /\ (Owned(r)' => Owned(r))

Same(r) == receipt'[r] = receipt[r] /\ run'[r] = run[r] /\ starter'[r] = starter[r]

-----------------------------------------------------------------------------
\* Rows stay rows.

\* What the store writes to a receipt.
LEMMA ReceiptType ==
    ASSUME NEW rc \in Receipt
    PROVE  /\ Bound(rc) \in Receipt /\ WithoutRun(rc) \in Receipt
           /\ [rc EXCEPT !.cancelApplied = TRUE] \in Receipt
           /\ \A s \in Active \union Settled : [rc EXCEPT !.status = s] \in Receipt
           /\ [rc EXCEPT !.status = "canceled", !.cancelRequested = TRUE] \in Receipt
  <1>1. [rc EXCEPT !.status = "run_bound", !.bound = TRUE,
                   !.cancelApplied = @ \/ rc.cancelRequested] \in Receipt
    <2>1. (rc.cancelApplied \/ rc.cancelRequested) \in BOOLEAN
      BY DEF Receipt
    <2> QED
      BY <2>1, Zenon DEF Receipt
  <1>2. \A s \in Active \union Settled : [rc EXCEPT !.status = s] \in Receipt
    BY Zenon DEF Receipt
  <1>3. [rc EXCEPT !.cancelApplied = TRUE] \in Receipt
    BY Zenon DEF Receipt
  <1>4. [rc EXCEPT !.status = "canceled", !.cancelRequested = TRUE] \in Receipt
    BY Zenon DEF Receipt, Settled
  <1>5. Bound(rc) \in Receipt
    BY <1>1 DEF Bound
  <1>6. WithoutRun(rc) \in Receipt
    BY <1>2 DEF WithoutRun, Active, Settled
  <1> QED
    BY <1>2, <1>3, <1>4, <1>5, <1>6

\* What anybody writes to a Run.
LEMMA RunType ==
    ASSUME NEW rn \in RunRow, NEW rc \in Receipt
    PROVE  /\ CarriedOver(rc, rn) \in RunRow /\ RunToldToCancel(rc, rn) \in RunRow
           /\ [rn EXCEPT !.cancelRequested = @ \/ rn.status = "running"] \in RunRow
           /\ [rn EXCEPT !.status = "ended"] \in RunRow
           /\ [rn EXCEPT !.attached = FALSE] \in RunRow
  <1>1. \A v \in BOOLEAN : [rn EXCEPT !.cancelRequested = v] \in RunRow
    BY Zenon DEF RunRow
  <1>2. (rn.cancelRequested \/ rn.status = "running") \in BOOLEAN
    BY DEF RunRow
  <1>3. [rn EXCEPT !.cancelRequested = @ \/ rn.status = "running"] \in RunRow
    BY <1>1, <1>2
  <1>4. [rn EXCEPT !.status = "ended"] \in RunRow /\ [rn EXCEPT !.attached = FALSE] \in RunRow
    BY Zenon DEF RunRow
  <1> QED
    BY <1>1, <1>3, <1>4 DEF CarriedOver, RunToldToCancel

\* What finish_before_run and the recovery write.
LEMMA FinishedType ==
    ASSUME TypeOK, NEW r \in Request
    PROVE  Finished(r) \in Receipt /\ RunOfFinished(r) \in RunRow
  <1>1. receipt[r] \in Receipt /\ run[r] \in RunRow
    BY DEF TypeOK
  <1> QED
    BY <1>1, ReceiptType, RunType DEF Finished, RunOfFinished

-----------------------------------------------------------------------------
\* Requests nobody touches, and the three ways of the store.

\* An untouched request is kept.
LEMMA SameKept == ASSUME NEW r \in Request, RowInv(r), Same(r) PROVE Kept(r)
  BY DEF RowInv, Same, Kept, Owned, Busy

\* A bound request is kept, whoever bound it.
LEMMA BindKept ==
    ASSUME TypeOK, NEW r \in Request, RowInv(r), Bindable(r),
           receipt'[r] = Bound(receipt[r]), run'[r] = CarriedOver(receipt[r], run[r]),
           starter'[r] \in {starter[r], "none", "failing"}
    PROVE  Kept(r)
  <1>1. receipt[r] \in Receipt /\ run[r] \in RunRow
    BY DEF TypeOK
  <1>2. /\ run[r].status # "none"
        /\ run'[r].status = run[r].status /\ run'[r].attached = run[r].attached
        /\ run[r].cancelRequested => run'[r].cancelRequested
        /\ receipt[r].cancelRequested /\ run[r].status = "running" => run'[r].cancelRequested
    BY <1>1 DEF CarriedOver, RunRow, Bindable
  <1>3. CASE receipt[r].status \in {"starting", "run_bound"}
    <2>1. /\ receipt'[r].status = "run_bound" /\ receipt'[r].bound
          /\ receipt'[r].cancelRequested = receipt[r].cancelRequested
      BY <1>1, <1>3 DEF Bound, Receipt
    <2>2. starter'[r] \notin {"validate", "check", "submit"}
      BY <1>2 DEF RowInv
    <2> QED
      BY <1>2, <1>3, <2>1, <2>2 DEF RowInv, Kept, Owned, Busy, Active, Settled
  <1>4. CASE receipt[r].status \notin {"starting", "run_bound"}
    <2>1. receipt'[r] = receipt[r]
      BY <1>4 DEF Bound
    <2> QED
      BY <1>2, <1>4, <2>1 DEF RowInv, Kept, Owned, Busy, Active, Settled
  <1> QED
    BY <1>3, <1>4

\* A request that ends without a Run, or is bound after all, is kept.
LEMMA FinishKept ==
    ASSUME TypeOK, NEW r \in Request, RowInv(r),
           receipt'[r] = Finished(r), run'[r] = RunOfFinished(r),
           starter'[r] \in {starter[r], "none", "failing"},
           starter'[r] = "failing" => receipt[r].status \notin {"none", "accepted"}
    PROVE  Kept(r)
  <1>1. receipt[r] \in Receipt /\ run[r] \in RunRow
    BY DEF TypeOK
  <1>2. CASE Bindable(r)
    BY <1>2, BindKept DEF Finished, RunOfFinished, Bindable
  <1>3. CASE ~Bindable(r) /\ run[r].status # "none"
    BY <1>3 DEF Finished, RunOfFinished, RowInv, Kept, Owned, Busy
  <1>4. CASE run[r].status = "none"
    <2>1. run'[r] = run[r] /\ receipt'[r] = WithoutRun(receipt[r]) /\ ~receipt[r].bound
      BY <1>4 DEF Finished, RunOfFinished, Bindable, RowInv
    <2>2. CASE receipt[r].status \in Active
      <3>1. receipt'[r].status \in Settled /\ receipt'[r].bound = receipt[r].bound
        BY <1>1, <2>1, <2>2 DEF WithoutRun, Receipt, Settled
      <3> QED
        BY <1>4, <2>1, <3>1 DEF RowInv, Kept, Owned, Busy, Settled, Active
    <2>3. CASE receipt[r].status \notin Active
      <3>1. receipt'[r] = receipt[r]
        BY <2>1, <2>3 DEF WithoutRun
      <3> QED
        BY <1>4, <2>1, <2>3, <3>1 DEF RowInv, Kept, Owned, Busy, Active, Settled
    <2> QED
      BY <2>2, <2>3
  <1> QED
    BY <1>2, <1>3, <1>4

-----------------------------------------------------------------------------
\* Type correctness.

\* Reservations and cancellations keep the types.
LEMMA StorageType ==
    ASSUME TypeOK, NEW r \in Request, Reserve(r) \/ CancelRun(r) \/ MarkCancelApplied(r)
    PROVE  TypeOK'
  <1> USE DEF rows, tasks, routes
  <1>0. receipt[r] \in Receipt /\ run[r] \in RunRow
    BY DEF TypeOK
  <1>1. CASE Reserve(r)
    <2>1. [receipt[r] EXCEPT !.status = "accepted"] \in Receipt
      BY <1>0, ReceiptType DEF Active
    <2>2. receipt' \in [Request -> Receipt]
      BY <1>1, <2>1, Zenon DEF TypeOK, Reserve
    <2> QED
      BY <1>1, <2>2 DEF TypeOK, Reserve
  <1>2. CASE CancelRun(r)
    <2>1. run' \in [Request -> RunRow]
      BY <1>0, <1>2, RunType, Zenon DEF TypeOK, CancelRun
    <2>2. /\ canceler' \in [Request -> {"none", "apply", "mark"}]
          /\ caller' \in [Request -> Backend \union {NULL}]
      BY <1>2 DEF TypeOK, CancelRun, RouteEnds
    <2> QED
      BY <1>2, <2>1, <2>2 DEF TypeOK, CancelRun
  <1>3. CASE MarkCancelApplied(r)
    <2>1. receipt' \in [Request -> Receipt]
      BY <1>0, <1>3, ReceiptType, Zenon DEF TypeOK, MarkCancelApplied
    <2>2. /\ canceler' \in [Request -> {"none", "apply", "mark"}]
          /\ caller' \in [Request -> Backend \union {NULL}]
      BY <1>3 DEF TypeOK, MarkCancelApplied, RouteEnds
    <2> QED
      BY <1>3, <2>1, <2>2 DEF TypeOK, MarkCancelApplied
  <1> QED
    BY <1>1, <1>2, <1>3

\* The routes that a backend serves keep the types.
LEMMA RouteType ==
    ASSUME TypeOK, NEW r \in Request, NEW b \in Backend, Claim(b, r) \/ RequestCancel(b, r)
    PROVE  TypeOK'
  <1> USE DEF rows, tasks, routes
  <1>0. receipt[r] \in Receipt /\ run[r] \in RunRow
    BY DEF TypeOK
  <1>1. CASE Claim(b, r)
    <2>1. receipt' \in [Request -> Receipt]
      <3>1. /\ [receipt[r] EXCEPT !.status = "rejected"] \in Receipt
            /\ [receipt[r] EXCEPT !.status = "starting"] \in Receipt
        BY <1>0, ReceiptType DEF Active, Settled
      <3>2. CASE r \in stale
        BY <1>1, <3>1, <3>2, Zenon DEF TypeOK, Claim
      <3>3. CASE r \notin stale
        BY <1>1, <3>1, <3>3, Zenon DEF TypeOK, Claim
      <3> QED
        BY <3>2, <3>3
    <2>2. starter' \in [Request -> StartPoint] /\ home' \in [Request -> Backend \union {NULL}]
      BY <1>1 DEF TypeOK, Claim, StartPoint
    <2> QED
      BY <1>1, <2>1, <2>2 DEF TypeOK, Claim
  <1>2. CASE RequestCancel(b, r)
    <2>1. receipt' \in [Request -> Receipt]
      <3>1. receipt[r].status \in Active \union Settled \union {"none", "run_bound"}
        BY <1>0 DEF Receipt
      <3>2. (IF receipt[r].status = "accepted" THEN "canceled" ELSE receipt[r].status) \in
                Active \union Settled \union {"none", "run_bound"}
        BY <3>1 DEF Settled
      <3>3. [receipt[r] EXCEPT !.cancelRequested = TRUE,
                  !.status = IF @ = "accepted" THEN "canceled" ELSE @] \in Receipt
        BY <1>0, <3>2, Zenon DEF Receipt
      <3> QED
        BY <1>2, <3>3, Zenon DEF TypeOK, RequestCancel
    <2>2. run' \in [Request -> RunRow]
      BY <1>0, <1>2, RunType, Zenon DEF TypeOK, RequestCancel
    <2>3. /\ canceler' \in [Request -> {"none", "apply", "mark"}]
          /\ caller' \in [Request -> Backend \union {NULL}]
      BY <1>2 DEF TypeOK, RequestCancel
    <2> QED
      BY <1>2, <2>1, <2>2, <2>3 DEF TypeOK, RequestCancel
  <1> QED
    BY <1>1, <1>2

\* Binding and finishing keep the types of the rows.
LEMMA StoreType ==
    ASSUME TypeOK, NEW r \in Request, BindRun(r) \/ FinishBeforeRun(r)
    PROVE  receipt' \in [Request -> Receipt] /\ run' \in [Request -> RunRow]
  <1>1. receipt[r] \in Receipt /\ run[r] \in RunRow
    BY DEF TypeOK
  <1>2. Bound(receipt[r]) \in Receipt /\ CarriedOver(receipt[r], run[r]) \in RunRow
    BY <1>1, ReceiptType, RunType
  <1>3. Finished(r) \in Receipt /\ RunOfFinished(r) \in RunRow
    BY FinishedType
  <1>4. CASE BindRun(r)
    BY <1>2, <1>4, Zenon DEF TypeOK, BindRun
  <1>5. CASE FinishBeforeRun(r)
    BY <1>3, <1>5, Zenon DEF TypeOK, FinishBeforeRun
  <1> QED
    BY <1>4, <1>5

\* The starter keeps the types, and so do the page and the end of a Run.
LEMMA StarterType ==
    ASSUME TypeOK, NEW r \in Request, StarterStep(r) \/ PageBindsRun(r) \/ RunEnds(r)
    PROVE  TypeOK'
  <1> USE DEF rows, tasks, routes
  <1>0. receipt[r] \in Receipt /\ run[r] \in RunRow
    BY DEF TypeOK
  <1>1. \A point \in StartPoint : GoesTo(r, point) => starter' \in [Request -> StartPoint]
    BY DEF TypeOK, GoesTo
  <1>2. CASE Validate(r)
    BY <1>1, <1>2 DEF TypeOK, Validate, StartPoint
  <1>3. CASE BeforeSubmit(r)
    BY <1>1, <1>3, StoreType DEF TypeOK, BeforeSubmit, StartPoint
  <1>4. CASE CreateRun(r)
    <2>1. [status |-> "running", attached |-> TRUE, cancelRequested |-> FALSE] \in RunRow
      BY DEF RunRow
    <2>2. run' \in [Request -> RunRow]
      BY <1>4, <2>1, Zenon DEF TypeOK, CreateRun
    <2> QED
      BY <1>1, <1>4, <2>2 DEF TypeOK, CreateRun, StartPoint
  <1>5. CASE StartFails(r) \/ AwaitEnd(r)
    BY <1>1, <1>5 DEF TypeOK, StartFails, AwaitEnd, StartPoint
  <1>6. CASE OnRunStarted(r)
    BY <1>1, <1>6, StoreType DEF TypeOK, OnRunStarted, StartPoint
  <1>7. CASE OnRunStartedFails(r)
    <2>1. run' \in [Request -> RunRow]
      BY <1>0, <1>7, RunType, Zenon DEF TypeOK, OnRunStartedFails
    <2> QED
      BY <1>1, <1>7, <2>1 DEF TypeOK, OnRunStartedFails, StartPoint
  <1>8. CASE OnStartFailed(r)
    BY <1>1, <1>8, StoreType DEF TypeOK, OnStartFailed, StartPoint
  <1>9. CASE PageBindsRun(r)
    BY <1>9, StoreType DEF TypeOK, PageBindsRun
  <1>10. CASE RunEnds(r)
    <2>1. run' \in [Request -> RunRow]
      BY <1>0, <1>10, RunType, Zenon DEF TypeOK, RunEnds
    <2> QED
      BY <1>10, <2>1 DEF TypeOK, RunEnds
  <1> QED
    BY <1>2, <1>3, <1>4, <1>5, <1>6, <1>7, <1>8, <1>9, <1>10 DEF StarterStep

\* Every step keeps the types.
LEMMA TypeStep == TypeOK /\ [Next]_vars => TypeOK'
  <1> SUFFICES ASSUME TypeOK, [Next]_vars PROVE TypeOK'
    OBVIOUS
  <1> USE DEF rows, tasks, routes
  <1>1. CASE UNCHANGED vars
    BY <1>1 DEF TypeOK, vars
  <1>2. ASSUME NEW b \in Backend, Crash(b) PROVE TypeOK'
    <2>1. /\ starter' \in [Request -> StartPoint] /\ home' \in [Request -> Backend \union {NULL}]
          /\ canceler' \in [Request -> {"none", "apply", "mark"}]
          /\ caller' \in [Request -> Backend \union {NULL}]
      BY <1>2 DEF TypeOK, Crash, StartPoint
    <2> QED
      BY <1>2, <2>1 DEF TypeOK, Crash
  <1>3. ASSUME NEW b \in Backend, StartBackend(b) PROVE TypeOK'
    <2>1. receipt' \in [Request -> Receipt] /\ run' \in [Request -> RunRow]
      BY <1>3, FinishedType DEF TypeOK, StartBackend
    <2> QED
      BY <1>3, <2>1 DEF TypeOK, StartBackend
  <1>4. CASE HistoryChanges
    BY <1>4 DEF TypeOK, HistoryChanges
  <1>5. ASSUME NEW tail \in SUBSET Request, TruncateHistory(tail) PROVE TypeOK'
    <2>1. \A r \in Request :
              /\ [receipt[r] EXCEPT !.status = "canceled", !.cancelRequested = TRUE] \in Receipt
              /\ [run[r] EXCEPT !.attached = FALSE] \in RunRow
      BY ReceiptType, RunType DEF TypeOK
    <2>2. receipt' \in [Request -> Receipt] /\ run' \in [Request -> RunRow]
      BY <1>5, <2>1 DEF TypeOK, TruncateHistory
    <2> QED
      BY <1>5, <2>2 DEF TypeOK, TruncateHistory
  <1>6. ASSUME NEW r \in Request, StarterStep(r) \/ PageBindsRun(r) \/ RunEnds(r) PROVE TypeOK'
    BY <1>6, StarterType
  <1>7. ASSUME NEW r \in Request, Reserve(r) \/ CancelRun(r) \/ MarkCancelApplied(r) PROVE TypeOK'
    BY <1>7, StorageType
  <1>8. ASSUME NEW r \in Request, NEW b \in Backend, Claim(b, r) \/ RequestCancel(b, r)
        PROVE  TypeOK'
    BY <1>8, RouteType
  <1> QED
    BY <1>1, <1>2, <1>3, <1>4, <1>5, <1>6, <1>7, <1>8 DEF Next, Start

-----------------------------------------------------------------------------
\* Every request is kept by every step but its reservation.

\* The routes of a request; the other requests stay as they are.
LEMMA RouteKept ==
    ASSUME Inv, NEW q \in Request, NEW r \in Request,
           \/ \E b \in Backend : Claim(b, q) \/ RequestCancel(b, q)
           \/ PageBindsRun(q) \/ CancelRun(q) \/ MarkCancelApplied(q)
    PROVE  Kept(r)
  <1> USE DEF rows, tasks, routes
  <1>0. TypeOK /\ RowInv(r)
    BY DEF Inv
  <1>1. receipt[r] \in Receipt /\ run[r] \in RunRow
    BY <1>0 DEF TypeOK
  <1>2. CASE r # q
    <2>1. Same(r)
      BY <1>0, <1>2 DEF Same, TypeOK, Claim, PageBindsRun, BindRun, RequestCancel, CancelRun,
                        MarkCancelApplied
    <2> QED
      BY <1>0, <2>1, SameKept
  <1>3. ASSUME NEW b \in Backend, r = q, Claim(b, q) PROVE Kept(r)
    BY <1>0, <1>1, <1>3 DEF TypeOK, Claim, RowInv, Kept, Owned, Busy, Active, Settled, Receipt
  <1>4. CASE r = q /\ PageBindsRun(q)
    <2>1. /\ Bindable(r) /\ receipt'[r] = Bound(receipt[r])
          /\ run'[r] = CarriedOver(receipt[r], run[r]) /\ starter'[r] = starter[r]
      BY <1>0, <1>4 DEF TypeOK, PageBindsRun, BindRun
    <2> QED
      BY <1>0, <2>1, BindKept
  <1>5. ASSUME NEW b \in Backend, r = q, RequestCancel(b, q) PROVE Kept(r)
    <2>1. /\ run'[r] = RunToldToCancel(receipt[r], run[r]) /\ starter'[r] = starter[r]
          /\ receipt'[r].bound = receipt[r].bound
          /\ receipt'[r].status =
                 IF receipt[r].status = "accepted" THEN "canceled" ELSE receipt[r].status
          /\ receipt[r].status \notin Settled \union {"none"}
      BY <1>0, <1>1, <1>5 DEF TypeOK, RequestCancel, Receipt
    <2>2. /\ run'[r].status = run[r].status /\ run'[r].attached = run[r].attached
          /\ run'[r].cancelRequested \/ ~receipt[r].bound \/ run[r].status # "running"
      BY <1>1, <2>1 DEF RunToldToCancel, RunRow
    <2> QED
      BY <1>0, <2>1, <2>2 DEF RowInv, Kept, Owned, Busy, Active, Settled
  <1>6. CASE r = q /\ CancelRun(q)
    <2>1. /\ receipt'[r] = receipt[r] /\ starter'[r] = starter[r]
          /\ run'[r].status = run[r].status /\ run'[r].attached = run[r].attached
          /\ run[r].cancelRequested => run'[r].cancelRequested
      BY <1>0, <1>1, <1>6 DEF TypeOK, CancelRun, RunRow
    <2> QED
      BY <1>0, <2>1 DEF RowInv, Kept, Owned, Busy
  <1>7. CASE r = q /\ MarkCancelApplied(q)
    <2>1. /\ run'[r] = run[r] /\ starter'[r] = starter[r]
          /\ receipt'[r].status = receipt[r].status /\ receipt'[r].bound = receipt[r].bound
          /\ receipt'[r].cancelRequested = receipt[r].cancelRequested
      BY <1>0, <1>1, <1>7 DEF TypeOK, MarkCancelApplied, Receipt
    <2> QED
      BY <1>0, <2>1 DEF RowInv, Kept, Owned, Busy
  <1> QED
    BY <1>2, <1>3, <1>4, <1>5, <1>6, <1>7

\* The starter of a request, and its Run.
LEMMA StarterKept ==
    ASSUME Inv, NEW q \in Request, NEW r \in Request, StarterStep(q) \/ RunEnds(q)
    PROVE  Kept(r)
  <1> USE DEF rows, tasks, routes
  <1>0. TypeOK /\ RowInv(r)
    BY DEF Inv
  <1>1. receipt[r] \in Receipt /\ run[r] \in RunRow
    BY <1>0 DEF TypeOK
  <1>2. CASE r # q
    <2>1. Same(r)
      BY <1>0, <1>2 DEF Same, TypeOK, StarterStep, GoesTo, FinishBeforeRun, BindRun, Validate,
                        BeforeSubmit, CreateRun, StartFails, OnRunStarted, OnRunStartedFails,
                        AwaitEnd, OnStartFailed, RunEnds
    <2> QED
      BY <1>0, <2>1, SameKept
  <1>3. CASE r = q /\ (Validate(q) \/ StartFails(q) \/ AwaitEnd(q))
    BY <1>0, <1>3 DEF TypeOK, Validate, StartFails, AwaitEnd, GoesTo, RowInv, Kept, Owned, Busy
  <1>4. CASE r = q /\ BeforeSubmit(q)
    <2>1. CASE CanSubmit(receipt[q])
      BY <1>0, <1>4, <2>1 DEF TypeOK, BeforeSubmit, CanSubmit, GoesTo, RowInv, Kept, Owned, Busy
    <2>2. CASE ~CanSubmit(receipt[q])
      <3>1. /\ receipt'[r] = Finished(r) /\ run'[r] = RunOfFinished(r)
            /\ starter'[r] = "failing" /\ starter[r] = "check"
        BY <1>0, <1>4, <2>2 DEF TypeOK, BeforeSubmit, GoesTo, FinishBeforeRun
      <3> QED
        BY <1>0, <3>1, FinishKept DEF RowInv
    <2> QED
      BY <2>1, <2>2
  <1>5. CASE r = q /\ CreateRun(q)
    <2>1. /\ receipt'[r] = receipt[r] /\ starter'[r] = "submitted" /\ starter[r] = "submit"
          /\ run'[r] = [status |-> "running", attached |-> TRUE, cancelRequested |-> FALSE]
      BY <1>0, <1>5 DEF TypeOK, CreateRun, GoesTo
    <2> QED
      BY <1>0, <2>1 DEF RowInv, Kept, Owned, Busy, Active
  <1>6. CASE r = q /\ OnRunStarted(q)
    <2>1. /\ Bindable(r) /\ receipt'[r] = Bound(receipt[r])
          /\ run'[r] = CarriedOver(receipt[r], run[r]) /\ starter'[r] = "none"
      BY <1>0, <1>6 DEF TypeOK, OnRunStarted, BindRun, GoesTo
    <2> QED
      BY <1>0, <2>1, BindKept
  <1>7. CASE r = q /\ OnRunStartedFails(q)
    <2>1. /\ receipt'[r] = receipt[r] /\ starter'[r] = "waiting" /\ starter[r] = "submitted"
          /\ run'[r].status = run[r].status /\ run'[r].attached = run[r].attached
          /\ run[r].cancelRequested => run'[r].cancelRequested
      BY <1>0, <1>1, <1>7 DEF TypeOK, OnRunStartedFails, GoesTo, RunRow
    <2> QED
      BY <1>0, <2>1 DEF RowInv, Kept, Owned, Busy
  <1>8. CASE r = q /\ OnStartFailed(q)
    <2>1. /\ receipt'[r] = Finished(r) /\ run'[r] = RunOfFinished(r) /\ starter'[r] = "none"
      BY <1>0, <1>8 DEF TypeOK, OnStartFailed, FinishBeforeRun, GoesTo
    <2> QED
      BY <1>0, <2>1, FinishKept
  <1>9. CASE r = q /\ RunEnds(q)
    <2>1. /\ receipt'[r] = receipt[r] /\ starter'[r] = starter[r]
          /\ run'[r].status = "ended" /\ run[r].status = "running"
      BY <1>0, <1>1, <1>9 DEF TypeOK, RunEnds, RunRow
    <2> QED
      BY <1>0, <2>1 DEF RowInv, Kept, Owned, Busy
  <1> QED
    BY <1>2, <1>3, <1>4, <1>5, <1>6, <1>7, <1>8, <1>9 DEF StarterStep

\* Steps that touch all requests: crashes, starts, the history.
LEMMA GlobalKept ==
    ASSUME Inv, NEW r \in Request,
           \/ \E b \in Backend : Crash(b) \/ StartBackend(b)
           \/ HistoryChanges
           \/ \E tail \in SUBSET Request : TruncateHistory(tail)
    PROVE  Kept(r)
  <1> USE DEF rows, tasks, routes
  <1>0. TypeOK /\ RowInv(r)
    BY DEF Inv
  <1>1. receipt[r] \in Receipt /\ run[r] \in RunRow
    BY <1>0 DEF TypeOK
  <1>2. ASSUME NEW b \in Backend, Crash(b) PROVE Kept(r)
    <2>1. receipt'[r] = receipt[r] /\ run'[r] = run[r] /\ starter'[r] \in {starter[r], "none"}
      BY <1>2 DEF Crash
    <2> QED
      BY <1>0, <2>1 DEF RowInv, Kept, Owned, Busy
  <1>3. ASSUME NEW b \in Backend, StartBackend(b) PROVE Kept(r)
    <2>1. starter'[r] = starter[r]
      BY <1>3 DEF StartBackend
    <2>2. CASE receipt[r].status \in Active
      <3>1. receipt'[r] = Finished(r) /\ run'[r] = RunOfFinished(r)
        BY <1>3, <2>2 DEF StartBackend
      <3>2. starter'[r] = "failing" => receipt[r].status \notin {"none", "accepted"}
        BY <1>0, <2>1 DEF RowInv
      <3> QED
        BY <1>0, <2>1, <3>1, <3>2, FinishKept
    <2>3. CASE receipt[r].status \notin Active
      BY <1>0, <1>3, <2>1, <2>3, SameKept DEF StartBackend, Same
    <2> QED
      BY <2>2, <2>3
  <1>4. CASE HistoryChanges
    BY <1>0, <1>4, SameKept DEF HistoryChanges, Same
  <1>5. ASSUME NEW tail \in SUBSET Request, TruncateHistory(tail) PROVE Kept(r)
    <2>1. CASE r \notin tail
      BY <1>0, <1>5, <2>1, SameKept DEF TruncateHistory, Same
    <2>2. CASE r \in tail
      <3>1. /\ run[r].status = "ended" /\ run'[r].status = "ended" /\ starter'[r] = starter[r]
        BY <1>1, <1>5, <2>2 DEF TruncateHistory, RunRow
      <3>2. \/ receipt'[r] = receipt[r]
            \/ receipt'[r].status = "canceled"
        BY <1>1, <1>5, <2>2 DEF TruncateHistory, Receipt
      <3> QED
        BY <1>0, <3>1, <3>2 DEF RowInv, Kept, Owned, Busy, Active
    <2> QED
      BY <2>1, <2>2
  <1> QED
    BY <1>2, <1>3, <1>4, <1>5

-----------------------------------------------------------------------------
\* The theorems.

\* A step that is no reservation gives the session no work.
LEMMA KeptWork ==
    ASSUME OneOwnedWork, \A r \in Request : Kept(r)
    PROVE  OneOwnedWork' /\ \A r \in Request : RowInv(r)'
  BY DEF Kept, OneOwnedWork

\* A reservation finds no work of the session.
LEMMA ReserveInv ==
    ASSUME Inv, NEW q \in Request, Reserve(q)
    PROVE  OneOwnedWork' /\ \A r \in Request : RowInv(r)'
  <1> USE DEF rows, tasks, routes
  <1>0. TypeOK
    BY DEF Inv
  <1>1. \A r \in Request : r # q => Same(r)
    BY <1>0 DEF TypeOK, Reserve, Same
  <1>2. \A r \in Request : ~Owned(r)
    BY DEF Reserve, SessionIdle, NoActiveRequest, NoActiveRun, Owned, Busy
  <1>3. \A r \in Request : Owned(r)' => r = q
    BY <1>1, <1>2 DEF Same, Owned, Busy
  <1>4. OneOwnedWork'
    BY <1>3 DEF OneOwnedWork
  <1>5. ASSUME NEW r \in Request PROVE RowInv(r)'
    <2>1. RowInv(r) /\ receipt[r] \in Receipt
      BY <1>0 DEF Inv, TypeOK
    <2>2. CASE r # q
      BY <1>1, <2>1, <2>2, SameKept DEF Kept
    <2>3. CASE r = q
      <3>1. /\ run'[r] = run[r] /\ starter'[r] = starter[r]
            /\ receipt[r].status = "none" /\ receipt'[r].status = "accepted"
            /\ receipt'[r].bound = receipt[r].bound
        BY <1>0, <2>1, <2>3 DEF TypeOK, Reserve, Receipt
      <3> QED
        BY <2>1, <3>1 DEF RowInv, Settled
    <2> QED
      BY <2>2, <2>3
  <1> QED
    BY <1>4, <1>5

\* Nothing is reserved at first.
LEMMA InitInv == Init => Inv
  <1> SUFFICES ASSUME Init PROVE Inv
    OBVIOUS
  <1>1. TypeOK
    BY DEF Init, TypeOK, Receipt, RunRow, StartPoint
  <1>2. OneOwnedWork /\ \A r \in Request : RowInv(r)
    BY DEF Init, OneOwnedWork, Owned, Busy, RowInv, Active
  <1> QED
    BY <1>1, <1>2 DEF Inv

\* Every step keeps the invariant.
LEMMA StepInv == ASSUME Inv, [Next]_vars PROVE Inv'
  <1>1. TypeOK'
    BY TypeStep DEF Inv
  <1>2. OneOwnedWork /\ \A r \in Request : RowInv(r)
    BY DEF Inv
  <1>3. (\A r \in Request : Kept(r)) => Inv'
    BY <1>1, <1>2, KeptWork DEF Inv
  <1>4. CASE UNCHANGED vars
    BY <1>2, <1>3, <1>4, SameKept DEF vars, Same
  <1>5. CASE \E q \in Request : Reserve(q)
    BY <1>1, <1>5, ReserveInv DEF Inv
  <1>6. CASE \/ \E b \in Backend : Crash(b) \/ StartBackend(b)
             \/ HistoryChanges
             \/ \E tail \in SUBSET Request : TruncateHistory(tail)
    BY <1>3, <1>6, GlobalKept
  <1>7. ASSUME NEW q \in Request,
               \/ \E b \in Backend : Claim(b, q) \/ RequestCancel(b, q)
               \/ PageBindsRun(q) \/ CancelRun(q) \/ MarkCancelApplied(q)
        PROVE  Inv'
    BY <1>3, <1>7, RouteKept
  <1>8. ASSUME NEW q \in Request, StarterStep(q) \/ RunEnds(q) PROVE Inv'
    BY <1>3, <1>8, StarterKept
  <1> QED
    BY <1>4, <1>5, <1>6, <1>7, <1>8 DEF Next, Start

\* The invariant holds for every set of requests and of backends, which overlap
\* and die at will.
THEOREM RequestInvariant == Spec => []Inv
  <1>1. Init => Inv
    BY InitInv
  <1>2. Inv /\ [Next]_vars => Inv'
    BY StepInv
  <1> QED
    BY <1>1, <1>2, PTL DEF Spec

\* Types hold for every set of requests and of backends.
THEOREM RequestTypeCorrect == Spec => []TypeOK
  <1>1. Init => TypeOK
    BY InitInv DEF Inv
  <1> QED
    BY <1>1, TypeStep, PTL DEF Spec

\* A session never owns two pieces of work, for any number of requests and of
\* backends: only the Run of a request that was settled under its starter may go
\* on beside it.
THEOREM SessionOwnsOneWork == Spec => []OneOwnedWork
  <1>1. Inv => OneOwnedWork
    BY DEF Inv
  <1> QED
    BY <1>1, RequestInvariant, PTL

\* A cancel always reaches the Run its request is bound to, whichever backend
\* bound it and whichever took the cancel.
THEOREM CancelAlwaysReachesRun == Spec => []CancelReachesRun
  <1>1. Inv => CancelReachesRun
    BY DEF Inv, RowInv, CancelReachesRun
  <1> QED
    BY <1>1, RequestInvariant, PTL

-----------------------------------------------------------------------------
\* Refinement: the requests keep the promise of ChatSession.

\* The author's wish and the tie to the Run stay as they are.
SameAsked(r) == /\ receipt'[r].cancelRequested = receipt[r].cancelRequested
                /\ receipt'[r].bound = receipt[r].bound

SameLife(r) == Life(r)' = Life(r)

\* What the author sees of a request changes in one of these ways, or not at all.
Quiet(r) == SameLife(r) /\ SameAsked(r) /\ run'[r].cancelRequested = run[r].cancelRequested

Taken(r) == /\ Life(r) = "none" /\ Life(r)' = "waiting" /\ SameAsked(r)
            /\ \A q \in Request : Life(q) \notin {"waiting", "working", "stray"}
            /\ run'[r].cancelRequested = run[r].cancelRequested

Started(r) == /\ \/ Life(r) = "waiting" /\ Life(r)' = "working"
                 \/ Life(r) = "disowned" /\ Life(r)' = "stray"
              /\ SameAsked(r) /\ run'[r].cancelRequested = FALSE

Closed(r) == /\ \/ Life(r) = "waiting" /\ Life(r)' \in {"refused", "disowned"}
                \/ Life(r) \in {"working", "stray"} /\ Life(r)' = "over"
                \/ Life(r) = "disowned" /\ Life(r)' = "refused"
             /\ SameAsked(r) /\ run'[r].cancelRequested = run[r].cancelRequested

Asked(r) == /\ Life(r) \in {"waiting", "working", "over"}
            /\ receipt'[r].cancelRequested = TRUE /\ receipt'[r].bound = receipt[r].bound
            /\ SameLife(r) \/ (Life(r) = "waiting" /\ Life(r)' = "refused")
            /\ run'[r].cancelRequested =
                   (run[r].cancelRequested \/ (receipt[r].bound /\ Life(r) = "working"))

Tied(r) == /\ Life(r) \in {"working", "over"} /\ SameLife(r)
           /\ receipt'[r].bound = TRUE
           /\ receipt'[r].cancelRequested = receipt[r].cancelRequested
           /\ run'[r].cancelRequested =
                  (run[r].cancelRequested \/ (receipt[r].cancelRequested /\ Life(r) = "working"))

Told(r) == /\ Life(r) \in {"working", "stray"} /\ SameLife(r) /\ SameAsked(r)
           /\ run'[r].cancelRequested = TRUE

Seen(r) == Quiet(r) \/ Taken(r) \/ Started(r) \/ Closed(r) \/ Asked(r) \/ Tied(r) \/ Told(r)

\* The other requests stay as they are.
OnlyRow(r) == \A x \in Request \ {r} : Same(x)

\* Where one request changes as listed, the conversation takes a step of its own.
LEMMA SeenStep ==
    ASSUME TypeOK, NEW r \in Request, OnlyRow(r), Seen(r)
    PROVE  [Session!Next]_(Session!session)
  <1> DEFINE life == [x \in Request |-> Life(x)]
             asked == [x \in Request |-> receipt[x].cancelRequested]
             tied == [x \in Request |-> receipt[x].bound]
             told == [x \in Request |-> run[x].cancelRequested]
  <1>1. \A x \in Request \ {r} : Life(x)' = Life(x)
    BY DEF OnlyRow, Same, Life
  <1>2. life' = [life EXCEPT ![r] = Life(r)']
    BY <1>1
  <1>3. asked' = [asked EXCEPT ![r] = receipt'[r].cancelRequested]
    BY DEF OnlyRow, Same
  <1>4. tied' = [tied EXCEPT ![r] = receipt'[r].bound]
    BY DEF OnlyRow, Same
  <1>5. told' = [told EXCEPT ![r] = run'[r].cancelRequested]
    BY DEF OnlyRow, Same
  <1>6. /\ life[r] = Life(r) /\ asked[r] = receipt[r].cancelRequested
        /\ tied[r] = receipt[r].bound /\ told[r] = run[r].cancelRequested
        /\ \A x \in Request : life[x] = Life(x)
    OBVIOUS
  <1>7. /\ Life(r)' = Life(r) => life' = life
        /\ receipt'[r].cancelRequested = receipt[r].cancelRequested => asked' = asked
        /\ receipt'[r].bound = receipt[r].bound => tied' = tied
        /\ run'[r].cancelRequested = run[r].cancelRequested => told' = told
    <2>1. Life(r)' = Life(r) => life' = life
      BY <1>1
    <2>2. receipt'[r].cancelRequested = receipt[r].cancelRequested => asked' = asked
      BY DEF OnlyRow, Same
    <2>3. receipt'[r].bound = receipt[r].bound => tied' = tied
      BY DEF OnlyRow, Same
    <2>4. run'[r].cancelRequested = run[r].cancelRequested => told' = told
      BY DEF OnlyRow, Same
    <2> QED
      BY <2>1, <2>2, <2>3, <2>4
  <1> HIDE DEF life, asked, tied, told
  <1>8. CASE Quiet(r)
    BY <1>7, <1>8 DEF Quiet, SameLife, SameAsked, Session!session, life, asked, tied, told
  <1>9. CASE Taken(r)
    <2>1. Session!Take(r)
      BY <1>2, <1>6, <1>7, <1>9 DEF Taken, SameAsked, Session!Take, life, asked, tied, told
    <2> QED
      BY <2>1 DEF Session!Next
  <1>10. CASE Started(r)
    <2>1. Session!Start(r)
      BY <1>2, <1>5, <1>6, <1>7, <1>10
         DEF Started, SameAsked, Session!Start, life, asked, tied, told
    <2> QED
      BY <2>1 DEF Session!Next
  <1>11. CASE Closed(r)
    <2>1. asked' = asked /\ tied' = tied /\ told' = told
      BY <1>7, <1>11 DEF Closed, SameAsked
    <2>2. CASE Life(r) = "waiting"
      <3>1. Session!Refuse(r)
        BY <1>2, <1>6, <1>11, <2>1, <2>2
           DEF Closed, Session!Refuse, life, asked, tied, told
      <3> QED
        BY <3>1 DEF Session!Next
    <2>3. CASE Life(r) \in {"working", "stray"}
      <3>1. Session!Finish(r)
        BY <1>2, <1>6, <1>11, <2>1, <2>3
           DEF Closed, Session!Finish, life, asked, tied, told
      <3> QED
        BY <3>1 DEF Session!Next
    <2>4. CASE Life(r) = "disowned"
      <3>1. life' = [x \in Request |-> IF x \in {r} THEN "refused" ELSE life[x]]
        BY <1>1, <1>11, <2>4 DEF Closed, life
      <3>2. \A x \in {r} : life[x] = "disowned"
        BY <1>6, <2>4
      <3>3. Session!GiveUp({r})
        BY <2>1, <3>1, <3>2 DEF Session!GiveUp, life, asked, tied, told
      <3> QED
        BY <3>3 DEF Session!Next
    <2> QED
      BY <1>11, <2>2, <2>3, <2>4 DEF Closed
  <1>12. CASE Asked(r)
    <2>1. asked' = [asked EXCEPT ![r] = TRUE] /\ tied' = tied
      BY <1>3, <1>7, <1>12 DEF Asked
    <2>2. told' = [told EXCEPT ![r] = told[r] \/ (tied[r] /\ life[r] = "working")]
      BY <1>5, <1>6, <1>12, Zenon DEF Asked
    <2>3. life' = life \/ (life[r] = "waiting" /\ life' = [life EXCEPT ![r] = "refused"])
      BY <1>2, <1>6, <1>7, <1>12 DEF Asked, SameLife
    <2>4. Session!Ask(r)
      BY <1>6, <1>12, <2>1, <2>2, <2>3, Zenon DEF Asked, Session!Ask, life, asked, tied, told
    <2> QED
      BY <2>4 DEF Session!Next
  <1>13. CASE Tied(r)
    <2>1. tied' = [tied EXCEPT ![r] = TRUE] /\ asked' = asked /\ life' = life
      BY <1>4, <1>7, <1>13 DEF Tied, SameLife
    <2>2. told' = [told EXCEPT ![r] = told[r] \/ (asked[r] /\ life[r] = "working")]
      BY <1>5, <1>6, <1>13, Zenon DEF Tied
    <2>3. Session!Tie(r)
      BY <1>6, <1>13, <2>1, <2>2, Zenon DEF Tied, Session!Tie, life, asked, tied, told
    <2> QED
      BY <2>3 DEF Session!Next
  <1>14. CASE Told(r)
    <2>1. Session!Tell(r)
      BY <1>5, <1>6, <1>7, <1>14
         DEF Told, SameLife, SameAsked, Session!Tell, life, asked, tied, told
    <2> QED
      BY <2>1 DEF Session!Next
  <1> QED
    BY <1>8, <1>9, <1>10, <1>11, <1>12, <1>13, <1>14 DEF Seen

\* What the invariant of ChatRequest leaves open: who runs is still of the session
\* (truncation takes what has ended), and a bound receipt says so.
Whole(r) == /\ run[r].status = "running" => run[r].attached
            /\ receipt[r].status = "run_bound" => receipt[r].bound

\* No starter of the request stood or stands before the creation of its Run.
NotAtRun(r) == starter'[r] = starter[r] \/ "submit" \notin {starter[r], starter'[r]}

\* A request whose rows nobody touches is as it was.
LEMMA SameSeen ==
    ASSUME NEW r \in Request, receipt'[r] = receipt[r], run'[r] = run[r], NotAtRun(r), Whole(r)
    PROVE  Quiet(r) /\ Whole(r)'
  BY DEF Quiet, SameLife, SameAsked, Life, Whole, NotAtRun

\* Who binds a request ties it to its Run.
LEMMA BindSeen ==
    ASSUME TypeOK, NEW r \in Request, RowInv(r), Whole(r), Bindable(r),
           receipt'[r] = Bound(receipt[r]), run'[r] = CarriedOver(receipt[r], run[r])
    PROVE  Seen(r) /\ Whole(r)'
  <1>1. receipt[r] \in Receipt /\ run[r] \in RunRow
    BY DEF TypeOK
  <1>2. /\ run'[r].status = run[r].status /\ run'[r].attached = run[r].attached
        /\ run'[r].cancelRequested =
               (run[r].cancelRequested \/ (receipt[r].cancelRequested /\ run[r].status = "running"))
    BY <1>1 DEF CarriedOver, RunRow
  <1>3. run[r].status \in {"running", "ended"}
    BY <1>1 DEF Bindable, RunRow
  <1>4. CASE receipt[r].status \in {"starting", "run_bound"}
    <2>1. /\ receipt'[r].status = "run_bound" /\ receipt'[r].bound = TRUE
          /\ receipt'[r].cancelRequested = receipt[r].cancelRequested
      BY <1>1, <1>4 DEF Bound, Receipt
    <2>2. /\ Life(r) \in {"working", "over"} /\ Life(r)' = Life(r)
          /\ Life(r) = "working" <=> run[r].status = "running"
      BY <1>2, <1>3, <1>4, <2>1 DEF Life, Settled
    <2>3. Tied(r)
      BY <1>2, <2>1, <2>2 DEF Tied, SameLife
    <2> QED
      BY <1>2, <2>1, <2>3 DEF Seen, Whole
  <1>5. CASE receipt[r].status \notin {"starting", "run_bound"}
    <2>1. receipt'[r] = receipt[r]
      BY <1>5 DEF Bound
    <2>2. receipt[r].status \in Settled
      BY <1>1, <1>3, <1>5 DEF RowInv, Receipt, Active
    <2>3. Life(r)' = Life(r) /\ Whole(r)' /\ SameAsked(r)
      BY <1>2, <1>3, <2>1 DEF Life, Whole, SameAsked
    <2>4. CASE run[r].status = "running"
      <3>1. Life(r) = "stray"
        BY <2>2, <2>4 DEF Life
      <3>2. CASE receipt[r].cancelRequested
        BY <1>2, <2>3, <2>4, <3>1, <3>2 DEF Seen, Told, SameLife
      <3>3. CASE ~receipt[r].cancelRequested
        <4>1. run'[r] = run[r]
          BY <3>3 DEF CarriedOver
        <4> QED
          BY <2>3, <4>1 DEF Seen, Quiet, SameLife
      <3> QED
        BY <3>2, <3>3
    <2>5. CASE run[r].status # "running"
      <3>1. run'[r] = run[r]
        BY <2>5 DEF CarriedOver
      <3> QED
        BY <2>3, <3>1 DEF Seen, Quiet, SameLife
    <2> QED
      BY <2>4, <2>5
  <1> QED
    BY <1>4, <1>5

\* Who finishes a request before its Run refuses it, or ties it after all.
LEMMA FinishSeen ==
    ASSUME TypeOK, NEW r \in Request, RowInv(r), Whole(r), NotAtRun(r),
           receipt'[r] = Finished(r), run'[r] = RunOfFinished(r)
    PROVE  Seen(r) /\ Whole(r)'
  <1>1. receipt[r] \in Receipt /\ run[r] \in RunRow
    BY DEF TypeOK
  <1>2. CASE Bindable(r)
    BY <1>2, BindSeen DEF Finished, RunOfFinished, Bindable
  <1>3. CASE ~Bindable(r) /\ run[r].status # "none"
    BY <1>3, SameSeen DEF Finished, RunOfFinished, Seen
  <1>4. CASE run[r].status = "none"
    <2>1. run'[r] = run[r] /\ receipt'[r] = WithoutRun(receipt[r]) /\ ~receipt[r].bound
      BY <1>4 DEF Finished, RunOfFinished, Bindable, RowInv
    <2>2. CASE receipt[r].status \in Active
      <3>1. /\ receipt'[r].status \in Settled /\ receipt'[r].bound = receipt[r].bound
            /\ receipt'[r].cancelRequested = receipt[r].cancelRequested
        BY <1>1, <2>1, <2>2 DEF WithoutRun, Receipt, Settled
      <3>2. Life(r) = "waiting" /\ Life(r)' \in {"refused", "disowned"}
        BY <1>4, <2>1, <2>2, <3>1 DEF Life, Active, Settled
      <3> QED
        BY <1>4, <2>1, <3>1, <3>2 DEF Seen, Closed, SameAsked, Whole, Settled
    <2>3. CASE receipt[r].status \notin Active
      <3>1. receipt'[r] = receipt[r]
        BY <2>1, <2>3 DEF WithoutRun
      <3> QED
        BY <2>1, <3>1, SameSeen DEF Seen
    <2> QED
      BY <2>2, <2>3
  <1> QED
    BY <1>2, <1>3, <1>4

\* A Run is asked to cancel, by whoever may.
LEMMA TellSeen ==
    ASSUME TypeOK, NEW r \in Request, RowInv(r), Whole(r), receipt'[r].status = receipt[r].status,
           receipt'[r].bound = receipt[r].bound,
           receipt'[r].cancelRequested = receipt[r].cancelRequested, NotAtRun(r),
           run'[r] = [run[r] EXCEPT !.cancelRequested = @ \/ run[r].status = "running"]
    PROVE  Seen(r) /\ Whole(r)'
  <1>1. receipt[r] \in Receipt /\ run[r] \in RunRow
    BY DEF TypeOK
  <1>2. /\ run'[r].status = run[r].status /\ run'[r].attached = run[r].attached
        /\ run'[r].cancelRequested = (run[r].cancelRequested \/ run[r].status = "running")
    BY <1>1 DEF RunRow
  <1>3. Life(r)' = Life(r) /\ Whole(r)'
    BY <1>2 DEF Life, Whole, NotAtRun
  <1>4. CASE run[r].status = "running"
    <2>1. Life(r) \in {"working", "stray"}
      BY <1>4 DEF Life
    <2> QED
      BY <1>2, <1>3, <1>4, <2>1 DEF Seen, Told, SameLife, SameAsked
  <1>5. CASE run[r].status # "running"
    <2>1. run'[r].cancelRequested = run[r].cancelRequested
      BY <1>1, <1>2, <1>5 DEF RunRow
    <2> QED
      BY <1>3, <2>1 DEF Seen, Quiet, SameLife, SameAsked
  <1> QED
    BY <1>4, <1>5

\* Everything the refinement rests on.
SeenInv == Inv /\ \A r \in Request : Whole(r)

\* One request is seen to change, and the others stay whole as they are.
Shows(r) == OnlyRow(r) /\ Seen(r) /\ Whole(r)'

\* The routes.
LEMMA RouteSeen ==
    ASSUME SeenInv, NEW r \in Request,
           \/ \E b \in Backend : Claim(b, r) \/ RequestCancel(b, r)
           \/ Reserve(r) \/ PageBindsRun(r) \/ CancelRun(r) \/ MarkCancelApplied(r)
    PROVE  Shows(r)
  <1> USE DEF rows, tasks, routes
  <1>0. TypeOK /\ RowInv(r) /\ Whole(r)
    BY DEF SeenInv, Inv
  <1>1. receipt[r] \in Receipt /\ run[r] \in RunRow
    BY <1>0 DEF TypeOK
  <1>2. OnlyRow(r)
    BY <1>0 DEF OnlyRow, Same, TypeOK, Reserve, Claim, PageBindsRun, BindRun, RequestCancel, CancelRun,
                MarkCancelApplied
  <1>3. CASE Reserve(r)
    <2>1. /\ run'[r] = run[r] /\ receipt[r].status = "none" /\ receipt'[r].status = "accepted"
          /\ SameAsked(r)
      BY <1>0, <1>1, <1>3 DEF TypeOK, Reserve, Receipt, SameAsked
    <2>2. Life(r) = "none" /\ Life(r)' = "waiting"
      BY <1>0, <2>1 DEF RowInv, Life, Active, Settled
    <2>3. ASSUME NEW q \in Request PROVE Life(q) \notin {"waiting", "working", "stray"}
      <3>1. /\ Whole(q) /\ receipt[q].status \notin Active
            /\ ~(run[q].status = "running" /\ run[q].attached)
        BY <1>3 DEF SeenInv, Reserve, SessionIdle, NoActiveRequest, NoActiveRun
      <3> QED
        BY <3>1 DEF Whole, Life
    <2>4. Taken(r)
      BY <2>1, <2>2, <2>3 DEF Taken
    <2> QED
      BY <1>0, <1>2, <2>1, <2>4 DEF Shows, Seen, Whole
  <1>4. ASSUME NEW b \in Backend, Claim(b, r) PROVE Shows(r)
    <2>0. starter[r] = "none" /\ starter'[r] \in {"none", "validate"}
      BY <1>0, <1>4 DEF TypeOK, Claim, RowInv
    <2>1. /\ run'[r] = run[r] /\ receipt[r].status = "accepted" /\ SameAsked(r)
          /\ receipt'[r].status \in {"starting", "rejected"}
      BY <1>0, <1>1, <1>4 DEF TypeOK, Claim, Receipt, SameAsked
    <2>2. Life(r) = "waiting" /\ Life(r)' \in {"waiting", "refused"}
      BY <1>0, <2>0, <2>1 DEF RowInv, Life, Active, Settled
    <2>3. Quiet(r) \/ Closed(r)
      BY <2>1, <2>2 DEF Quiet, Closed, SameLife
    <2> QED
      BY <1>0, <1>2, <2>1, <2>3 DEF Shows, Seen, Whole
  <1>5. CASE PageBindsRun(r)
    <2>1. /\ Bindable(r) /\ receipt'[r] = Bound(receipt[r])
          /\ run'[r] = CarriedOver(receipt[r], run[r])
      BY <1>0, <1>5 DEF TypeOK, PageBindsRun, BindRun
    <2> QED
      BY <1>0, <1>2, <2>1, BindSeen DEF Shows
  <1>6. ASSUME NEW b \in Backend, RequestCancel(b, r) PROVE Shows(r)
    <2>0. starter'[r] = starter[r]
      BY <1>6 DEF RequestCancel
    <2>1. /\ run'[r] = RunToldToCancel(receipt[r], run[r])
          /\ receipt'[r].cancelRequested = TRUE /\ receipt'[r].bound = receipt[r].bound
          /\ receipt'[r].status =
                 IF receipt[r].status = "accepted" THEN "canceled" ELSE receipt[r].status
          /\ receipt[r].status \notin Settled \union {"none"}
      BY <1>0, <1>1, <1>6 DEF TypeOK, RequestCancel, Receipt
    <2>2. /\ run'[r].status = run[r].status /\ run'[r].attached = run[r].attached
          /\ run'[r].cancelRequested =
                 (run[r].cancelRequested \/ (receipt[r].bound /\ run[r].status = "running"))
      BY <1>1, <2>1 DEF RunToldToCancel, RunRow
    <2>3. /\ Life(r) \in {"waiting", "working", "over"}
          /\ Life(r) = "working" <=> run[r].status = "running"
      <3>1. receipt[r].status \in Active \union {"run_bound"}
        BY <1>1, <2>1 DEF Receipt
      <3>2. run[r].status \in {"none", "running", "ended"}
        BY <1>1 DEF RunRow
      <3>3. run[r].status = "none" => receipt[r].status \in Active
        BY <1>0, <3>1 DEF Whole, RowInv
      <3> QED
        BY <2>1, <3>2, <3>3 DEF Life
    <2>4. SameLife(r) \/ (Life(r) = "waiting" /\ Life(r)' = "refused")
      BY <1>0, <2>0, <2>1, <2>2 DEF SameLife, Life, RowInv, Active, Settled
    <2>5. Asked(r)
      BY <2>1, <2>2, <2>3, <2>4 DEF Asked
    <2> QED
      BY <1>0, <1>2, <2>1, <2>2, <2>5 DEF Shows, Seen, Whole
  <1>7. CASE CancelRun(r)
    <2>1. receipt'[r] = receipt[r] /\ NotAtRun(r)
      BY <1>7 DEF CancelRun, NotAtRun
    <2>2. CASE UNCHANGED run
      BY <1>0, <1>2, <2>1, <2>2, SameSeen DEF Shows, Seen
    <2>3. CASE ~UNCHANGED run
      <3>1. run'[r] = [run[r] EXCEPT !.cancelRequested = @ \/ run[r].status = "running"]
        BY <1>0, <1>7, <2>3 DEF CancelRun, TypeOK
      <3> QED
        BY <1>0, <1>2, <2>1, <3>1, TellSeen DEF Shows
    <2> QED
      BY <2>2, <2>3
  <1>8. CASE MarkCancelApplied(r)
    <2>1. /\ run'[r] = run[r] /\ starter'[r] = starter[r]
          /\ receipt'[r].status = receipt[r].status /\ SameAsked(r)
      BY <1>0, <1>1, <1>8 DEF TypeOK, MarkCancelApplied, Receipt, SameAsked
    <2>2. Quiet(r) /\ Whole(r)'
      BY <1>0, <2>1 DEF Quiet, SameLife, SameAsked, Life, Whole
    <2> QED
      BY <1>2, <2>2 DEF Shows, Seen
  <1> QED
    BY <1>3, <1>4, <1>5, <1>6, <1>7, <1>8

\* The starter of a request, and its Run.
LEMMA StarterSeen ==
    ASSUME SeenInv, NEW r \in Request, StarterStep(r) \/ RunEnds(r)
    PROVE  Shows(r)
  <1> USE DEF rows, tasks, routes
  <1>0. TypeOK /\ RowInv(r) /\ Whole(r)
    BY DEF SeenInv, Inv
  <1>1. receipt[r] \in Receipt /\ run[r] \in RunRow
    BY <1>0 DEF TypeOK
  <1>2. OnlyRow(r)
    BY <1>0 DEF OnlyRow, Same, TypeOK, StarterStep, GoesTo, FinishBeforeRun, BindRun, Validate, BeforeSubmit,
                CreateRun, StartFails, OnRunStarted, OnRunStartedFails, AwaitEnd, OnStartFailed,
                RunEnds
  <1>3. ASSUME UNCHANGED <<receipt, run>>, NotAtRun(r) PROVE Shows(r)
    BY <1>0, <1>2, <1>3, SameSeen DEF Shows, Seen
  <1>4. ASSUME FinishBeforeRun(r), NotAtRun(r) PROVE Shows(r)
    <2>1. receipt'[r] = Finished(r) /\ run'[r] = RunOfFinished(r)
      BY <1>0, <1>4 DEF TypeOK, FinishBeforeRun
    <2> QED
      BY <1>0, <1>2, <1>4, <2>1, FinishSeen DEF Shows
  <1>5. CASE Validate(r) \/ AwaitEnd(r)
    <2>1. NotAtRun(r)
      BY <1>0, <1>5 DEF NotAtRun, TypeOK, Validate, AwaitEnd, GoesTo
    <2> QED
      BY <1>3, <1>5, <2>1 DEF Validate, AwaitEnd
  <1>6. CASE BeforeSubmit(r)
    <2>1. CASE CanSubmit(receipt[r])
      <3>1. Quiet(r) /\ Whole(r)'
        BY <1>0, <1>6, <2>1
           DEF BeforeSubmit, CanSubmit, Quiet, SameLife, SameAsked, Life, Whole, Active, Settled
      <3> QED
        BY <1>2, <3>1 DEF Shows, Seen
    <2>2. CASE ~CanSubmit(receipt[r])
      <3>1. FinishBeforeRun(r) /\ NotAtRun(r)
        BY <1>0, <1>6, <2>2 DEF BeforeSubmit, NotAtRun, TypeOK, GoesTo
      <3> QED
        BY <1>4, <3>1
    <2> QED
      BY <2>1, <2>2
  <1>7. CASE StartFails(r)
    <2>1. receipt'[r] = receipt[r] /\ run'[r] = run[r] /\ starter'[r] # "submit"
      BY <1>0, <1>7 DEF TypeOK, StartFails, GoesTo
    <2>2. Quiet(r) \/ Closed(r)
      BY <2>1 DEF Quiet, Closed, SameLife, SameAsked, Life
    <2> QED
      BY <1>0, <1>2, <2>1, <2>2 DEF Shows, Seen, Whole
  <1>8. CASE CreateRun(r)
    <2>1. /\ receipt'[r] = receipt[r] /\ receipt[r].status \in Settled \union {"starting"}
          /\ starter[r] = "submit" /\ run[r].status = "none"
          /\ run'[r] = [status |-> "running", attached |-> TRUE, cancelRequested |-> FALSE]
      BY <1>0, <1>8 DEF TypeOK, CreateRun, RowInv
    <2>2. Started(r)
      BY <2>1 DEF Started, Life, SameAsked, Active, Settled
    <2> QED
      BY <1>0, <1>2, <2>1, <2>2 DEF Shows, Seen, Whole
  <1>9. CASE OnRunStarted(r)
    <2>1. /\ Bindable(r) /\ receipt'[r] = Bound(receipt[r])
          /\ run'[r] = CarriedOver(receipt[r], run[r])
      BY <1>0, <1>9 DEF TypeOK, OnRunStarted, BindRun
    <2> QED
      BY <1>0, <1>2, <2>1, BindSeen DEF Shows
  <1>10. CASE OnRunStartedFails(r)
    <2>1. /\ receipt'[r] = receipt[r] /\ NotAtRun(r)
          /\ run'[r] = [run[r] EXCEPT !.cancelRequested = @ \/ run[r].status = "running"]
      BY <1>0, <1>10 DEF TypeOK, OnRunStartedFails, NotAtRun, GoesTo
    <2> QED
      BY <1>0, <1>2, <2>1, TellSeen DEF Shows
  <1>11. CASE OnStartFailed(r)
    BY <1>0, <1>4, <1>11 DEF OnStartFailed, NotAtRun, TypeOK, GoesTo
  <1>12. CASE RunEnds(r)
    <2>1. /\ receipt'[r] = receipt[r] /\ run[r].status = "running" /\ run'[r].status = "ended"
          /\ run'[r].cancelRequested = run[r].cancelRequested
      BY <1>0, <1>1, <1>12 DEF TypeOK, RunEnds, RunRow
    <2>2. Closed(r)
      BY <2>1 DEF Closed, Life, SameAsked
    <2> QED
      BY <1>0, <1>2, <2>1, <2>2 DEF Shows, Seen, Whole
  <1> QED
    BY <1>5, <1>6, <1>7, <1>8, <1>9, <1>10, <1>11, <1>12 DEF StarterStep

\* A start settles the one request that is still open, if there is one.
LEMMA StartSeen ==
    ASSUME SeenInv, NEW b \in Backend, StartBackend(b)
    PROVE  [Session!Next]_(Session!session) /\ \A r \in Request : Whole(r)'
  <1> USE DEF tasks
  <1>0. TypeOK /\ OneOwnedWork /\ \A r \in Request : RowInv(r) /\ Whole(r)
    BY DEF SeenInv, Inv
  <1>1. \A r \in Request : NotAtRun(r) /\ (receipt[r].status \notin Active => Same(r))
    BY DEF StartBackend, Same, NotAtRun
  <1>2. CASE \E r \in Request : receipt[r].status \in Active
    <2>1. PICK r \in Request : receipt[r].status \in Active
      BY <1>2
    <2>2. receipt'[r] = Finished(r) /\ run'[r] = RunOfFinished(r)
      BY <2>1 DEF StartBackend
    <2>3. Seen(r) /\ Whole(r)'
      BY <1>0, <1>1, <2>2, FinishSeen
    <2>4. \A x \in Request : receipt[x].status \in Active => x = r
      BY <1>0, <2>1 DEF OneOwnedWork, Owned, Busy, Active, Settled
    <2>5. OnlyRow(r)
      BY <1>1, <2>4 DEF OnlyRow
    <2>6. \A x \in Request \ {r} : Whole(x)'
      BY <1>0, <1>1, <2>5, SameSeen DEF OnlyRow, Same
    <2> QED
      BY <1>0, <2>3, <2>5, <2>6, SeenStep
  <1>3. CASE \A r \in Request : receipt[r].status \notin Active
    <2>1. \A r \in Request : Same(r)
      BY <1>1, <1>3
    <2>2. \A r \in Request : Whole(r)'
      BY <1>0, <1>1, <2>1, SameSeen DEF Same
    <2>3. UNCHANGED Session!session
      BY <2>1 DEF Session!session, Life, Same
    <2> QED
      BY <2>2, <2>3
  <1> QED
    BY <1>2, <1>3

\* With a backend die the starters that did not see that their request was settled.
LEMMA CrashSeen ==
    ASSUME SeenInv, NEW b \in Backend, Crash(b)
    PROVE  Session!Next /\ \A r \in Request : Whole(r)'
  <1> DEFINE S == {r \in Request : Life(r) = "disowned" /\ home[r] = b}
  <1>1. receipt' = receipt /\ run' = run
    BY DEF Crash, rows
  <1>2. \A r \in Request : starter'[r] = IF home[r] = b THEN "none" ELSE starter[r]
    BY DEF Crash
  <1>3. \A r \in Request : Life(r)' = IF r \in S THEN "refused" ELSE Life(r)
    BY <1>1, <1>2 DEF Life
  <1>4. Session!GiveUp(S)
    BY <1>1, <1>3 DEF Session!GiveUp
  <1>5. \A r \in Request : Whole(r)'
    BY <1>1 DEF SeenInv, Whole
  <1> HIDE DEF S
  <1>6. S \in SUBSET Request
    BY DEF S
  <1> QED
    BY <1>4, <1>5, <1>6 DEF Session!Next

\* A truncation withdraws turns that are over.
LEMMA TruncateSeen ==
    ASSUME SeenInv, NEW tail \in SUBSET Request, TruncateHistory(tail)
    PROVE  Session!Next /\ \A r \in Request : Whole(r)'
  <1>0. TypeOK /\ starter' = starter /\ \A r \in Request : Whole(r)
    BY DEF SeenInv, Inv, TruncateHistory, tasks
  <1> DEFINE S == {r \in tail : receipt[r].bound}
  <1>1. ASSUME NEW r \in Request
        PROVE  /\ r \in tail => run[r].status = "ended"
               /\ run'[r].status = run[r].status
               /\ run'[r].cancelRequested = run[r].cancelRequested
               /\ r \notin tail => run'[r] = run[r]
               /\ receipt'[r].bound = receipt[r].bound
               /\ receipt'[r].cancelRequested = (r \in S \/ receipt[r].cancelRequested)
               /\ r \notin S => receipt'[r] = receipt[r]
               /\ r \in S => receipt'[r].status = "canceled"
    <2>1. receipt[r] \in Receipt /\ run[r] \in RunRow
      BY <1>0 DEF TypeOK
    <2>2. r \in tail => run[r].status = "ended"
      BY DEF TruncateHistory
    <2>3. /\ run'[r].status = run[r].status
          /\ run'[r].cancelRequested = run[r].cancelRequested
          /\ r \notin tail => run'[r] = run[r]
      BY <2>1 DEF TruncateHistory, RunRow
    <2>4. CASE r \in S
      BY <2>1, <2>2, <2>3, <2>4 DEF TruncateHistory, Receipt
    <2>5. CASE r \notin S
      <3>1. receipt'[r] = receipt[r]
        BY <2>5 DEF TruncateHistory
      <3> QED
        BY <2>1, <2>2, <2>3, <2>5, <3>1 DEF Receipt
    <2> QED
      BY <2>4, <2>5
  <1> HIDE DEF S
  <1>2. S \subseteq Request
    BY DEF S
  <1>3. \A r \in Request : Life(r)' = Life(r) /\ (r \in S => Life(r) = "over")
    <2> SUFFICES ASSUME NEW r \in Request
                 PROVE  Life(r)' = Life(r) /\ (r \in S => Life(r) = "over")
      OBVIOUS
    <2>1. r \in S => run[r].status = "ended"
      BY <1>1 DEF S
    <2> QED
      BY <1>0, <1>1, <2>1 DEF Life
  <1>4. Session!Withdraw(S)
    BY <1>1, <1>2, <1>3 DEF Session!Withdraw
  <1>5. \A r \in Request : Whole(r)'
    BY <1>0, <1>1 DEF Whole
  <1>6. PICK T \in SUBSET Request : T = S
    BY <1>2
  <1>7. Session!Withdraw(T)
    BY <1>4, <1>6 DEF Session!Withdraw
  <1> QED
    BY <1>5, <1>7 DEF Session!Next

\* Nobody has asked for anything yet.
LEMMA SessionInit == Init => Session!Init /\ \A r \in Request : Whole(r)
  BY DEF Init, Session!Init, Life, Whole, Active, Settled

\* Every step of starters, routes, pages and backends is one of the conversation.
LEMMA SessionStep ==
    ASSUME SeenInv, [Next]_vars
    PROVE  [Session!Next]_(Session!session) /\ SeenInv'
  <1>0. TypeOK /\ Inv' /\ \A r \in Request : Whole(r)
    BY StepInv DEF SeenInv, Inv
  <1>1. CASE UNCHANGED <<receipt, run, starter>>
    <2>1. UNCHANGED Session!session
      BY <1>1 DEF Session!session, Life
    <2>2. \A r \in Request : Whole(r)'
      BY <1>0, <1>1 DEF Whole
    <2> QED
      BY <1>0, <2>1, <2>2 DEF SeenInv
  <1>2. CASE Start
    BY <1>0, <1>2, StartSeen DEF SeenInv, Start
  <1>3. CASE \E b \in Backend : Crash(b)
    BY <1>0, <1>3, CrashSeen DEF SeenInv
  <1>4. CASE \E tail \in SUBSET Request : TruncateHistory(tail)
    BY <1>0, <1>4, TruncateSeen DEF SeenInv
  <1>5. ASSUME NEW r \in Request,
               \/ \E b \in Backend : Claim(b, r) \/ RequestCancel(b, r)
               \/ Reserve(r) \/ PageBindsRun(r) \/ CancelRun(r) \/ MarkCancelApplied(r)
               \/ StarterStep(r) \/ RunEnds(r)
        PROVE  [Session!Next]_(Session!session) /\ SeenInv'
    <2>1. Shows(r)
      BY <1>5, RouteSeen, StarterSeen
    <2>2. OnlyRow(r) /\ Seen(r) /\ Whole(r)'
      BY <2>1 DEF Shows
    <2>3. \A x \in Request \ {r} : Whole(x)'
      BY <1>0, <2>2 DEF OnlyRow, Same, Whole
    <2> QED
      BY <1>0, <2>2, <2>3, SeenStep DEF SeenInv
  <1>6. CASE HistoryChanges \/ UNCHANGED vars
    BY <1>1, <1>6 DEF HistoryChanges, vars, tasks
  <1> QED
    BY <1>2, <1>3, <1>4, <1>5, <1>6 DEF Next

\* The requests of a conversation keep the promise of ChatSession, for every set
\* of requests and of backends, which overlap and die at will: served one at a
\* time, each refused or worked on once, started after a refusal only by who was
\* just starting it, and its work told of a cancel once it is tied.
THEOREM RequestsKeepPromise == Spec => SessionSpec
  <1>1. Init => Session!Init /\ SeenInv
    BY SessionInit, InitInv DEF SeenInv
  <1>2. SeenInv /\ [Next]_vars => [Session!Next]_(Session!session) /\ SeenInv'
    BY SessionStep
  <1> QED
    BY <1>1, <1>2, PTL DEF Spec, SessionSpec, Session!Spec
=============================================================================
