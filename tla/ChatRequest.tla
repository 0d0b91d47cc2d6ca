------------------------------ MODULE ChatRequest ------------------------------
(***************************************************************************)
(* The durable receipts of the chat requests of one session:               *)
(* infrastructure/persistence/writing_chat_request_store.py, with those    *)
(* who call it: the routes of routers/ai.py, the task that starts a Run in *)
(* application/agent_run_service.py, the truncation of a conversation in   *)
(* routers/conversations.py and the startup code of main.py.               *)
(*                                                                         *)
(* A request is reserved, claimed by one task, turned into a Run and bound *)
(* to it.  Each store call is one transaction; between two of them the     *)
(* user may cancel, the page may recover, the task may fail and the        *)
(* backend may die.  A backend may also start beside one that still runs:  *)
(* nothing keeps a second one from the recovery of main.py.                *)
(***************************************************************************)
CONSTANTS
    Request, \* request ids used in the session
    Backend, \* backend processes that open the database
    NULL     \* no process

ASSUME BackendAssumption == NULL \notin Backend

VARIABLES
    receipt,  \* the row of ai_writing_chat_requests of each request
    run,      \* the Run with the binding of each request
    stale,    \* requests whose expected history is no longer the session's
    starter,  \* where the task that starts the request stands
    home,     \* the living backend that starts the request and executes its Run
    canceler, \* where the cancel route of the request stands
    caller,   \* the backend that serves this route
    up        \* the backends that run

vars == <<receipt, run, stale, starter, home, canceler, caller, up>>
rows == <<receipt, run, stale>>
tasks == <<starter, home>>
routes == <<canceler, caller>>

Active == {"accepted", "starting"}
Settled == {"rejected", "canceled"}

Receipt == [status: Active \union Settled \union {"none", "run_bound"},
            bound: BOOLEAN, cancelRequested: BOOLEAN, cancelApplied: BOOLEAN]

\* A truncated Run has no session any more.
RunRow == [status: {"none", "running", "ended"},
           attached: BOOLEAN, cancelRequested: BOOLEAN]

StartPoint == {"none", "validate", "check", "submit", "submitted", "waiting", "failing"}

TypeOK ==
    /\ receipt \in [Request -> Receipt]
    /\ run \in [Request -> RunRow]
    /\ stale \subseteq Request
    /\ starter \in [Request -> StartPoint]
    /\ home \in [Request -> Backend \union {NULL}]
    /\ canceler \in [Request -> {"none", "apply", "mark"}]
    /\ caller \in [Request -> Backend \union {NULL}]
    /\ up \subseteq Backend

Init ==
    /\ receipt = [r \in Request |-> [status |-> "none", bound |-> FALSE,
                                     cancelRequested |-> FALSE, cancelApplied |-> FALSE]]
    /\ run = [r \in Request |-> [status |-> "none", attached |-> FALSE,
                                 cancelRequested |-> FALSE]]
    /\ stale = {}
    /\ starter = [r \in Request |-> "none"]
    /\ home = [r \in Request |-> NULL]
    /\ canceler = [r \in Request |-> "none"]
    /\ caller = [r \in Request |-> NULL]
    /\ up = {}

\* Somebody serves the renderer.
Served == up # {}

-----------------------------------------------------------------------------
\* The store

NoActiveRequest == \A r \in Request : receipt[r].status \notin Active

NoActiveRun == \A r \in Request : ~(run[r].status = "running" /\ run[r].attached)

\* Slip: only requests are looked at, and not what became of them.
SessionIdleOfRequests == NoActiveRequest

SessionIdle == NoActiveRequest /\ NoActiveRun

\* _bind_run_in_transaction: the receipt, and the cancel it hands on to the Run.
Bound(rc) ==
    IF rc.status \in {"starting", "run_bound"}
    THEN [rc EXCEPT !.status = "run_bound", !.bound = TRUE,
                    !.cancelApplied = @ \/ rc.cancelRequested]
    ELSE rc

\* Slip: the Run is not told of a cancel that came before it.
NotCarriedOver(rc, rn) == rn

CarriedOver(rc, rn) ==
    IF rc.cancelRequested /\ rn.status = "running"
    THEN [rn EXCEPT !.cancelRequested = TRUE] ELSE rn

\* Slip: a canceled request is left as it is.
RejectedUnlessCanceled(rc) ==
    IF rc.bound \/ rc.status \notin Active \/ rc.cancelRequested THEN rc
    ELSE [rc EXCEPT !.status = "rejected"]

WithoutRun(rc) ==
    IF rc.bound \/ rc.status \notin Active THEN rc
    ELSE [rc EXCEPT !.status = IF rc.cancelRequested THEN "canceled" ELSE "rejected"]

\* A Run that has left the session is refused.
Bindable(r) == run[r].status # "none" /\ run[r].attached

\* Slip: nobody looks for a Run that was created and not bound.
FinishedBlindly(r) == WithoutRun(receipt[r])

\* Slip: a request without a Run is left to others.
FinishedIfStarted(r) == IF Bindable(r) THEN Bound(receipt[r]) ELSE receipt[r]

\* finish_before_run and recover_unbound: bind the Run if there is one, else
\* settle the request.
Finished(r) ==
    IF run[r].status = "none" THEN WithoutRun(receipt[r])
    ELSE IF Bindable(r) THEN Bound(receipt[r]) ELSE receipt[r]

RunOfFinished(r) == IF Bindable(r) THEN CarriedOver(receipt[r], run[r]) ELSE run[r]

FinishBeforeRun(r) ==
    /\ receipt' = [receipt EXCEPT ![r] = Finished(r)]
    /\ run' = [run EXCEPT ![r] = RunOfFinished(r)]

BindRun(r) ==
    /\ Bindable(r)
    /\ receipt' = [receipt EXCEPT ![r] = Bound(@)]
    /\ run' = [run EXCEPT ![r] = CarriedOver(receipt[r], @)]

-----------------------------------------------------------------------------
\* The renderer's routes

\* A new request, whose author has seen the whole history.
Reserve(r) ==
    /\ Served /\ receipt[r].status = "none" /\ SessionIdle
    /\ receipt' = [receipt EXCEPT ![r].status = "accepted"]
    /\ UNCHANGED <<run, stale, tasks, routes, up>>

\* The route that wins the claim creates the task; only the death of its backend
\* comes between the two, and leaves what a death right after them leaves.
Claim(b, r) ==
    /\ b \in up /\ receipt[r].status = "accepted"
    /\ IF r \in stale
       THEN /\ receipt' = [receipt EXCEPT ![r].status = "rejected"]
            /\ UNCHANGED tasks
       ELSE /\ receipt' = [receipt EXCEPT ![r].status = "starting"]
            /\ starter' = [starter EXCEPT ![r] = "validate"]
            /\ home' = [home EXCEPT ![r] = b]
    /\ UNCHANGED <<run, stale, routes, up>>

\* request_cancel_and_claim: a bound Run is told in the same transaction.
RunToldToCancel(rc, rn) ==
    IF rc.bound /\ rn.status = "running" THEN [rn EXCEPT !.cancelRequested = TRUE] ELSE rn

RequestCancel(b, r) ==
    /\ b \in up /\ canceler[r] = "none"
    /\ receipt[r].status \notin Settled \union {"none"}
    /\ receipt' = [receipt EXCEPT ![r].cancelRequested = TRUE,
                                  ![r].status = IF @ = "accepted" THEN "canceled" ELSE @]
    /\ run' = [run EXCEPT ![r] = RunToldToCancel(receipt[r], @)]
    /\ IF receipt[r].bound /\ ~receipt[r].cancelApplied
       THEN canceler' = [canceler EXCEPT ![r] = "apply"] /\ caller' = [caller EXCEPT ![r] = b]
       ELSE UNCHANGED routes
    /\ UNCHANGED <<stale, tasks, up>>

RouteEnds(r) == canceler' = [canceler EXCEPT ![r] = "none"] /\ caller' = [caller EXCEPT ![r] = NULL]

\* The route hands a bound Run to the cancellation service, which may fail.
CancelRun(r) ==
    /\ canceler[r] = "apply"
    /\ \/ /\ run' = [run EXCEPT ![r].cancelRequested = @ \/ run[r].status = "running"]
          /\ canceler' = [canceler EXCEPT ![r] = "mark"]
          /\ UNCHANGED caller
       \/ RouteEnds(r) /\ UNCHANGED run
    /\ UNCHANGED <<receipt, stale, tasks, up>>

MarkCancelApplied(r) ==
    /\ canceler[r] = "mark"
    /\ receipt' = [receipt EXCEPT ![r].cancelApplied = TRUE]
    /\ RouteEnds(r)
    /\ UNCHANGED <<run, stale, tasks, up>>

\* A reloaded page looks for the Run of its request, and binds it.
PageBindsRun(r) ==
    /\ Served /\ ~receipt[r].bound /\ BindRun(r)
    /\ UNCHANGED <<stale, tasks, routes, up>>

\* The turns of finished Runs are taken out of the history.
TruncateHistory(tail) ==
    /\ Served /\ NoActiveRequest
    /\ \A r \in tail : run[r].status = "ended" /\ run[r].attached
    /\ receipt' = [r \in Request |->
           IF r \in tail /\ receipt[r].bound
           THEN [receipt[r] EXCEPT !.status = "canceled", !.cancelRequested = TRUE]
           ELSE receipt[r]]
    /\ run' = [r \in Request |->
           IF r \in tail THEN [run[r] EXCEPT !.attached = FALSE] ELSE run[r]]
    /\ UNCHANGED <<stale, tasks, routes, up>>

\* The turn of a finished Run is written late.
HistoryChanges ==
    /\ Served /\ \E r \in Request : run[r].status = "ended" /\ run[r].attached
    /\ stale' = stale \union {r \in Request : receipt[r].status = "accepted"}
    /\ UNCHANGED <<receipt, run, tasks, routes, up>>

-----------------------------------------------------------------------------
\* The task that owns a claimed request

GoesTo(r, point) == starter' = [starter EXCEPT ![r] = point]

Validate(r) ==
    /\ starter[r] = "validate"
    /\ GoesTo(r, IF receipt[r].status = "starting" THEN "check" ELSE "failing")
    /\ UNCHANGED <<rows, home, routes, up>>

\* before_submit of the store
CanSubmit(rc) == rc.status = "starting" /\ ~rc.cancelRequested

BeforeSubmit(r) ==
    /\ starter[r] = "check"
    /\ \/ CanSubmit(receipt[r]) /\ GoesTo(r, "submit") /\ UNCHANGED <<receipt, run>>
       \/ ~CanSubmit(receipt[r]) /\ GoesTo(r, "failing") /\ FinishBeforeRun(r)
    /\ UNCHANGED <<stale, home, routes, up>>

\* The runtime writes the row of the Run with the binding of the request.
CreateRun(r) ==
    /\ starter[r] = "submit" /\ run[r].status = "none"
    /\ run' = [run EXCEPT ![r] = [status |-> "running", attached |-> TRUE,
                                  cancelRequested |-> FALSE]]
    /\ GoesTo(r, "submitted")
    /\ UNCHANGED <<receipt, stale, home, routes, up>>

\* An exception before the Run, or out of the submission that created it.
StartFails(r) ==
    /\ starter[r] \in {"validate", "check", "submit", "submitted"}
    /\ GoesTo(r, "failing")
    /\ UNCHANGED <<rows, home, routes, up>>

OnRunStarted(r) ==
    /\ starter[r] = "submitted" /\ BindRun(r)
    /\ GoesTo(r, "none")
    /\ UNCHANGED <<stale, home, routes, up>>

\* The binding raises: the Run is canceled and waited for.
OnRunStartedFails(r) ==
    /\ starter[r] = "submitted"
    /\ run' = [run EXCEPT ![r].cancelRequested = @ \/ run[r].status = "running"]
    /\ GoesTo(r, "waiting")
    /\ UNCHANGED <<receipt, stale, home, routes, up>>

AwaitEnd(r) ==
    /\ starter[r] = "waiting" /\ run[r].status = "ended"
    /\ GoesTo(r, "failing")
    /\ UNCHANGED <<rows, home, routes, up>>

OnStartFailed(r) ==
    /\ starter[r] = "failing" /\ FinishBeforeRun(r)
    /\ GoesTo(r, "none")
    /\ UNCHANGED <<stale, home, routes, up>>

StarterStep(r) ==
    \/ Validate(r) \/ BeforeSubmit(r) \/ CreateRun(r) \/ StartFails(r)
    \/ OnRunStarted(r) \/ OnRunStartedFails(r) \/ AwaitEnd(r) \/ OnStartFailed(r)

\* The Run ends where it is executed, or is settled as an orphan (see RunControl).
RunEnds(r) ==
    /\ Served /\ run[r].status = "running"
    /\ run' = [run EXCEPT ![r].status = "ended"]
    /\ UNCHANGED <<receipt, stale, tasks, routes, up>>

-----------------------------------------------------------------------------
\* Processes

\* What a backend does for requests dies with it.
Crash(b) ==
    /\ b \in up /\ up' = up \ {b}
    /\ starter' = [r \in Request |-> IF home[r] = b THEN "none" ELSE starter[r]]
    /\ home' = [r \in Request |-> IF home[r] = b THEN NULL ELSE home[r]]
    /\ canceler' = [r \in Request |-> IF caller[r] = b THEN "none" ELSE canceler[r]]
    /\ caller' = [r \in Request |-> IF caller[r] = b THEN NULL ELSE caller[r]]
    /\ UNCHANGED rows

\* main.py: recover_unbound settles every active request, those included that
\* another backend is starting.
StartBackend(b) ==
    /\ b \in Backend \ up /\ up' = up \union {b}
    /\ receipt' = [r \in Request |->
           IF receipt[r].status \in Active THEN Finished(r) ELSE receipt[r]]
    /\ run' = [r \in Request |->
           IF receipt[r].status \in Active THEN RunOfFinished(r) ELSE run[r]]
    /\ UNCHANGED <<stale, tasks, routes>>

Start == \E b \in Backend : StartBackend(b)

Next ==
    \/ Start \/ \E b \in Backend : Crash(b)
    \/ HistoryChanges
    \/ \E tail \in (SUBSET Request) \ {{}} : TruncateHistory(tail)
    \/ \E r \in Request :
          \/ Reserve(r) \/ (\E b \in Backend : Claim(b, r)) \/ PageBindsRun(r)
          \/ (\E b \in Backend : RequestCancel(b, r)) \/ CancelRun(r) \/ MarkCancelApplied(r)
          \/ StarterStep(r) \/ RunEnds(r)

\* A request in its start whose backend died.
Abandoned(r) == receipt[r].status = "starting" /\ home[r] = NULL

\* A task goes on; a backend is started where none is left, or one died in a start;
\* and a Run ends that was asked to cancel or whose backend died (see RunControl).
Fairness ==
    /\ WF_vars((~Served \/ \E r \in Request : Abandoned(r)) /\ Start)
    /\ \A r \in Request :
          /\ WF_vars(StarterStep(r))
          /\ WF_vars((run[r].cancelRequested \/ home[r] = NULL) /\ RunEnds(r))

Spec == Init /\ [][Next]_vars /\ Fairness

-----------------------------------------------------------------------------
\* What a request keeps busy: its receipt or its Run.
Busy(r) ==
    receipt[r].status \in Active \/ (run[r].status = "running" /\ run[r].attached)

\* Work that the session still owns: not that of a request which a start of
\* another backend has settled under its starter.
Owned(r) == Busy(r) /\ receipt[r].status \notin Settled

\* A session owns one piece of work at a time, whether it is still a request or
\* a Run already, bound or not, however many backends start it and recover it.
OneOwnedWork == \A q, r \in Request : Owned(q) /\ Owned(r) => q = r

\* A cancel reaches the Run of its request, whichever of the two came first and
\* whoever bound the Run.
CancelReachesRun ==
    \A r \in Request :
        receipt[r].cancelRequested /\ receipt[r].bound /\ run[r].status = "running" =>
            run[r].cancelRequested

\* A claimed request gets a Run or is settled, over failures and crashes.
RequestSettles ==
    \A r \in Request : receipt[r].status = "starting" ~> receipt[r].status # "starting"

\* A cancel gives the session back, once there is always a backend.
CancelFreesSession ==
    <>[]Served => \A r \in Request : receipt[r].cancelRequested ~> ~Busy(r)
-----------------------------------------------------------------------------
\* Refinement: what the author of the requests sees.

\* A starter past its last check does not see that its request was settled.
Life(r) ==
    IF run[r].status = "running"
    THEN IF receipt[r].status \in Settled THEN "stray" ELSE "working"
    ELSE IF run[r].status = "ended" THEN "over"
    ELSE IF receipt[r].status \in Active THEN "waiting"
    ELSE IF receipt[r].status \notin Settled THEN "none"
    ELSE IF starter[r] = "submit" THEN "disowned" ELSE "refused"

Session == INSTANCE ChatSession WITH
    life  <- [r \in Request |-> Life(r)],
    asked <- [r \in Request |-> receipt[r].cancelRequested],
    tied  <- [r \in Request |-> receipt[r].bound],
    told  <- [r \in Request |-> run[r].cancelRequested]

\* The requests of a conversation keep its promise.
SessionSpec == Session!Spec
=============================================================================
