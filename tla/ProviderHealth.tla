---------------------------- MODULE ProviderHealth ----------------------------
(***************************************************************************)
(* The circuit breaker and call leases of one model endpoint:              *)
(* infrastructure/persistence/provider_health_repository.py, as            *)
(* agents/screenplay/model_runner.py calls it.                             *)
(*                                                                         *)
(* A scope is a model served by the endpoint; its row has the circuit.     *)
(* All scopes share the call leases.  acquire, record_success,             *)
(* record_failure and release are one transaction each, and a call runs    *)
(* for any length of time between them.  A deadline is kept as whether it  *)
(* is still to come, and may pass at any moment, so that every order of    *)
(* deadlines, results and retries is covered whatever the durations are.   *)
(***************************************************************************)
EXTENDS Naturals, FiniteSets

CONSTANTS
    Scope,        \* models served by the endpoint
    Call,         \* calls, and the leases they take
    Limit,        \* configured capacity of the endpoint
    TripFailures, \* _TRIP_FAILURES
    NULL          \* no lease row

ASSUME EndpointAssumption ==
    /\ IsFiniteSet(Call) /\ Limit \in Nat \ {0} /\ TripFailures \in Nat \ {0}
    /\ NULL \notin Scope

VARIABLES
    health,  \* the row of ai_provider_health of each scope
    lease,   \* the row of ai_provider_call_leases of each call, while it counts
    call     \* where each call stands, and its scope

vars == <<health, lease, call>>

\* open_until_ms, probe_expires_at_ms and ramp_until_ms are to come; the window
\* began more than _WINDOW_MS ago.  Above TripFailures the count only lengthens
\* the cooling-down and is not counted on.
HealthRow == [state: {"absent", "closed", "open", "half_open"},
              failures: 0 .. TripFailures, windowOver: BOOLEAN,
              cooling: BOOLEAN, probing: BOOLEAN, ramping: BOOLEAN]

CallState == [at: {"idle", "running", "recorded"}, scope: Scope \union {NULL}]

NoCall == [at |-> "idle", scope |-> NULL]

TypeOK ==
    /\ health \in [Scope -> HealthRow]
    /\ lease \in [Call -> Scope \union {NULL}]
    /\ call \in [Call -> CallState]
    /\ \A c \in Call : call[c].at # "idle" => call[c].scope \in Scope

Row(state) == [state |-> state, failures |-> 0, windowOver |-> FALSE,
               cooling |-> FALSE, probing |-> FALSE, ramping |-> FALSE]

Init ==
    /\ health = [s \in Scope |-> Row("absent")]
    /\ lease = [c \in Call |-> NULL]
    /\ call = [c \in Call |-> NoCall]

-----------------------------------------------------------------------------
\* Deadlines

WindowEnds(s) ==
    /\ health[s].state # "absent" /\ ~health[s].windowOver
    /\ health' = [health EXCEPT ![s].windowOver = TRUE]
    /\ UNCHANGED <<lease, call>>

CoolingEnds(s) ==
    /\ health[s].cooling
    /\ health' = [health EXCEPT ![s].cooling = FALSE]
    /\ UNCHANGED <<lease, call>>

ProbeExpires(s) ==
    /\ health[s].probing
    /\ health' = [health EXCEPT ![s].probing = FALSE]
    /\ UNCHANGED <<lease, call>>

RampEnds(s) ==
    /\ health[s].ramping
    /\ health' = [health EXCEPT ![s].ramping = FALSE]
    /\ UNCHANGED <<lease, call>>

\* The lease of a dead process, or of a call that takes too long.
LeaseExpires(c) ==
    /\ lease[c] # NULL
    /\ lease' = [lease EXCEPT ![c] = NULL]
    /\ UNCHANGED <<health, call>>

-----------------------------------------------------------------------------
\* acquire

\* Leases that count.
Active == {c \in Call : lease[c] # NULL}

\* Slip: an open circuit waits for a success that nobody can deliver.
BlocksWhileOpen(row) ==
    row.state = "open" \/ (row.state = "half_open" /\ row.probing)

\* _health_blocks_admission
Blocks(row) ==
    \/ row.state = "open" /\ row.cooling
    \/ row.state = "half_open" /\ row.probing

EndpointRecovers == \E s \in Scope : health[s].ramping

\* Slip: only a circuit that is half-open already asks for an empty endpoint.
LimitOnceHalfOpen(row) ==
    IF row.state = "half_open" \/ EndpointRecovers THEN 1 ELSE Limit

\* _capacity_limit: a probe needs an empty endpoint, and so does a call while
\* any model of the endpoint recovers.
CapacityLimit(row) ==
    IF row.state \in {"open", "half_open"} \/ EndpointRecovers THEN 1 ELSE Limit

\* Slip: one lease too many.
HasCapacityAtLimit(row) == Cardinality(Active) <= CapacityLimit(row)

HasCapacity(row) == Cardinality(Active) < CapacityLimit(row)

\* The row acquire reads, or writes first.
Loaded(s) == IF health[s].state = "absent" THEN Row("closed") ELSE health[s]

\* _admit_locked: an open or half-open circuit grants a probe.
Admitted(row) ==
    IF row.state = "closed" THEN row
    ELSE [row EXCEPT !.state = "half_open", !.probing = TRUE]

\* A call takes a lease id of its own: none that an earlier call still has.
Acquire(c, s) ==
    /\ call[c].at = "idle" /\ lease[c] = NULL
    /\ ~Blocks(Loaded(s)) /\ HasCapacity(Loaded(s))
    /\ health' = [health EXCEPT ![s] = Admitted(Loaded(s))]
    /\ lease' = [lease EXCEPT ![c] = s]
    /\ call' = [call EXCEPT ![c] = [at |-> "running", scope |-> s]]

\* A refusal for want of capacity still writes a first row.
AcquireRefused(s) ==
    /\ health[s].state = "absent" /\ ~HasCapacity(Loaded(s))
    /\ health' = [health EXCEPT ![s] = Loaded(s)]
    /\ UNCHANGED <<lease, call>>

-----------------------------------------------------------------------------
\* What a call reports, and its end

Ends(c, point) == call' = [call EXCEPT ![c].at = point]

\* record_success: a circuit that had trouble recovers by a ramp.
Healthy(row) ==
    [row EXCEPT !.state = "closed", !.failures = 0, !.cooling = FALSE, !.probing = FALSE,
                !.ramping = @ \/ row.state # "closed" \/ row.failures > 0]

RecordSuccess(c) ==
    /\ call[c].at = "running"
    /\ health' = [health EXCEPT ![call[c].scope] = Healthy(@)]
    /\ Ends(c, "recorded")
    /\ UNCHANGED lease

Opens(row, rateLimited, failures) ==
    rateLimited \/ row.state = "half_open" \/ failures >= TripFailures

\* record_failure; a failure after the window starts a new one.
FailuresOf(row) ==
    IF row.windowOver THEN 1
    ELSE IF row.failures < TripFailures THEN row.failures + 1 ELSE TripFailures

Failed(row, rateLimited) ==
    LET opens == Opens(row, rateLimited, FailuresOf(row))
    IN  [state |-> IF opens THEN "open" ELSE "closed",
         failures |-> FailuresOf(row), windowOver |-> FALSE,
         cooling |-> opens, probing |-> FALSE, ramping |-> FALSE]

RecordFailure(c, rateLimited) ==
    /\ call[c].at = "running"
    /\ health' = [health EXCEPT ![call[c].scope] = Failed(@, rateLimited)]
    /\ Ends(c, "recorded")
    /\ UNCHANGED lease

\* A canceled call, or a failure that is not the provider's, reports nothing.
EndUnreported(c) ==
    /\ call[c].at = "running"
    /\ Ends(c, "recorded")
    /\ UNCHANGED <<health, lease>>

\* release, which the call comes to however it ended
Release(c) ==
    /\ call[c].at = "recorded"
    /\ lease' = [lease EXCEPT ![c] = NULL]
    /\ call' = [call EXCEPT ![c] = NoCall]
    /\ UNCHANGED health

\* The process dies; the rows stay.
Crash ==
    /\ \E c \in Call : call[c].at # "idle"
    /\ call' = [c \in Call |-> NoCall]
    /\ UNCHANGED <<health, lease>>

-----------------------------------------------------------------------------
Deadline(s) == WindowEnds(s) \/ CoolingEnds(s) \/ ProbeExpires(s) \/ RampEnds(s)

CallEnds(c) ==
    \/ RecordSuccess(c) \/ EndUnreported(c) \/ Release(c)
    \/ \E rateLimited \in BOOLEAN : RecordFailure(c, rateLimited)

Next ==
    \/ Crash
    \/ \E s \in Scope : Deadline(s) \/ AcquireRefused(s)
    \/ \E c \in Call :
          \/ \E s \in Scope : Acquire(c, s)
          \/ LeaseExpires(c) \/ CallEnds(c)

\* Deadlines pass, calls end, and paused work keeps asking for a call of its model.
Fairness ==
    /\ \A s \in Scope : WF_vars(CoolingEnds(s)) /\ WF_vars(\E c \in Call : Acquire(c, s))
    /\ \A c \in Call : WF_vars(LeaseExpires(c)) /\ WF_vars(CallEnds(c))

Spec == Init /\ [][Next]_vars /\ Fairness

-----------------------------------------------------------------------------
\* No more leases count than the endpoint has capacity for, over crashes,
\* expiries, probes and recoveries of all its models.
CapacityRespected == Cardinality(Active) <= Limit

\* Leases held for a scope.
ActiveOf(s) == {c \in Call : lease[c] = s}

\* A half-open circuit is probed by one call: while the probe's deadline is to
\* come no other call of the model holds a lease, not even one admitted before
\* the circuit opened.
OneProbe ==
    \A s \in Scope :
        health[s].state = "half_open" /\ health[s].probing => Cardinality(ActiveOf(s)) <= 1

\* A circuit that has counted enough failures is not closed.
ClosedBelowTrip ==
    \A s \in Scope : health[s].state = "closed" => health[s].failures < TripFailures

\* While one model of the endpoint recovers no model of it is granted a second
\* lease.
GrantsAlone ==
    EndpointRecovers =>
        \A c \in Call : lease[c] = NULL /\ lease'[c] # NULL => Active = {}

RampStartsOneCall == [][GrantsAlone]_vars

\* An open circuit does not stay so, unless other models keep the endpoint busy.
OpenCircuitIsTried ==
    \A s \in Scope :
        (<>[](Active = ActiveOf(s))) =>
            (health[s].state = "open" ~> health[s].state # "open")

=============================================================================
