----------------------- MODULE ProviderHealth_proofs -----------------------
(***************************************************************************)
(* Proofs about ProviderHealth, for every number of models and calls and   *)
(* every capacity and trip count.                                          *)
(***************************************************************************)
EXTENDS ProviderHealth, FiniteSetTheorems, TLAPS

RowsTyped == health \in [Scope -> HealthRow] /\ lease \in [Call -> Scope \union {NULL}]

\* Changing the times of a row, or its state, leaves a row.
LEMMA RowType ==
    ASSUME NEW row \in HealthRow, NEW v \in BOOLEAN
    PROVE  /\ [row EXCEPT !.windowOver = v] \in HealthRow
           /\ [row EXCEPT !.cooling = v] \in HealthRow
           /\ [row EXCEPT !.probing = v] \in HealthRow
           /\ [row EXCEPT !.ramping = v] \in HealthRow
  BY Zenon DEF HealthRow

\* The row acquire starts from is a row that is not absent.
LEMMA LoadedType ==
    ASSUME RowsTyped, NEW s \in Scope
    PROVE  Loaded(s) \in HealthRow /\ Loaded(s).state # "absent"
  <1>1. 0 \in 0 .. TripFailures
    BY EndpointAssumption, SMT
  <1>2. Row("closed") \in HealthRow /\ Row("closed").state = "closed"
    BY <1>1 DEF Row, HealthRow
  <1>3. health[s] \in HealthRow
    BY DEF RowsTyped
  <1> QED
    BY <1>2, <1>3 DEF Loaded

\* Admission, success and failure write rows.
LEMMA AdmittedType ==
    ASSUME NEW row \in HealthRow
    PROVE  /\ Admitted(row) \in HealthRow
           /\ Admitted(row).failures = row.failures
           /\ Admitted(row).ramping = row.ramping
           /\ row.state = "closed" => Admitted(row).state = "closed"
           /\ row.state # "closed" => Admitted(row).state = "half_open"
  <1>1. [row EXCEPT !.state = "half_open", !.probing = TRUE] \in HealthRow
    BY Zenon DEF HealthRow
  <1> QED
    BY <1>1 DEF Admitted, HealthRow

\* A success leaves a closed row without failures.
LEMMA HealthyType ==
    ASSUME NEW row \in HealthRow
    PROVE  /\ Healthy(row) \in HealthRow
           /\ Healthy(row).state = "closed" /\ Healthy(row).failures = 0
  <1>1. 0 \in 0 .. TripFailures
    BY EndpointAssumption, SMT
  <1>2. (row.ramping \/ row.state # "closed" \/ row.failures > 0) \in BOOLEAN
    BY DEF HealthRow
  <1>3. Healthy(row) \in HealthRow
    BY <1>1, <1>2, Zenon DEF HealthRow, Healthy
  <1> QED
    BY <1>3 DEF HealthRow, Healthy

\* A failure counts, and leaves the circuit closed only below the trip count.
LEMMA FailedType ==
    ASSUME NEW row \in HealthRow, NEW rateLimited \in BOOLEAN
    PROVE  /\ Failed(row, rateLimited) \in HealthRow
           /\ Failed(row, rateLimited).state \in {"open", "closed"}
           /\ Failed(row, rateLimited).state = "closed" =>
                  Failed(row, rateLimited).failures < TripFailures
  <1> DEFINE n == FailuresOf(row)
  <1>1. n \in 0 .. TripFailures
    BY EndpointAssumption, SMT DEF FailuresOf, HealthRow
  <1>2. Opens(row, rateLimited, n) \in BOOLEAN
    BY DEF Opens
  <1>3. ~Opens(row, rateLimited, n) => n < TripFailures
    BY <1>1, EndpointAssumption, SMT DEF Opens
  <1> HIDE DEF n
  <1>4. Failed(row, rateLimited) =
            [state |-> IF Opens(row, rateLimited, n) THEN "open" ELSE "closed",
             failures |-> n, windowOver |-> FALSE,
             cooling |-> Opens(row, rateLimited, n), probing |-> FALSE, ramping |-> FALSE]
    BY DEF Failed, n
  <1> QED
    BY <1>1, <1>2, <1>3, <1>4 DEF HealthRow

-----------------------------------------------------------------------------
\* The inductive invariant.

Inv == TypeOK /\ CapacityRespected /\ OneProbe /\ ClosedBelowTrip

\* Sets of leases are finite, and their sizes are ordered.
LEMMA LeaseSets ==
    ASSUME NEW S, NEW T, S \subseteq T, T \subseteq Call
    PROVE  /\ IsFiniteSet(S) /\ Cardinality(S) \in Nat /\ Cardinality(T) \in Nat
           /\ Cardinality(S) <= Cardinality(T)
  <1>1. IsFiniteSet(T)
    BY EndpointAssumption, FS_Subset
  <1> QED
    BY <1>1, FS_Subset, FS_CardinalityType

\* Nobody holds a lease before the first call.
LEMMA InitInv == Init => Inv
  <1> SUFFICES ASSUME Init PROVE Inv
    OBVIOUS
  <1> USE DEF Init
  <1>1. 0 \in 0 .. TripFailures /\ 0 <= Limit
    BY EndpointAssumption, SMT
  <1>2. Row("absent") \in HealthRow /\ Row("absent").state = "absent"
    BY <1>1 DEF Row, HealthRow
  <1>3. TypeOK
    BY <1>2 DEF TypeOK, CallState, NoCall
  <1>4. Active = {}
    BY DEF Active
  <1>5. CapacityRespected
    BY <1>1, <1>4, FS_EmptySet DEF CapacityRespected
  <1>6. OneProbe /\ ClosedBelowTrip
    BY <1>2 DEF OneProbe, ClosedBelowTrip
  <1> QED
    BY <1>3, <1>5, <1>6 DEF Inv

\* A step that grants no lease and no probe keeps the lease facts.
LEMMA NoGrant ==
    ASSUME Inv, TypeOK',
           \A c \in Call : lease'[c] \in {lease[c], NULL},
           \A s \in Scope :
              health'[s].state = "half_open" /\ health'[s].probing =>
                  health[s].state = "half_open" /\ health[s].probing
    PROVE  CapacityRespected' /\ OneProbe'
  <1>1. Active' \subseteq Active /\ Active \subseteq Call
    BY DEF Active
  <1>2. CapacityRespected'
    <2>1. Cardinality(Active') <= Cardinality(Active) /\ Cardinality(Active') \in Nat
          /\ Cardinality(Active) \in Nat
      BY <1>1, LeaseSets
    <2> QED
      BY <2>1, EndpointAssumption, SMT DEF Inv, CapacityRespected
  <1>3. ASSUME NEW s \in Scope, health'[s].state = "half_open" /\ health'[s].probing
        PROVE  Cardinality(ActiveOf(s)') <= 1
    <2>1. ActiveOf(s)' \subseteq ActiveOf(s) /\ ActiveOf(s) \subseteq Call
      BY EndpointAssumption DEF ActiveOf
    <2>2. /\ Cardinality(ActiveOf(s)') <= Cardinality(ActiveOf(s))
          /\ Cardinality(ActiveOf(s)') \in Nat /\ Cardinality(ActiveOf(s)) \in Nat
      BY <2>1, LeaseSets
    <2>3. Cardinality(ActiveOf(s)) <= 1
      BY <1>3 DEF Inv, OneProbe
    <2> QED
      BY <2>2, <2>3, SMT
  <1> QED
    BY <1>2, <1>3 DEF OneProbe

\* A granted lease was free, and the endpoint had room; a probe found it empty.
LEMMA AcquireInv ==
    ASSUME Inv, NEW c \in Call, NEW s \in Scope, Acquire(c, s)
    PROVE  Inv'
  <1> DEFINE row == Loaded(s)
  <1>0. RowsTyped
    BY DEF Inv, TypeOK, RowsTyped
  <1>1. row \in HealthRow /\ row.state # "absent"
    BY <1>0, LoadedType
  <1>2. /\ ~Blocks(row) /\ HasCapacity(row)
        /\ health' = [health EXCEPT ![s] = Admitted(row)]
        /\ lease' = [lease EXCEPT ![c] = s] /\ lease[c] = NULL
        /\ call' = [call EXCEPT ![c] = [at |-> "running", scope |-> s]]
    BY DEF Acquire
  <1>3. row.state = "closed" => row.failures < TripFailures
    <2>1. 0 < TripFailures /\ Row("closed").failures = 0
      BY EndpointAssumption, SMT DEF Row
    <2> QED
      BY <2>1 DEF Inv, ClosedBelowTrip, Loaded
  <1> HIDE DEF row
  <1>4. Admitted(row) \in HealthRow
    BY <1>1, AdmittedType
  <1>5. TypeOK'
    <2>1. [at |-> "running", scope |-> s] \in CallState
      BY DEF CallState
    <2>2. health' \in [Scope -> HealthRow] /\ call' \in [Call -> CallState]
      BY <1>2, <1>4, <2>1, Zenon DEF Inv, TypeOK
    <2>3. lease' \in [Call -> Scope \union {NULL}]
      BY <1>2 DEF Inv, TypeOK
    <2>4. \A d \in Call : call'[d].at # "idle" => call'[d].scope \in Scope
      BY <1>2, <2>1 DEF Inv, TypeOK
    <2> QED
      BY <2>2, <2>3, <2>4 DEF TypeOK
  <1>6. /\ Active' = Active \union {c} /\ c \notin Active /\ Active \subseteq Call
        /\ \A r \in Scope : ActiveOf(r)' = IF r = s THEN ActiveOf(r) \union {c} ELSE ActiveOf(r)
    BY <1>2, EndpointAssumption DEF Active, ActiveOf, Inv, TypeOK
  <1>7. IsFiniteSet(Active) /\ Cardinality(Active) \in Nat
    BY <1>6, LeaseSets
  <1>8. Cardinality(Active') = Cardinality(Active) + 1
    BY <1>6, <1>7, FS_AddElement
  <1>9. CapacityLimit(row) \in {1, Limit}
    BY DEF CapacityLimit
  <1>10. Cardinality(Active) < CapacityLimit(row)
    BY <1>2 DEF HasCapacity
  <1>11. CapacityRespected'
    BY <1>7, <1>8, <1>9, <1>10, EndpointAssumption, SMT DEF CapacityRespected
  <1>12. ASSUME NEW r \in Scope, health'[r].state = "half_open" /\ health'[r].probing
         PROVE  Cardinality(ActiveOf(r)') <= 1
    <2>1. CASE r # s
      BY <1>2, <1>6, <1>12, <2>1 DEF Inv, OneProbe
    <2>2. CASE r = s
      <3>1. health'[s] = Admitted(row)
        BY <1>2 DEF Inv, TypeOK
      <3>2. row.state # "closed"
        BY <1>1, <1>12, <2>2, <3>1, AdmittedType
      <3>3. CapacityLimit(row) = 1
        BY <1>1, <3>2 DEF CapacityLimit, HealthRow
      <3>4. Cardinality(Active) = 0
        BY <1>7, <1>10, <3>3, SMT
      <3>5. Active = {}
        BY <1>7, <3>4, FS_EmptySet
      <3>6. ActiveOf(s) = {}
        BY <3>5, EndpointAssumption DEF Active, ActiveOf
      <3>7. ActiveOf(s)' = {c}
        BY <1>6, <3>6
      <3>8. Cardinality({c}) = 1
        BY FS_Singleton
      <3> QED
        BY <2>2, <3>7, <3>8
    <2> QED
      BY <2>1, <2>2
  <1>13. ClosedBelowTrip'
    BY <1>1, <1>2, <1>3, AdmittedType DEF ClosedBelowTrip, Inv, TypeOK
  <1> QED
    BY <1>5, <1>11, <1>12, <1>13 DEF Inv, OneProbe

\* A passed deadline grants nothing.
LEMMA DeadlineInv ==
    ASSUME Inv, NEW s \in Scope, Deadline(s)
    PROVE  Inv'
  <1>0. health \in [Scope -> HealthRow] /\ health[s] \in HealthRow
    BY DEF Inv, TypeOK
  <1>1. PICK row \in HealthRow :
            /\ health' = [health EXCEPT ![s] = row]
            /\ row.state = health[s].state /\ row.failures = health[s].failures
            /\ row.probing => health[s].probing
    <2>1. CASE WindowEnds(s)
      <3>1. [health[s] EXCEPT !.windowOver = TRUE] \in HealthRow
        BY <1>0, RowType
      <3> QED
        BY <1>0, <2>1, <3>1 DEF WindowEnds, HealthRow
    <2>2. CASE CoolingEnds(s)
      <3>1. [health[s] EXCEPT !.cooling = FALSE] \in HealthRow
        BY <1>0, RowType
      <3> QED
        BY <1>0, <2>2, <3>1 DEF CoolingEnds, HealthRow
    <2>3. CASE ProbeExpires(s)
      <3>1. [health[s] EXCEPT !.probing = FALSE] \in HealthRow
        BY <1>0, RowType
      <3> QED
        BY <1>0, <2>3, <3>1 DEF ProbeExpires, HealthRow
    <2>4. CASE RampEnds(s)
      <3>1. [health[s] EXCEPT !.ramping = FALSE] \in HealthRow
        BY <1>0, RowType
      <3> QED
        BY <1>0, <2>4, <3>1 DEF RampEnds, HealthRow
    <2> QED
      BY <2>1, <2>2, <2>3, <2>4 DEF Deadline
  <1>2. UNCHANGED <<lease, call>>
    BY DEF Deadline, WindowEnds, CoolingEnds, ProbeExpires, RampEnds
  <1>3. TypeOK'
    BY <1>0, <1>1, <1>2 DEF Inv, TypeOK
  <1>4. CapacityRespected' /\ OneProbe'
    BY <1>0, <1>1, <1>2, <1>3, NoGrant
  <1>5. ClosedBelowTrip'
    BY <1>0, <1>1 DEF Inv, ClosedBelowTrip
  <1> QED
    BY <1>3, <1>4, <1>5 DEF Inv

\* A lease that expires, a call that dies and a first row grant nothing.
LEMMA QuietInv ==
    ASSUME Inv, NEW c \in Call, NEW s \in Scope,
           Crash \/ LeaseExpires(c) \/ EndUnreported(c) \/ Release(c) \/ AcquireRefused(s)
    PROVE  Inv'
  <1> USE DEF Inv, TypeOK
  <1>0. NoCall \in CallState /\ NoCall.at = "idle"
    BY DEF NoCall, CallState
  <1>1. CASE Crash
    <2>1. TypeOK'
      BY <1>0, <1>1 DEF Crash
    <2> QED
      BY <1>1, <2>1, NoGrant DEF Crash, ClosedBelowTrip
  <1>2. CASE LeaseExpires(c)
    <2>1. TypeOK'
      BY <1>2 DEF LeaseExpires
    <2> QED
      BY <1>2, <2>1, NoGrant DEF LeaseExpires, ClosedBelowTrip
  <1>3. CASE EndUnreported(c)
    <2>1. [call[c] EXCEPT !.at = "recorded"] \in CallState
      BY Zenon DEF CallState
    <2>2. TypeOK'
      BY <1>3, <2>1 DEF EndUnreported, Ends, CallState
    <2> QED
      BY <1>3, <2>2, NoGrant DEF EndUnreported, ClosedBelowTrip
  <1>4. CASE Release(c)
    <2>1. TypeOK'
      BY <1>0, <1>4 DEF Release
    <2> QED
      BY <1>4, <2>1, NoGrant DEF Release, ClosedBelowTrip
  <1>5. CASE AcquireRefused(s)
    <2>1. Loaded(s) \in HealthRow
      BY LoadedType DEF RowsTyped
    <2>2. /\ Loaded(s) = Row("closed") /\ Row("closed").state = "closed"
          /\ Row("closed").failures = 0
      BY <1>5 DEF AcquireRefused, Loaded, Row
    <2>3. TypeOK'
      BY <1>5, <2>1 DEF AcquireRefused
    <2>4. CapacityRespected' /\ OneProbe'
      BY <1>5, <2>2, <2>3, NoGrant DEF AcquireRefused
    <2>5. 0 < TripFailures
      BY EndpointAssumption, SMT
    <2>6. ClosedBelowTrip'
      BY <1>5, <2>2, <2>5 DEF AcquireRefused, ClosedBelowTrip
    <2> QED
      BY <2>3, <2>4, <2>6
  <1> QED
    BY <1>1, <1>2, <1>3, <1>4, <1>5

\* A reported result grants nothing: a success closes, a failure opens or
\* stays below the trip count.
LEMMA ReportInv ==
    ASSUME Inv, NEW c \in Call,
           RecordSuccess(c) \/ \E rateLimited \in BOOLEAN : RecordFailure(c, rateLimited)
    PROVE  Inv'
  <1> DEFINE s == call[c].scope
  <1>0. /\ s \in Scope /\ health \in [Scope -> HealthRow] /\ health[s] \in HealthRow
        /\ call[c] \in CallState
    BY DEF Inv, TypeOK, RecordSuccess, RecordFailure
  <1>1. PICK row \in HealthRow :
            /\ health' = [health EXCEPT ![s] = row]
            /\ row.state \in {"open", "closed"}
            /\ row.state = "closed" => row.failures < TripFailures
    <2>1. CASE RecordSuccess(c)
      <3>1. health' = [health EXCEPT ![s] = Healthy(health[s])]
        BY <2>1 DEF RecordSuccess
      <3>2. 0 < TripFailures
        BY EndpointAssumption, SMT
      <3> QED
        BY <1>0, <3>1, <3>2, HealthyType
    <2>2. ASSUME NEW rateLimited \in BOOLEAN, RecordFailure(c, rateLimited)
          PROVE  \E row \in HealthRow :
                    /\ health' = [health EXCEPT ![s] = row]
                    /\ row.state \in {"open", "closed"}
                    /\ row.state = "closed" => row.failures < TripFailures
      <3>1. health' = [health EXCEPT ![s] = Failed(health[s], rateLimited)]
        BY <2>2 DEF RecordFailure
      <3> QED
        BY <1>0, <3>1, FailedType
    <2> QED
      BY <2>1, <2>2
  <1>2. UNCHANGED lease /\ Ends(c, "recorded")
    BY DEF RecordSuccess, RecordFailure
  <1>3. TypeOK'
    <2>1. [call[c] EXCEPT !.at = "recorded"] \in CallState
      BY <1>0, Zenon DEF CallState
    <2>2. call' \in [Call -> CallState]
      BY <1>2, <2>1 DEF Inv, TypeOK, Ends
    <2>3. \A d \in Call : call'[d].at # "idle" => call'[d].scope \in Scope
      BY <1>0, <1>2 DEF Inv, TypeOK, Ends, CallState
    <2> QED
      BY <1>0, <1>1, <1>2, <2>2, <2>3 DEF Inv, TypeOK
  <1> HIDE DEF s
  <1>4. CapacityRespected' /\ OneProbe'
    BY <1>0, <1>1, <1>2, <1>3, NoGrant
  <1>5. ClosedBelowTrip'
    BY <1>0, <1>1 DEF Inv, ClosedBelowTrip
  <1> QED
    BY <1>3, <1>4, <1>5 DEF Inv

\* The invariant is inductive.
LEMMA NextInv == Inv /\ [Next]_vars => Inv'
  <1> SUFFICES ASSUME Inv, [Next]_vars PROVE Inv'
    OBVIOUS
  <1>1. ASSUME NEW s \in Scope, Deadline(s) PROVE Inv'
    BY <1>1, DeadlineInv
  <1>2. ASSUME NEW c \in Call, NEW s \in Scope, Acquire(c, s) PROVE Inv'
    BY <1>2, AcquireInv
  <1>3. ASSUME NEW c \in Call,
               RecordSuccess(c) \/ \E rateLimited \in BOOLEAN : RecordFailure(c, rateLimited)
        PROVE  Inv'
    BY <1>3, ReportInv
  <1>4. ASSUME NEW c \in Call, LeaseExpires(c) \/ EndUnreported(c) \/ Release(c)
        PROVE  Inv'
    <2>1. ASSUME NEW s \in Scope PROVE Inv'
      BY <1>4, QuietInv
    <2>2. CASE call[c].at # "idle"
      BY <2>1, <2>2 DEF Inv, TypeOK
    <2>3. CASE call[c].at = "idle"
      <3>1. lease[c] \in Scope
        BY <1>4, <2>3 DEF LeaseExpires, EndUnreported, Release, Inv, TypeOK
      <3> QED
        BY <2>1, <3>1
    <2> QED
      BY <2>2, <2>3
  <1>5. ASSUME NEW s \in Scope, AcquireRefused(s) PROVE Inv'
    <2>1. Active # {}
      <3>1. Cardinality({}) = 0
        BY FS_EmptySet
      <3>2. CapacityLimit(Loaded(s)) \in {1, Limit}
        BY DEF CapacityLimit
      <3>3. ~(Cardinality(Active) < CapacityLimit(Loaded(s)))
        BY <1>5 DEF AcquireRefused, HasCapacity
      <3> QED
        BY <3>1, <3>2, <3>3, EndpointAssumption, SMT
    <2>2. PICK c \in Call : TRUE
      BY <2>1 DEF Active
    <2> QED
      BY <1>5, QuietInv
  <1>6. CASE Crash
    <2>1. PICK c \in Call : call[c].at # "idle"
      BY <1>6 DEF Crash
    <2>2. call[c].scope \in Scope
      BY <2>1 DEF Inv, TypeOK
    <2> QED
      BY <1>6, <2>2, QuietInv
  <1>7. CASE UNCHANGED vars
    BY <1>7 DEF vars, Inv, TypeOK, CapacityRespected, Active, OneProbe, ActiveOf,
                ClosedBelowTrip
  <1> QED
    BY <1>1, <1>2, <1>3, <1>4, <1>5, <1>6, <1>7 DEF Next, CallEnds

\* Every reachable state satisfies it.
THEOREM HealthInvariant == Spec => []Inv
  BY InitInv, NextInv, PTL DEF Spec

\* Every variable keeps its type.
THEOREM HealthTypeCorrect == Spec => []TypeOK
  <1>1. Inv => TypeOK
    BY DEF Inv
  <1> QED
    BY <1>1, HealthInvariant, PTL

\* The endpoint's capacity is respected, for every number of models and calls.
THEOREM CapacityAlwaysRespected == Spec => []CapacityRespected
  <1>1. Inv => CapacityRespected
    BY DEF Inv
  <1> QED
    BY <1>1, HealthInvariant, PTL

\* A half-open circuit is probed by one call at a time.
THEOREM AlwaysOneProbe == Spec => []OneProbe
  <1>1. Inv => OneProbe
    BY DEF Inv
  <1> QED
    BY <1>1, HealthInvariant, PTL

\* A closed circuit is below its trip count.
THEOREM AlwaysBelowTrip == Spec => []ClosedBelowTrip
  <1>1. Inv => ClosedBelowTrip
    BY DEF Inv
  <1> QED
    BY <1>1, HealthInvariant, PTL

\* While a model recovers the endpoint grants one lease at a time.
THEOREM RampAlwaysStartsOneCall == Spec => RampStartsOneCall
  <1>1. Inv /\ [Next]_vars => [GrantsAlone]_vars
    <2> SUFFICES ASSUME Inv, Next, EndpointRecovers,
                        NEW c \in Call, lease[c] = NULL, lease'[c] # NULL
                 PROVE  Active = {}
      BY DEF GrantsAlone
    <2>1. PICK d \in Call, s \in Scope : Acquire(d, s)
      <3>1. ASSUME NEW d \in Call, CallEnds(d) \/ LeaseExpires(d) PROVE FALSE
        BY <3>1 DEF CallEnds, RecordSuccess, EndUnreported, Release, RecordFailure,
                    LeaseExpires, Inv, TypeOK
      <3>2. ASSUME NEW s \in Scope, Deadline(s) \/ AcquireRefused(s) PROVE FALSE
        BY <3>2 DEF Deadline, WindowEnds, CoolingEnds, ProbeExpires, RampEnds, AcquireRefused
      <3>3. ~Crash
        BY DEF Crash
      <3> QED
        BY <3>1, <3>2, <3>3 DEF Next
    <2>2. Cardinality(Active) < 1
      BY <2>1 DEF Acquire, HasCapacity, CapacityLimit
    <2>3. IsFiniteSet(Active) /\ Cardinality(Active) \in Nat
      BY LeaseSets DEF Active
    <2> QED
      BY <2>2, <2>3, FS_EmptySet, SMT
  <1>2. Spec => [][GrantsAlone]_vars
    BY <1>1, HealthInvariant, PTL DEF Spec
  <1> QED
    BY <1>2 DEF RampStartsOneCall

=============================================================================
