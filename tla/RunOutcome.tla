----------------------------- MODULE RunOutcome -----------------------------
(***************************************************************************)
(* What an Agent Run promises to whoever watches it, without owners,       *)
(* leases, attempts or the steps of a cancellation: it ends at most once;  *)
(* what was asked to cancel ends canceled; the journal tells of the end it *)
(* came to; a tool takes effect at most once, and only while the Run is    *)
(* open and nobody has asked to cancel it; and a cancellation is answered  *)
(* with the status the Run really ended with.                              *)
(***************************************************************************)
EXTENDS Naturals

CONSTANTS Tool, Status   \* tool calls, and the statuses a Run can end with

VARIABLES
    outcome,   \* "open" or how the Run ended
    asked,     \* a cancellation was requested
    answer,    \* of the fenced cancellation: "none", "pending" or the end it names
    told,      \* the ends the journal announces
    times      \* how often each tool call took effect

promise == <<outcome, asked, answer, told, times>>

Init ==
    /\ outcome = "open"
    /\ asked = FALSE
    /\ answer = "none"
    /\ told = {}
    /\ times = [t \in Tool |-> 0]

\* A tool call takes effect, for the first time.
Act(t) ==
    /\ outcome = "open" /\ ~asked
    /\ times[t] = 0
    /\ times' = [times EXCEPT ![t] = 1]
    /\ UNCHANGED <<outcome, asked, answer, told>>

Ask ==
    /\ outcome = "open" /\ ~asked
    /\ asked' = TRUE
    /\ UNCHANGED <<outcome, answer, told, times>>

\* The first request that waits for an answer.
Fence ==
    /\ outcome = "open" /\ answer = "none"
    /\ asked' = TRUE
    /\ answer' = "pending"
    /\ UNCHANGED <<outcome, told, times>>

\* The Run ends, and the journal may tell of it; who deletes it asks as well.
End(status) ==
    /\ outcome = "open"
    /\ outcome' = status
    /\ asked' \in {asked, TRUE}
    /\ asked' => status = "canceled"
    /\ told' \in {told, {status}}
    /\ UNCHANGED <<answer, times>>

Answer ==
    /\ outcome # "open" /\ answer = "pending"
    /\ answer' = outcome
    /\ UNCHANGED <<outcome, asked, told, times>>

Next ==
    \/ \E t \in Tool : Act(t)
    \/ Ask \/ Fence \/ Answer
    \/ \E status \in Status : End(status)

Spec == Init /\ [][Next]_promise
=============================================================================
