----------------------------- MODULE WorkLedger -----------------------------
(***************************************************************************)
(* What a durable task promises, without attempts, leases, budgets or      *)
(* reasons: units are held by at most Limit workers at a time, a unit is   *)
(* finished once and only by its holder while the task is open, a split    *)
(* replaces a needed unit by fresh ones, and a task completes only when    *)
(* everything needed is done and then never changes again.                 *)
(***************************************************************************)
EXTENDS Naturals, FiniteSets

CONSTANTS Unit, Worker, Nobody, Limit

VARIABLES
    phase,   \* "idle", "open", "completed", "failed" or "canceled"
    need,    \* units the task still has to have, finished or not
    done,    \* finished units
    holder   \* who may finish a unit right now

ledger == <<phase, need, done, holder>>

Held == {u \in Unit : holder[u] # Nobody}

Init ==
    /\ phase = "idle"
    /\ need \in SUBSET Unit
    /\ done = {}
    /\ holder = [u \in Unit |-> Nobody]

\* Workers of the units in S lose them: expiry, failure, pause, take-over.
Drop(S) ==
    /\ holder' = [u \in Unit |-> IF u \in S THEN Nobody ELSE holder[u]]
    /\ UNCHANGED <<need, done>>

Take(u, w) ==
    /\ phase = "open"
    /\ u \notin done /\ holder[u] = Nobody
    /\ Cardinality(Held) < Limit
    /\ holder' = [holder EXCEPT ![u] = w]
    /\ UNCHANGED <<phase, need, done>>

Finish(u) ==
    /\ phase = "open"
    /\ u \in Held \ done
    /\ done' = done \union {u}
    /\ holder' = [holder EXCEPT ![u] = Nobody]
    /\ UNCHANGED <<phase, need>>

Split(u, fresh) ==
    /\ phase = "open"
    /\ u \in Held \ done
    /\ fresh \intersect (need \union done \union Held) = {}
    /\ need' = (need \ {u}) \union fresh
    /\ holder' = [holder EXCEPT ![u] = Nobody]
    /\ UNCHANGED <<phase, done>>

Lose == \E S \in SUBSET Held : Drop(S) /\ UNCHANGED phase

Move(from, to) ==
    /\ phase \in from
    /\ phase' = to
    /\ \E S \in SUBSET Held : Drop(S)

Complete ==
    /\ phase = "open" /\ need \subseteq done
    /\ phase' = "completed"
    /\ UNCHANGED <<need, done, holder>>

Next ==
    \/ \E u \in Unit, w \in Worker : Take(u, w)
    \/ \E u \in Unit : Finish(u)
    \/ \E u \in Unit, fresh \in SUBSET Unit : Split(u, fresh)
    \/ Lose
    \/ Complete
    \/ Move({"idle", "failed"}, "open")
    \/ Move({"open"}, "idle")
    \/ Move({"idle", "open"}, "failed")
    \/ Move({"idle", "open", "failed"}, "canceled")

Spec == Init /\ [][Next]_ledger
=============================================================================
