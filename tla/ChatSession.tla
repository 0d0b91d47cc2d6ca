---------------------------- MODULE ChatSession ----------------------------
(***************************************************************************)
(* What a conversation promises to its author, without receipts, starters, *)
(* routes or crashes: requests are served one at a time; each is refused   *)
(* or worked on once, and what was refused does not start, except for what *)
(* was refused under the hands of who was just starting it; and a cancel   *)
(* that names a request reaches the work done for it, whichever came first.*)
(***************************************************************************)
CONSTANT Request

VARIABLES
    life,   \* "none", "waiting", "working", "over", "refused", "disowned", "stray"
    asked,  \* the author asked to cancel it
    tied,   \* the request knows the work done for it
    told    \* the work was told to stop

session == <<life, asked, tied, told>>

Init ==
    /\ life = [r \in Request |-> "none"]
    /\ asked = [r \in Request |-> FALSE]
    /\ tied = [r \in Request |-> FALSE]
    /\ told = [r \in Request |-> FALSE]

\* A request is taken on when no other one waits or is worked on.
Take(r) ==
    /\ life[r] = "none"
    /\ \A q \in Request : life[q] \notin {"waiting", "working", "stray"}
    /\ life' = [life EXCEPT ![r] = "waiting"]
    /\ UNCHANGED <<asked, tied, told>>

\* Work begins; work for a disowned request is a stray, which no request knows.
Start(r) ==
    /\ \/ life[r] = "waiting" /\ life' = [life EXCEPT ![r] = "working"]
       \/ life[r] = "disowned" /\ life' = [life EXCEPT ![r] = "stray"]
    /\ told' = [told EXCEPT ![r] = FALSE]
    /\ UNCHANGED <<asked, tied>>

Refuse(r) ==
    /\ life[r] = "waiting"
    /\ life' \in {[life EXCEPT ![r] = "refused"], [life EXCEPT ![r] = "disowned"]}
    /\ UNCHANGED <<asked, tied, told>>

\* Disowned requests are given up after all.
GiveUp(S) ==
    /\ \A r \in S : life[r] = "disowned"
    /\ life' = [r \in Request |-> IF r \in S THEN "refused" ELSE life[r]]
    /\ UNCHANGED <<asked, tied, told>>

Finish(r) ==
    /\ life[r] \in {"working", "stray"}
    /\ life' = [life EXCEPT ![r] = "over"]
    /\ UNCHANGED <<asked, tied, told>>

\* The author cancels; what nobody has begun to start is refused at once, and
\* what was refused is not asked about any more.
Ask(r) ==
    /\ life[r] \in {"waiting", "working", "over"}
    /\ asked' = [asked EXCEPT ![r] = TRUE]
    /\ \/ UNCHANGED life
       \/ life[r] = "waiting" /\ life' = [life EXCEPT ![r] = "refused"]
    /\ told' = [told EXCEPT ![r] = @ \/ (tied[r] /\ life[r] = "working")]
    /\ UNCHANGED tied

Tie(r) ==
    /\ life[r] \in {"working", "over"}
    /\ tied' = [tied EXCEPT ![r] = TRUE]
    /\ told' = [told EXCEPT ![r] = @ \/ (asked[r] /\ life[r] = "working")]
    /\ UNCHANGED <<life, asked>>

Tell(r) ==
    /\ life[r] \in {"working", "stray"}
    /\ told' = [told EXCEPT ![r] = TRUE]
    /\ UNCHANGED <<life, asked, tied>>

\* Finished turns are taken out of the history.
Withdraw(S) ==
    /\ \A r \in S : life[r] = "over"
    /\ asked' = [r \in Request |-> r \in S \/ asked[r]]
    /\ UNCHANGED <<life, tied, told>>

Next ==
    \/ \E r \in Request :
          \/ Take(r) \/ Start(r) \/ Refuse(r) \/ Finish(r)
          \/ Ask(r) \/ Tie(r) \/ Tell(r)
    \/ \E S \in SUBSET Request : Withdraw(S) \/ GiveUp(S)

Spec == Init /\ [][Next]_session
=============================================================================
