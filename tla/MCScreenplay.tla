---------------------------- MODULE MCScreenplay ----------------------------
(* Instances of Screenplay for TLC.                                          *)
EXTENDS Screenplay, TLC

\* Windows, tasks and episodes are interchangeable.
Symmetric == Permutations(Client) \cup Permutations(Task)
    \cup Permutations(Episode) \cup Permutations(Issue)
=============================================================================
