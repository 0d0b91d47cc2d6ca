-------------------------- MODULE MCScreenplayTurn --------------------------
(* Two overlapping backends, two background tasks. *)
EXTENDS ScreenplayTurn, TLC

Symmetric == Permutations(Process) \union Permutations(Worker) \union Permutations(Run)
                \union Permutations(Command) \union Permutations(Cancel)
=============================================================================
