-------------------------- MODULE MCMaterialCommit --------------------------
(* Small instances of MaterialCommit.                                        *)
EXTENDS MaterialCommit, TLC

\* No action tells the texts of the application apart.
Symmetric == Permutations(Text)
=============================================================================
