----------------------------- MODULE MCLongTask -----------------------------
(* Small instances of LongTask: a two-unit chain or a pair with an optional  *)
(* unit, and further unit ids that splits may introduce.                     *)
EXTENDS LongTask, TLC

CONSTANTS a, b, c, d, w1, w2

MCUnit == {a, b, c}
MCInitialUnit == {a, b}
SplitUnits == {a, b, c, d}
MCWorker == {w1, w2}
ChainDeps == [u \in MCInitialUnit |-> IF u = b THEN {a} ELSE {}]
OneWorker == {w1}
NoDeps == [u \in MCInitialUnit |-> {}]
Symmetric == Permutations(MCWorker)
=============================================================================
