------------------------- MODULE MCLongTaskRecovery -------------------------
(* Two units side by side, one worker id. *)
EXTENDS LongTaskRecovery

CONSTANTS a, b

MCUnit == {a, b}
NoDeps == [u \in {a} |-> {}]
SideBySide == [u \in MCUnit |-> {}]
=============================================================================
