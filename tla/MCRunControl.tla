---------------------------- MODULE MCRunControl ----------------------------
(* Two overlapping backends, one side-effecting tool call. *)
EXTENDS RunControl

CONSTANTS p, q, t
MCProcess == {p, q}
MCTool == {t}
=============================================================================
