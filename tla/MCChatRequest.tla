----------------------------- MODULE MCChatRequest -----------------------------
(* Two requests of a session, two backends on its database. *)
EXTENDS ChatRequest

CONSTANTS r1, r2, b1, b2
MCRequest == {r1, r2}
MCBackend == {b1, b2}
=============================================================================
