--------------------------- MODULE MCProviderHealth ---------------------------
(* Two models behind one endpoint, and three calls. *)
EXTENDS ProviderHealth

CONSTANTS m, n, c1, c2, c3
MCScope == {m, n}
MCCall == {c1, c2, c3}
=============================================================================
