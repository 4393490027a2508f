--------------------------- MODULE MCPersistence ---------------------------
(* Persistence on small instances; the .cfg files choose the sets. *)
EXTENDS Persistence

CONSTANTS D1, D2, C1, G1, S1
=============================================================================
