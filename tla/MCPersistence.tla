--------------------------- MODULE MCPersistence ---------------------------
(* Model checking of Persistence: two contents and a default.               *)
EXTENDS Persistence

CONSTANTS v1, v2, factory

MCValue == {v1, v2, factory}
=============================================================================
