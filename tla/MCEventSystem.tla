--------------------------- MODULE MCEventSystem ---------------------------
(* The event system on small instances, and its agenda.                       *)
EXTENDS EventAgenda
=============================================================================
