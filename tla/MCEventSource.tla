--------------------------- MODULE MCEventSource ---------------------------
(* One source of two events, whose posts fill a backlog of two.            *)
EXTENDS EventSource
=============================================================================
