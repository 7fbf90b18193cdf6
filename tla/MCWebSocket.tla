---------------------------- MODULE MCWebSocket ----------------------------
(* One socket: the bounds are those of the configuration.                  *)
EXTENDS WebSocket
=============================================================================
