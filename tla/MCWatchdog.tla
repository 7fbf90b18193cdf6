----------------------------- MODULE MCWatchdog -----------------------------
(* Bounds: two failures make a burst, of four ticks; a run of five is stable. *)
EXTENDS Watchdog
=============================================================================
