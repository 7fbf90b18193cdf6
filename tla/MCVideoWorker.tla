--------------------------- MODULE MCVideoWorker ---------------------------
(* The worker alone, under any calls of its owner.                         *)
EXTENDS VideoWorker
MCPts == 0..2
=============================================================================
