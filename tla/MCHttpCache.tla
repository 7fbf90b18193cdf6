---------------------------- MODULE MCHttpCache ----------------------------
(* Threads are interchangeable; the order of keys makes headers distinct.  *)
EXTENDS HttpCache, TLC

ThreadSymmetry == Permutations(Fetchers)
=============================================================================
