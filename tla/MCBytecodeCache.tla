-------------------------- MODULE MCBytecodeCache --------------------------
(* The two scripts do not fit together, so that storing one evicts the      *)
(* other; only the longer one has the disk pruned.                          *)
EXTENDS BytecodeCache

CONSTANTS k1, k2

Lengths12 == [k \in Keys |-> IF k = k1 THEN 2 ELSE 1]
=============================================================================
