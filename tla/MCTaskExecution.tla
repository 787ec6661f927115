-------------------------- MODULE MCTaskExecution --------------------------
(***************************************************************************)
(* Two handlers in flight, the broker's key and one other.                  *)
(***************************************************************************)
EXTENDS TaskExecution, TLC

CONSTANTS broker, k1, r1, r2

MCKeys == {broker, k1}
MCRequests == {r1, r2}
Symmetry == Permutations(MCRequests)
=============================================================================
