--------------------------- MODULE MCIdempotency ---------------------------
(***************************************************************************)
(* Four attempts: two that overlap, one after an answer, one after expiry.  *)
(***************************************************************************)
EXTENDS Idempotency, TLC

CONSTANTS a1, a2, a3, a4

MCRequests == {a1, a2, a3, a4}
Symmetry == Permutations(MCRequests)
=============================================================================
