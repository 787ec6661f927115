------------------------ MODULE MCContractLifecycle ------------------------
(***************************************************************************)
(* Two invitees that answer concurrently, and two handlers in flight.       *)
(***************************************************************************)
EXTENDS ContractLifecycle, TLC

CONSTANTS p, i1, i2, r1, r2

MCInvitees == {i1, i2}
MCRequests == {r1, r2}
Symmetry == Permutations(MCRequests) \cup Permutations(MCInvitees)
=============================================================================
