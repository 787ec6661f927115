--------------------------- MODULE MCCoordination ---------------------------
(***************************************************************************)
(* Components that share no state, one of them at work in each behaviour.  *)
(***************************************************************************)
EXTENDS Approvals, ProjectInvitations, ContractProposals, ContractLinks, Idempotency, TLC

CONSTANTS a1, a2, u1, u2, g1, h1, h2, k1, k2, k3, r1, r2

VARIABLE part

MCOwner == g1 :> u2
MCNamedLike == u1 :> NoAgent @@ u2 :> g1
MCLimit == u1 :> 1 @@ u2 :> 2 @@ g1 :> 0

(* One operation is requested, each request by one user. *)
Requested(action, actors) ==
    \A a \in Approvals : /\ approval'[a].action \in {action, Nothing}
                         /\ approval'[a].actor \in {actors[a], Nothing}

MCActors == a1 :> u1 @@ a2 :> u2

OnlyRotations == Requested("key.rotate", MCActors)
OnlySwitch == /\ Requested("killswitch.activate", MCActors) /\ UNCHANGED keyVars
              /\ \A h \in Handlers : handler'[h].pc # "retire"

(* Contracts are made in the order of their ids. *)
InOrder == \A c, d \in ContractIds :
              c < d /\ contractRow'[d] # "absent" => contractRow'[c] # "absent"

(* A second fault meets the rollback of the first. *)
FaultsMeet == \/ misses' + losses' < 2 \/ UNCHANGED <<misses, losses>>
              \/ \E p \in Proposals : proposal[p].stage \in {"clear", "remove"}

(* Two parties with three contracts, of which the second may be a handoff's, or two
   that propose to a third, watched by each other, with no handoff and no loss. *)
OnlyPair == /\ FaultsMeet /\ handed' \subseteq {2}
            /\ \A p \in Proposals : g1 \notin Joining(p)'
OnlyObserved == /\ handed' = {} /\ losses' = 0 /\ contractRow'[3] = "absent"
                /\ \A p \in Proposals : proposal'[p].invitees \subseteq {u2}

(* Four attempts: two that overlap, one after an answer, one after expiry. *)
MCRequests == {h1, h2, r1, r2}

Parts == {"rotations", "switch", "invitations", "proposals", "observers", "links", "retries"}

Init == /\ part \in Parts
        /\ ApprovalsInit /\ InvitationsInit /\ ProposalsInit /\ LinksInit /\ KeysInit
        /\ part # "invitations" => round = 0

ThisPart(p) == part = p /\ UNCHANGED part

Rotations == /\ ThisPart("rotations") /\ ApprovalsNext /\ OnlyRotations
             /\ UNCHANGED <<invitationVars, proposalVars, linkVars, attemptVars>>
Switching == /\ ThisPart("switch") /\ ApprovalsNext /\ OnlySwitch
             /\ UNCHANGED <<invitationVars, proposalVars, linkVars, attemptVars>>
Inviting == /\ ThisPart("invitations") /\ InvitationsNext
            /\ UNCHANGED <<approvalVars, proposalVars, linkVars, attemptVars>>
Proposing == /\ ThisPart("proposals") /\ ProposalsNext /\ InOrder /\ OnlyPair
             /\ UNCHANGED <<approvalVars, invitationVars, linkVars, attemptVars>>
Observing == /\ ThisPart("observers") /\ ProposalsNext /\ InOrder /\ OnlyObserved
             /\ UNCHANGED <<approvalVars, invitationVars, linkVars, attemptVars>>
Linking == /\ ThisPart("links") /\ LinksNext
           /\ UNCHANGED <<approvalVars, invitationVars, proposalVars, attemptVars>>
Retrying == /\ ThisPart("retries") /\ KeysNext
            /\ UNCHANGED <<approvalVars, invitationVars, proposalVars, linkVars>>

Next == Rotations \/ Switching \/ Inviting \/ Proposing \/ Observing \/ Linking \/ Retrying

Spec == Init /\ [][Next]_<<part, approvalVars, invitationVars, proposalVars, linkVars,
                          attemptVars>>

Symmetry == Permutations({h1, h2}) \cup Permutations({r1, r2})
=============================================================================
