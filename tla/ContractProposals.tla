------------------------- MODULE ContractProposals -------------------------
(***************************************************************************)
(* createContractProposal: the limit on the contracts an agent may have    *)
(* open, checked before the contract is made and again after, and the      *)
(* contract and its participants, written and taken back one statement at  *)
(* a time.  The task handoffs make contracts too, with no such check, and  *)
(* who observes a contract is not checked either.  Limits do not change.   *)
(*                                                                         *)
(* Names, trust tiers, texts and the links that follow refuse a proposal   *)
(* before anything is written, or never undo it; they are left out.        *)
(***************************************************************************)
EXTENDS Naturals, FiniteSets

CONSTANTS
    Parties,          \* agents that propose and are invited
    Limit,            \* max_concurrent_contracts, 0 when there is none
    Proposals,        \* calls being handled
    ContractIds,
    NoId,
    MaxMisses,        \* bound on the reads and writes that fail in a call that goes on
    MaxLosses         \* bound on dying calls and failures of their rollbacks

ASSUME ProposalsAssumption ==
    /\ Limit \in [Parties -> Nat]
    /\ IsFiniteSet(Proposals) /\ IsFiniteSet(ContractIds)
    /\ NoId \notin ContractIds
    /\ MaxMisses \in Nat /\ MaxLosses \in Nat

VARIABLES
    contractRow,      \* contracts: proposed and active are both open
    participant,      \* contract_participants: contract and agent
    handed,           \* history: the contracts the handoffs made
    admitted,         \* history: the participations that a count let in
    proposal,         \* where each call stands
    simultaneous,     \* history: two calls were handled at the same time
    misses,           \* history: failed reads, and failed writes that are taken back
    losses            \* history: deaths, and failures of what takes back

proposalVars == <<contractRow, participant, handed, admitted, proposal, simultaneous, misses, losses>>

ProposalRecord ==
    [stage : {"none", "count", "judge", "recount", "rejudge", "participants",
              "enrich", "clear", "remove"},
     proposer : Parties \cup {NoId}, invitees : SUBSET Parties, observers : SUBSET Parties,
     uncounted : SUBSET Parties,      \* whose contracts are still to be counted
     passed : SUBSET Parties,         \* whose count was within the limit
     counting : Parties \cup {NoId},
     seen : SUBSET ContractIds,       \* the participations that were read
     made : ContractIds \cup {NoId}]

NoProposal == [stage |-> "none", proposer |-> NoId, invitees |-> {}, observers |-> {},
               uncounted |-> {}, passed |-> {}, counting |-> NoId, seen |-> {}, made |-> NoId]

ProposalsInit ==
    /\ contractRow = [c \in ContractIds |-> "absent"]
    /\ participant = {} /\ handed = {} /\ admitted = {}
    /\ proposal = [p \in Proposals |-> NoProposal]
    /\ simultaneous = FALSE
    /\ misses = 0 /\ losses = 0

Stage(p, stage) == proposal[p].stage = stage
Proceed(p, stage) == proposal' = [proposal EXCEPT ![p].stage = stage]
Leave(p) == proposal' = [proposal EXCEPT ![p] = NoProposal]

(* At work on a contract that counts: a proposal, not a handoff. *)
Counted(p) == ~Stage(p, "none") /\ proposal[p].made \notin handed

OpenContracts == {c \in ContractIds : contractRow[c] = "open"}
ContractsOf(a) == {c \in ContractIds : <<c, a>> \in participant}

(* A limit of 0 is none. *)
Limited(a) == Limit[a] # 0

Miss == misses < MaxMisses /\ misses' = misses + 1
Lose == losses < MaxLosses /\ losses' = losses + 1
NoFault == UNCHANGED <<misses, losses>>

-----------------------------------------------------------------------------
(* Counting, the proposer first *)

(* Observers are named with the invitees, but nobody counts their contracts. *)
Propose(p, a, others, watchers) ==
    /\ Stage(p, "none")
    /\ others # {} /\ a \notin others
    /\ watchers \cap (others \cup {a}) = {}
    /\ proposal' = [proposal EXCEPT ![p] =
          [NoProposal EXCEPT !.stage = "count", !.proposer = a, !.invitees = others,
                             !.observers = watchers,
                             !.uncounted = {b \in others \cup {a} : Limited(b)}]]
    /\ simultaneous' = (simultaneous \/ \E q \in Proposals \ {p} : Counted(q))
    /\ UNCHANGED <<contractRow, participant, handed, admitted, misses, losses>>

(* The first read takes the participations, the second which of them are open. *)
ReadParticipations(p, a) ==
    /\ Stage(p, "count") /\ a \in proposal[p].uncounted
    /\ proposal[p].proposer \in proposal[p].uncounted => a = proposal[p].proposer
    /\ proposal' = [proposal EXCEPT ![p].stage = "judge", ![p].counting = a,
                                    ![p].seen = ContractsOf(a)]
    /\ UNCHANGED <<contractRow, participant, handed, admitted, simultaneous, misses, losses>>

(* Mutant of AtLimit: one more than the limit. *)
PastLimit(open, limit) == open > limit

AtLimit(open, limit) == open >= limit

SeenOpen(p) == Cardinality(proposal[p].seen \cap OpenContracts)

(* On to the next count, with those who passed this one. *)
CountNext(p, passing) ==
    proposal' = [proposal EXCEPT ![p].stage = "count", ![p].seen = {}, ![p].counting = NoId,
                                 ![p].uncounted = @ \ {proposal[p].counting},
                                 ![p].passed = @ \cup passing]

JudgeCount(p) ==
    LET a == proposal[p].counting
    IN  /\ Stage(p, "judge")
        /\ IF AtLimit(SeenOpen(p), Limit[a]) THEN Leave(p) ELSE CountNext(p, {a})
        /\ UNCHANGED <<contractRow, participant, handed, admitted, simultaneous, misses, losses>>

(* One of the two reads failed: its error is not looked at, and no data counts as
   no contract. *)
CountFails(p) ==
    /\ Stage(p, "judge")
    /\ CountNext(p, {}) /\ Miss
    /\ UNCHANGED <<contractRow, participant, handed, admitted, simultaneous, losses>>

-----------------------------------------------------------------------------
(* Making the contract *)

InsertContract(p, c) ==
    /\ Stage(p, "count") /\ proposal[p].uncounted = {}
    /\ contractRow[c] = "absent"
    /\ contractRow' = [contractRow EXCEPT ![c] = "open"]
    /\ proposal' = [proposal EXCEPT ![p].stage = "recount", ![p].made = c]
    /\ UNCHANGED <<participant, handed, admitted, simultaneous, misses, losses>>

(* A contract of a task's handoff or escalation: nobody counts.  Its participants
   and its link to the task follow, and are taken back, as with a proposal. *)
HandOff(p, c, a, others) ==
    /\ Stage(p, "none")
    /\ others # {} /\ a \notin others
    /\ contractRow[c] = "absent"
    /\ contractRow' = [contractRow EXCEPT ![c] = "open"]
    /\ handed' = handed \cup {c}
    /\ proposal' = [proposal EXCEPT ![p] =
          [NoProposal EXCEPT !.stage = "participants", !.proposer = a, !.invitees = others,
                             !.made = c]]
    /\ UNCHANGED <<participant, admitted, simultaneous, misses, losses>>

(* The proposer's participations once more; the new contract has none yet. *)
ReadAgain(p) ==
    /\ Stage(p, "recount")
    /\ proposal' = [proposal EXCEPT ![p].stage = "rejudge",
                                    ![p].seen = ContractsOf(proposal[p].proposer)]
    /\ UNCHANGED <<contractRow, participant, handed, admitted, simultaneous, misses, losses>>

(* Here too a read that failed counts as no contract. *)
JudgeAgain(p) ==
    LET a == proposal[p].proposer
        Rejudged(stage) == proposal' = [proposal EXCEPT ![p].seen = {}, ![p].stage = stage]
    IN  /\ Stage(p, "rejudge")
        /\ \/ /\ Rejudged(IF Limited(a) /\ SeenOpen(p) > Limit[a]
                           THEN "remove" ELSE "participants")
              /\ NoFault
           \/ Miss /\ Rejudged("participants") /\ UNCHANGED losses
        /\ UNCHANGED <<contractRow, participant, handed, admitted, simultaneous>>

(* Proposer, invitees and observers in one statement. *)
Joining(p) == proposal[p].invitees \cup proposal[p].observers \cup {proposal[p].proposer}

InsertParticipants(p) ==
    LET c == proposal[p].made
    IN  /\ Stage(p, "participants")
        /\ \/ /\ participant' = participant \cup ({c} \X Joining(p))
              /\ admitted' = admitted \cup ({c} \X proposal[p].passed)
              /\ Proceed(p, "enrich") /\ NoFault
           \/ Miss /\ Proceed(p, "remove") /\ UNCHANGED <<participant, admitted, losses>>
        /\ UNCHANGED <<contractRow, handed, simultaneous>>

(* Mutant of AfterParticipants: the rollback forgets the contract. *)
LeftBehind(p) == Leave(p)

AfterParticipants(p) == Proceed(p, "remove")

(* The enrichment of a proposal, the link of a handoff to its task. *)
EnrichContract(p) ==
    /\ Stage(p, "enrich")
    /\ \/ Leave(p) /\ NoFault
       \/ Miss /\ Proceed(p, "clear") /\ UNCHANGED losses
    /\ UNCHANGED <<contractRow, participant, handed, admitted, simultaneous>>

(* The two statements of the rollback, whose errors nobody looks at. *)
DeleteParticipants(p) ==
    /\ Stage(p, "clear")
    /\ \/ /\ participant' = participant \ ({proposal[p].made} \X Parties)
          /\ UNCHANGED losses
       \/ Lose /\ UNCHANGED participant
    /\ AfterParticipants(p)
    /\ UNCHANGED <<contractRow, handed, admitted, simultaneous, misses>>

(* What references the contract goes with it. *)
DeleteContract(p) ==
    /\ Stage(p, "remove")
    /\ \/ /\ contractRow' = [contractRow EXCEPT ![proposal[p].made] = "deleted"]
          /\ participant' = participant \ ({proposal[p].made} \X Parties)
          /\ UNCHANGED losses
       \/ Lose /\ UNCHANGED <<contractRow, participant>>
    /\ Leave(p)
    /\ UNCHANGED <<handed, admitted, simultaneous, misses>>

-----------------------------------------------------------------------------
(* The rest of the system *)

(* Whatever ends a contract; it is never opened again. *)
EndContract(c) ==
    /\ contractRow[c] = "open"
    /\ contractRow' = [contractRow EXCEPT ![c] = "ended"]
    /\ UNCHANGED <<participant, handed, admitted, proposal, simultaneous, misses, losses>>

ProposalDies(p) ==
    /\ ~Stage(p, "none")
    /\ Lose
    /\ Leave(p)
    /\ UNCHANGED <<contractRow, participant, handed, admitted, simultaneous, misses>>

ProposalsNext ==
    \/ \E p \in Proposals :
          \/ \E a \in Parties : ReadParticipations(p, a)
          \/ \E a \in Parties, others \in SUBSET Parties :
                \/ \E watchers \in SUBSET Parties : Propose(p, a, others, watchers)
                \/ \E c \in ContractIds : HandOff(p, c, a, others)
          \/ \E c \in ContractIds : InsertContract(p, c)
          \/ JudgeCount(p) \/ CountFails(p) \/ ReadAgain(p) \/ JudgeAgain(p)
          \/ InsertParticipants(p) \/ EnrichContract(p)
          \/ DeleteParticipants(p) \/ DeleteContract(p) \/ ProposalDies(p)
    \/ \E c \in ContractIds : EndContract(c)

ProposalsSpec == ProposalsInit /\ [][ProposalsNext]_proposalVars

-----------------------------------------------------------------------------
(* Properties *)

(* The types. *)
ProposalsTypeOK ==
    /\ contractRow \in [ContractIds -> {"absent", "open", "ended", "deleted"}]
    /\ participant \subseteq ContractIds \X Parties
    /\ handed \subseteq ContractIds
    /\ admitted \subseteq ContractIds \X Parties
    /\ proposal \in [Proposals -> ProposalRecord]
    /\ simultaneous \in BOOLEAN
    /\ misses \in 0 .. MaxMisses /\ losses \in 0 .. MaxLosses

(* The contracts an agent got into past a count that had its answer: as a proposer
   or an invitee of a proposal, and by no observer's row, handoff or failed read,
   none of which is checked. *)
AdmittedTo(a) ==
    {c \in (ContractsOf(a) \cap OpenContracts) \ handed : <<c, a>> \in admitted}

(* What the counts are worth (contract-proposals.ts:126-164): they let nobody into
   more open contracts than its limit while proposals are handled one after the
   other, and into one more at most for every other call handled at the same time,
   although what a count has read may be long out of date when the participants
   are inserted.  An agent may still have more open contracts than its limit:
   those it observes, was handed, or got into past a failed read come on top. *)
LimitHolds ==
    \A a \in Parties : Limited(a) =>
        Cardinality(AdmittedTo(a))
            <= Limit[a] + (IF simultaneous THEN Cardinality(Proposals) - 1 ELSE 0)

(* A contract nobody takes part in, which nobody could accept, reject or cancel,
   is one that is being made or taken back, as long as no call dies and no
   statement of a rollback fails. *)
NoOrphans ==
    losses = 0 => \A c \in OpenContracts :
        \/ \E a \in Parties : c \in ContractsOf(a)
        \/ \E p \in Proposals : proposal[p].made = c
=============================================================================
