------------------------ MODULE Coordination_proofs ------------------------
(***************************************************************************)
(* What the checks of proposals and of links are worth, for any number of  *)
(* agents, calls, contracts and writers: first the calls that propose, the *)
(* limits they count against and the contracts they leave behind, then the *)
(* links and the walk of the trigger that guards them.                     *)
(***************************************************************************)
EXTENDS ContractProposals, ContractLinks, FiniteSetTheorems,
        WellFoundedInduction, TLAPS

-----------------------------------------------------------------------------
(* The calls and their contracts *)

(* Nobody takes part in it or was let in, and nobody has read that someone does. *)
Unused(c) ==
    /\ \A a \in Parties : <<c, a>> \notin participant /\ <<c, a>> \notin admitted
    /\ \A p \in Proposals : c \notin proposal[p].seen

(* What a call has in hand at each of its stages. *)
CallAt(p) ==
    LET call == proposal[p]
    IN  /\ call.stage = "none" => call = NoProposal
        /\ call.stage # "none" => call.proposer \in Parties
        /\ call.stage \in {"none", "count", "judge"} => call.made = NoId
        /\ call.stage \notin {"none", "count", "judge"} =>
              call.made \in ContractIds /\ contractRow[call.made] # "absent"
        /\ call.stage \in {"recount", "rejudge", "participants"} => Unused(call.made)
        /\ call.stage = "judge" => call.counting \in call.uncounted
        /\ call.stage \notin {"count", "judge"} => call.uncounted = {}
        /\ call.stage = "enrich" => <<call.made, call.proposer>> \in participant

(* Every call makes a contract of its own, one that is not there has left no trace,
   and unless two calls were handled at a time at most one is under way. *)
CallsInv ==
    /\ ProposalsTypeOK
    /\ \A p \in Proposals : CallAt(p)
    /\ \A p, q \in Proposals :
          proposal[p].made = proposal[q].made /\ proposal[p].made # NoId => p = q
    /\ \A c \in ContractIds : contractRow[c] = "absent" => Unused(c) /\ c \notin handed
    /\ ~simultaneous => \A p, q \in Proposals : Counted(p) /\ Counted(q) => p = q

(* No call has begun. *)
LEMMA ProposalsInitTypes == ProposalsInit => ProposalsTypeOK
<1>1. NoProposal \in ProposalRecord
  BY DEF NoProposal, ProposalRecord
<1> SUFFICES ASSUME ProposalsInit
             PROVE  ProposalsTypeOK
  OBVIOUS
<1>2. proposal \in [Proposals -> ProposalRecord]
  BY <1>1 DEF ProposalsInit
<1>3. misses \in 0 .. MaxMisses /\ losses \in 0 .. MaxLosses
  BY ProposalsAssumption DEF ProposalsInit
<1> QED
  BY <1>2, <1>3 DEF ProposalsInit, ProposalsTypeOK

(* What a call holds is written field by field. *)
LEMMA ReadWritten ==
    ASSUME NEW call \in ProposalRecord, NEW a \in Parties, NEW read \in SUBSET ContractIds
    PROVE  [call EXCEPT !.stage = "judge", !.counting = a, !.seen = read] \in ProposalRecord
  BY DEF ProposalRecord

(* So is what it judged. *)
LEMMA PassedWritten ==
    ASSUME NEW call \in ProposalRecord, NEW left \in SUBSET Parties,
           NEW within \in SUBSET Parties
    PROVE  [call EXCEPT !.stage = "count", !.seen = {}, !.counting = NoId,
                        !.uncounted = left, !.passed = within] \in ProposalRecord
  BY DEF ProposalRecord

(* And what it made. *)
LEMMA MadeWritten ==
    ASSUME NEW call \in ProposalRecord, NEW c \in ContractIds
    PROVE  [call EXCEPT !.stage = "recount", !.made = c] \in ProposalRecord
  BY DEF ProposalRecord

(* And what it read again. *)
LEMMA AgainWritten ==
    ASSUME NEW call \in ProposalRecord, NEW read \in SUBSET ContractIds
    PROVE  [call EXCEPT !.stage = "rejudge", !.seen = read] \in ProposalRecord
  BY DEF ProposalRecord

(* And what a proposal begins with. *)
LEMMA ProposedWritten ==
    ASSUME NEW a \in Parties, NEW others \in SUBSET Parties,
           NEW watchers \in SUBSET Parties, NEW left \in SUBSET Parties
    PROVE  [NoProposal EXCEPT !.stage = "count", !.proposer = a, !.invitees = others,
                   !.observers = watchers, !.uncounted = left] \in ProposalRecord
  BY DEF ProposalRecord, NoProposal

(* Or a handoff. *)
LEMMA HandedWritten ==
    ASSUME NEW a \in Parties, NEW others \in SUBSET Parties, NEW c \in ContractIds
    PROVE  [NoProposal EXCEPT !.stage = "participants", !.proposer = a,
                   !.invitees = others, !.made = c] \in ProposalRecord
  BY DEF ProposalRecord, NoProposal

(* And where it stands. *)
LEMMA StageWritten ==
    ASSUME NEW call \in ProposalRecord,
           NEW next \in {"enrich", "clear", "remove"}
    PROVE  [call EXCEPT !.stage = next] \in ProposalRecord
  BY DEF ProposalRecord

(* A step writes what one call holds, with values of the tables' types. *)
LEMMA ProposalsStepTypes ==
    CallsInv /\ [ProposalsNext]_proposalVars => ProposalsTypeOK'
<1> SUFFICES ASSUME ProposalsTypeOK, \A p \in Proposals : CallAt(p),
                    [ProposalsNext]_proposalVars
             PROVE  ProposalsTypeOK'
  BY DEF CallsInv
<1> USE ProposalsAssumption DEF ProposalsTypeOK, Stage, Proceed, Leave
<1>0. NoProposal \in ProposalRecord
  BY DEF NoProposal, ProposalRecord
<1>c. \A p \in Proposals : proposal[p] \in ProposalRecord
  OBVIOUS
<1>17. ASSUME NEW p \in Proposals, NEW next \in {"enrich", "clear", "remove"},
              Proceed(p, next)
       PROVE  proposal' \in [Proposals -> ProposalRecord]
  <2> DEFINE called == [proposal[p] EXCEPT !.stage = next]
  <2>1. called \in ProposalRecord
    BY ONLY <1>c, next \in {"enrich", "clear", "remove"}, p \in Proposals, StageWritten
  <2>2. proposal' = [proposal EXCEPT ![p] = called]
    BY <1>17
  <2> HIDE DEF called
  <2> QED
    BY <2>1, <2>2
<1>1. ASSUME NEW p \in Proposals, NEW a \in Parties, ReadParticipations(p, a)
      PROVE  ProposalsTypeOK'
  <2>1. ContractsOf(a) \in SUBSET ContractIds
    BY DEF ContractsOf
  <2> DEFINE called == [proposal[p] EXCEPT !.stage = "judge", !.counting = a,
                                           !.seen = ContractsOf(a)]
  <2>2. called \in ProposalRecord
    BY ONLY <1>c, <2>1, a \in Parties, p \in Proposals, ReadWritten
  <2>3. proposal' = [proposal EXCEPT ![p] = called]
    BY <1>1 DEF ReadParticipations, ProposalRecord
  <2> QED
    BY <1>1, <2>2, <2>3 DEF ReadParticipations
<1>2. ASSUME NEW p \in Proposals, NEW a \in Parties, NEW others \in SUBSET Parties,
             NEW watchers \in SUBSET Parties, Propose(p, a, others, watchers)
      PROVE  ProposalsTypeOK'
  <2>1. (simultaneous \/ \E q \in Proposals \ {p} : Counted(q)) \in BOOLEAN
    OBVIOUS
  <2> DEFINE left == {b \in others \cup {a} : Limited(b)}
             called == [NoProposal EXCEPT !.stage = "count", !.proposer = a,
                           !.invitees = others, !.observers = watchers, !.uncounted = left]
  <2>2. proposal' = [proposal EXCEPT ![p] = called]
    BY <1>2 DEF Propose
  <2>3. left \in SUBSET Parties
    OBVIOUS
  <2> HIDE DEF left
  <2>4. called \in ProposalRecord
    BY ONLY <2>3, a \in Parties, others \in SUBSET Parties, watchers \in SUBSET Parties,
            ProposedWritten
  <2> HIDE DEF called
  <2>5. proposal' \in [Proposals -> ProposalRecord]
    BY <2>2, <2>4
  <2> QED
    BY <1>2, <2>1, <2>5 DEF Propose
<1>3. ASSUME NEW p \in Proposals, NEW a \in Parties, NEW others \in SUBSET Parties,
             NEW c \in ContractIds, HandOff(p, c, a, others)
      PROVE  ProposalsTypeOK'
  <2> DEFINE called == [NoProposal EXCEPT !.stage = "participants", !.proposer = a,
                                          !.invitees = others, !.made = c]
  <2>1. called \in ProposalRecord
    BY ONLY a \in Parties, others \in SUBSET Parties, c \in ContractIds, HandedWritten
  <2>2. proposal' = [proposal EXCEPT ![p] = called] /\ handed' = handed \cup {c}
    BY <1>3 DEF HandOff
  <2> HIDE DEF called
  <2>3. proposal' \in [Proposals -> ProposalRecord] /\ handed' \subseteq ContractIds
    BY <2>1, <2>2
  <2> QED
    BY <1>3, <2>3 DEF HandOff
<1>4. ASSUME NEW p \in Proposals, NEW c \in ContractIds, InsertContract(p, c)
      PROVE  ProposalsTypeOK'
  <2> DEFINE called == [proposal[p] EXCEPT !.stage = "recount", !.made = c]
  <2>1. called \in ProposalRecord
    BY ONLY <1>c, c \in ContractIds, p \in Proposals, MadeWritten
  <2>2. proposal' = [proposal EXCEPT ![p] = called]
    BY <1>4 DEF InsertContract, ProposalRecord
  <2> QED
    BY <1>4, <2>1, <2>2 DEF InsertContract
<1>15. ASSUME NEW p \in Proposals, NEW passing \in SUBSET Parties, CountNext(p, passing)
       PROVE  proposal' \in [Proposals -> ProposalRecord]
  <2> DEFINE left == proposal[p].uncounted \ {proposal[p].counting}
             within == proposal[p].passed \cup passing
             counted == [proposal[p] EXCEPT !.stage = "count", !.seen = {},
                            !.counting = NoId, !.uncounted = left, !.passed = within]
  <2>1. proposal[p] \in ProposalRecord /\ left \in SUBSET Parties
        /\ within \in SUBSET Parties
    BY <1>c DEF ProposalRecord
  <2>2. proposal' = [proposal EXCEPT ![p] = counted]
    BY <1>15 DEF CountNext, ProposalRecord
  <2> HIDE DEF left, within
  <2>3. counted \in ProposalRecord
    BY ONLY <2>1, PassedWritten
  <2> QED
    BY <2>2, <2>3
<1>5. ASSUME NEW p \in Proposals, JudgeCount(p)
      PROVE  ProposalsTypeOK'
  <2>1. CASE Leave(p)
    BY <1>0, <1>5, <2>1 DEF JudgeCount
  <2>2. CASE CountNext(p, {proposal[p].counting})
    <3>1. {proposal[p].counting} \in SUBSET Parties
      <4>1. proposal[p].counting \in proposal[p].uncounted
        BY <1>5 DEF JudgeCount, CallAt
      <4>2. proposal[p].uncounted \in SUBSET Parties
        BY <1>c DEF ProposalRecord
      <4> QED
        BY <4>1, <4>2
    <3>2. proposal' \in [Proposals -> ProposalRecord]
      BY <1>15, <2>2, <3>1
    <3> QED
      BY <1>5, <3>2 DEF JudgeCount
  <2> QED
    BY <1>5, <2>1, <2>2 DEF JudgeCount
<1>16. ASSUME NEW p \in Proposals, CountFails(p)
       PROVE  ProposalsTypeOK'
  <2>1. proposal' \in [Proposals -> ProposalRecord]
    BY <1>15, <1>16 DEF CountFails
  <2> QED
    BY <1>16, <2>1 DEF CountFails, Miss
<1>6. ASSUME NEW p \in Proposals, ReadAgain(p)
      PROVE  ProposalsTypeOK'
  <2> DEFINE read == ContractsOf(proposal[p].proposer)
             called == [proposal[p] EXCEPT !.stage = "rejudge", !.seen = read]
  <2>1. read \in SUBSET ContractIds
    BY DEF ContractsOf
  <2>2. called \in ProposalRecord
    BY ONLY <1>c, <2>1, p \in Proposals, AgainWritten
  <2>3. proposal' = [proposal EXCEPT ![p] = called]
    BY <1>6 DEF ReadAgain, ProposalRecord
  <2> QED
    BY <1>6, <2>2, <2>3 DEF ReadAgain
<1>7. ASSUME NEW p \in Proposals, JudgeAgain(p)
      PROVE  ProposalsTypeOK'
  <2>1. proposal' \in [Proposals -> ProposalRecord]
    BY <1>7 DEF JudgeAgain, ProposalRecord
  <2>2. misses' \in 0 .. MaxMisses /\ losses' \in 0 .. MaxLosses
    BY <1>7 DEF JudgeAgain, NoFault, Miss
  <2> QED
    BY <1>7, <2>1, <2>2 DEF JudgeAgain
<1>8. ASSUME NEW p \in Proposals, EnrichContract(p)
      PROVE  ProposalsTypeOK'
  <2>1. CASE Leave(p) /\ NoFault
    BY <1>0, <1>8, <2>1 DEF EnrichContract, NoFault
  <2>2. CASE Miss /\ Proceed(p, "clear") /\ UNCHANGED losses
    <3>1. misses' \in 0 .. MaxMisses
      BY <2>2 DEF Miss
    <3>2. proposal' \in [Proposals -> ProposalRecord]
      BY <1>17, <2>2
    <3> QED
      BY <1>8, <2>2, <3>1, <3>2 DEF EnrichContract
  <2> QED
    BY <1>8, <2>1, <2>2 DEF EnrichContract
<1>9. ASSUME NEW p \in Proposals, ProposalDies(p)
      PROVE  ProposalsTypeOK'
  BY <1>0, <1>9 DEF ProposalDies, Lose
<1>10. ASSUME NEW c \in ContractIds, EndContract(c)
      PROVE  ProposalsTypeOK'
  BY <1>10 DEF EndContract
<1>11. CASE UNCHANGED proposalVars
  BY <1>11 DEF proposalVars
<1>12. ASSUME NEW p \in Proposals, InsertParticipants(p)
       PROVE  ProposalsTypeOK'
  <2>1. /\ {proposal[p].made} \X Joining(p) \subseteq ContractIds \X Parties
        /\ {proposal[p].made} \X proposal[p].passed \subseteq ContractIds \X Parties
    <3>1. proposal[p].made \in ContractIds /\ proposal[p].proposer \in Parties
      BY <1>12 DEF InsertParticipants, CallAt
    <3>2. /\ proposal[p].invitees \subseteq Parties /\ proposal[p].observers \subseteq Parties
          /\ proposal[p].passed \subseteq Parties
      BY DEF ProposalRecord
    <3> QED
      BY <3>1, <3>2 DEF Joining
  <2>2. proposal' \in [Proposals -> ProposalRecord]
    BY <1>12, <1>17 DEF InsertParticipants
  <2> QED
    BY <1>12, <2>1, <2>2 DEF InsertParticipants, NoFault, Miss
<1>13. ASSUME NEW p \in Proposals, DeleteParticipants(p)
       PROVE  ProposalsTypeOK'
  <2>1. proposal' \in [Proposals -> ProposalRecord]
    BY <1>13, <1>17 DEF DeleteParticipants, AfterParticipants
  <2> QED
    BY <1>13, <2>1 DEF DeleteParticipants, Lose
<1>14. ASSUME NEW p \in Proposals, DeleteContract(p)
       PROVE  ProposalsTypeOK'
  BY <1>0, <1>14 DEF DeleteContract, Lose
<1> QED
  BY <1>1, <1>2, <1>3, <1>4, <1>5, <1>6, <1>7, <1>8, <1>9, <1>10, <1>11, <1>12,
     <1>13, <1>14, <1>16
     DEF ProposalsNext

(* A step of one call leaves the others what they have in hand. *)
LEMMA OneCallMoves ==
    ASSUME CallsInv, ProposalsTypeOK', NEW p \in Proposals, CallAt(p)',
           \A q \in Proposals \ {p} : proposal'[q] = proposal[q],
           \/ proposal'[p].made \in {NoId, proposal[p].made}
           \/ /\ proposal'[p].made \in ContractIds
              /\ contractRow[proposal'[p].made] = "absent"
              /\ contractRow'[proposal'[p].made] # "absent",
           \A c \in proposal'[p].seen : c \in proposal[p].seen \/ ~Unused(c),
           \A c \in ContractIds : contractRow'[c] = "absent" => contractRow[c] = "absent",
           \A c \in ContractIds, a \in Parties :
              c # proposal[p].made => /\ <<c, a>> \in participant' <=> <<c, a>> \in participant
                                      /\ <<c, a>> \in admitted' <=> <<c, a>> \in admitted,
           handed \subseteq handed',
           \A c \in handed' : c \in handed \/ c = proposal'[p].made,
           simultaneous => simultaneous',
           Counted(p)' => \/ Counted(p) \/ simultaneous'
                         \/ \A q \in Proposals \ {p} : ~Counted(q)
    PROVE  CallsInv'
<1>1. /\ ProposalsTypeOK /\ NoId \notin ContractIds
      /\ \A q \in Proposals : CallAt(q)
      /\ \A q, r \in Proposals :
            proposal[q].made = proposal[r].made /\ proposal[q].made # NoId => q = r
      /\ \A c \in ContractIds : contractRow[c] = "absent" => Unused(c) /\ c \notin handed
      /\ ~simultaneous => \A q, r \in Proposals : Counted(q) /\ Counted(r) => q = r
  BY ProposalsAssumption DEF CallsInv
<1>2. \A q \in Proposals : /\ proposal[q].made # NoId =>
                               /\ proposal[q].made \in ContractIds
                               /\ contractRow[proposal[q].made] # "absent"
                          /\ proposal[q].seen \subseteq ContractIds
                          /\ proposal'[q].seen \subseteq ContractIds
  BY <1>1 DEF CallAt, ProposalsTypeOK, ProposalRecord
<1>3. ASSUME NEW c \in ContractIds, Unused(c), c # proposal[p].made
      PROVE  Unused(c)'
  <2>1. \A a \in Parties : <<c, a>> \notin participant' /\ <<c, a>> \notin admitted'
    BY <1>3 DEF Unused
  <2>2. \A q \in Proposals : c \notin proposal'[q].seen
    BY <1>3 DEF Unused
  <2> QED
    BY <2>1, <2>2 DEF Unused
<1>4. \A c \in ContractIds : contractRow'[c] = "absent" => Unused(c)' /\ c \notin handed'
  <2> SUFFICES ASSUME NEW c \in ContractIds, contractRow'[c] = "absent"
               PROVE  Unused(c)' /\ c \notin handed'
    OBVIOUS
  <2>1. contractRow[c] = "absent" /\ Unused(c) /\ c \notin handed
    BY <1>1
  <2>2. c # proposal[p].made /\ c # proposal'[p].made
    BY <1>1, <1>2, <2>1
  <2> QED
    BY <1>3, <2>1, <2>2
<1>5. \A q, r \in Proposals :
         proposal'[q].made = proposal'[r].made /\ proposal'[q].made # NoId => q = r
  BY <1>1, <1>2
<1>6. ASSUME NEW q \in Proposals
      PROVE  CallAt(q)'
  <2>1. CASE q = p
    BY <2>1
  <2>2. CASE q # p
    <3>1. proposal'[q] = proposal[q] /\ CallAt(q)
      BY <1>1, <2>2
    <3>2. proposal[q].made # NoId => proposal[q].made # proposal[p].made
      BY <1>1, <2>2
    <3>3. proposal[q].stage \notin {"none", "count", "judge"} =>
             proposal[q].made \in ContractIds /\ contractRow'[proposal[q].made] # "absent"
      BY <1>1, <3>1 DEF CallAt
    <3>4. proposal[q].stage \in {"recount", "rejudge", "participants"} =>
             Unused(proposal[q].made)'
      <4> SUFFICES ASSUME proposal[q].stage \in {"recount", "rejudge", "participants"}
                   PROVE  Unused(proposal[q].made)'
        OBVIOUS
      <4>1. proposal[q].made \in ContractIds /\ Unused(proposal[q].made)
        BY <3>1 DEF CallAt
      <4>2. proposal[q].made # proposal[p].made
        BY <1>1, <3>2, <4>1
      <4>3. \A c \in ContractIds : Unused(c) /\ c # proposal[p].made => Unused(c)'
        BY <1>3
      <4>4. \A c \in ContractIds : c = proposal[q].made => Unused(c)'
        BY <4>1, <4>2, <4>3
      <4> QED
        BY <3>1, <4>1, <4>4
    <3>5. proposal[q].stage = "enrich" =>
             <<proposal[q].made, proposal[q].proposer>> \in participant'
      BY <1>1, <3>1, <3>2 DEF CallAt
    <3> QED
      BY <3>1, <3>3, <3>4, <3>5 DEF CallAt
  <2> QED
    BY <2>1, <2>2
<1>7. ~simultaneous' => \A q, r \in Proposals : Counted(q)' /\ Counted(r)' => q = r
  <2>1. \A q \in Proposals \ {p} : Counted(q)' => Counted(q)
    BY DEF Counted, Stage
  <2> QED
    BY <1>1, <2>1
<1> QED
  BY <1>4, <1>5, <1>6, <1>7 DEF CallsInv

(* Before the first call nothing has been made or read. *)
LEMMA CallsInitInv == ProposalsInit => CallsInv
<1> SUFFICES ASSUME ProposalsInit
             PROVE  CallsInv
  OBVIOUS
<1>1. \A p \in Proposals : CallAt(p)
  BY DEF ProposalsInit, CallAt, NoProposal
<1>2. \A c : Unused(c) /\ c \notin handed
  BY DEF ProposalsInit, Unused, NoProposal
<1>3. \A p \in Proposals : proposal[p].made = NoId /\ ~Counted(p)
  BY DEF ProposalsInit, NoProposal, Counted, Stage
<1> QED
  BY <1>1, <1>2, <1>3, ProposalsInitTypes DEF CallsInv

(* A call takes a number nobody has, and only its own contract from there on. *)
LEMMA CallsStepInv == CallsInv /\ [ProposalsNext]_proposalVars => CallsInv'
<1> SUFFICES ASSUME CallsInv, [ProposalsNext]_proposalVars
             PROVE  CallsInv'
  OBVIOUS
<1>0. /\ ProposalsTypeOK /\ ProposalsTypeOK' /\ NoId \notin ContractIds
      /\ \A p \in Proposals : CallAt(p) /\ proposal[p] \in ProposalRecord
  BY ProposalsStepTypes, ProposalsAssumption DEF CallsInv, ProposalsTypeOK
<1>1. ASSUME NEW p \in Proposals, NEW a \in Parties, ReadParticipations(p, a)
      PROVE  CallsInv'
  <2> DEFINE read == ContractsOf(a)
  <2>a. /\ proposal' = [proposal EXCEPT ![p].stage = "judge", ![p].counting = a,
                                        ![p].seen = read]
        /\ UNCHANGED <<contractRow, participant, handed, admitted, simultaneous>>
        /\ proposal[p].stage = "count" /\ a \in proposal[p].uncounted
    BY <1>1 DEF ReadParticipations, Stage
  <2>b. \A c \in read : ~Unused(c)
    BY DEF ContractsOf, Unused
  <2> HIDE DEF read
  <2>c. proposal \in [Proposals -> ProposalRecord] /\ proposal[p] \in ProposalRecord
    BY <1>0 DEF ProposalsTypeOK
  <2>d. /\ proposal'[p] = [proposal[p] EXCEPT !.stage = "judge", !.counting = a,
                                              !.seen = read]
        /\ \A q \in Proposals \ {p} : proposal'[q] = proposal[q]
    BY <2>a, <2>c
  <2>1. /\ proposal'[p].stage = "judge" /\ proposal'[p].counting = a
        /\ proposal'[p].seen = read /\ proposal'[p].made = proposal[p].made
        /\ proposal'[p].proposer = proposal[p].proposer
        /\ proposal'[p].uncounted = proposal[p].uncounted
    BY <2>c, <2>d DEF ProposalRecord
  <2>2. CallAt(p)'
    <3>1. proposal[p].made = NoId /\ proposal[p].proposer \in Parties
      BY <1>0, <2>a DEF CallAt
    <3> QED
      BY <2>a, <2>1, <3>1 DEF CallAt
  <2>3. \A c \in proposal'[p].seen : ~Unused(c)
    BY <2>b, <2>1
  <2>4. Counted(p)' => Counted(p)
    BY <2>a, <2>1 DEF Counted, Stage
  <2> QED
    BY <1>0, <2>a, <2>d, <2>1, <2>2, <2>3, <2>4, OneCallMoves
<1>2. ASSUME NEW p \in Proposals, NEW a \in Parties, NEW others \in SUBSET Parties,
             NEW watchers \in SUBSET Parties, Propose(p, a, others, watchers)
      PROVE  CallsInv'
  <2>1. /\ proposal' = [proposal EXCEPT ![p] =
               [NoProposal EXCEPT !.stage = "count", !.proposer = a, !.invitees = others,
                                  !.observers = watchers,
                                  !.uncounted = {b \in others \cup {a} : Limited(b)}]]
        /\ UNCHANGED <<contractRow, participant, handed, admitted>>
        /\ proposal[p].stage = "none"
        /\ simultaneous' = (simultaneous \/ \E q \in Proposals \ {p} : Counted(q))
    BY <1>2 DEF Propose, Stage
  <2>2. CallAt(p)'
    BY <1>0, <2>1 DEF CallAt, NoProposal, ProposalsTypeOK
  <2>3. /\ proposal'[p].seen = {} /\ proposal'[p].made = NoId
        /\ \A q \in Proposals \ {p} : proposal'[q] = proposal[q]
    BY <1>0, <2>1 DEF NoProposal, ProposalsTypeOK
  <2> QED
    BY <1>0, <2>1, <2>2, <2>3, OneCallMoves
<1>3. ASSUME NEW p \in Proposals, NEW a \in Parties, NEW others \in SUBSET Parties,
             NEW c \in ContractIds, HandOff(p, c, a, others)
      PROVE  CallsInv'
  <2>1. /\ proposal' = [proposal EXCEPT ![p] =
               [NoProposal EXCEPT !.stage = "participants", !.proposer = a,
                                  !.invitees = others, !.made = c]]
        /\ UNCHANGED <<participant, admitted, simultaneous>>
        /\ contractRow[c] = "absent" /\ contractRow' = [contractRow EXCEPT ![c] = "open"]
        /\ handed' = handed \cup {c}
        /\ proposal[p].stage = "none" /\ proposal[p].made = NoId
    BY <1>0, <1>3 DEF HandOff, Stage, CallAt
  <2>2. /\ proposal'[p].seen = {} /\ proposal'[p].made = c
        /\ \A q \in Proposals \ {p} : proposal'[q] = proposal[q]
    BY <1>0, <2>1 DEF NoProposal, ProposalsTypeOK
  <2>3. \A d \in ContractIds : Unused(d) => Unused(d)'
    BY <2>1, <2>2 DEF Unused
  <2>4. Unused(c)
    BY <2>1 DEF CallsInv
  <2>5. \A d \in ContractIds : d = c => Unused(d)'
    BY <2>3, <2>4
  <2>6. Unused(proposal[p].made)'
    BY <2>2, <2>5
  <2>7. CallAt(p)'
    BY <1>0, <2>1, <2>2, <2>6 DEF CallAt, NoProposal, ProposalsTypeOK
  <2>8. ~Counted(p)'
    BY <2>1, <2>2 DEF Counted
  <2>9. contractRow'[c] = "open" /\ \A d \in ContractIds \ {c} : contractRow'[d] = contractRow[d]
    BY <1>0, <2>1 DEF ProposalsTypeOK
  <2> QED
    BY <1>0, <2>1, <2>2, <2>7, <2>8, <2>9, OneCallMoves
<1>4. ASSUME NEW p \in Proposals, NEW c \in ContractIds, InsertContract(p, c)
      PROVE  CallsInv'
  <2>1. /\ UNCHANGED <<participant, handed, admitted, simultaneous>>
        /\ contractRow[c] = "absent" /\ contractRow' = [contractRow EXCEPT ![c] = "open"]
        /\ proposal[p].stage = "count" /\ proposal[p].made = NoId
        /\ proposal[p].uncounted = {} /\ proposal[p].proposer \in Parties
    BY <1>0, <1>4 DEF InsertContract, Stage, CallAt
  <2> DEFINE called == [proposal[p] EXCEPT !.stage = "recount", !.made = c]
  <2>10. proposal' = [proposal EXCEPT ![p] = called]
    <3>1. proposal \in [Proposals -> ProposalRecord]
      BY <1>0 DEF ProposalsTypeOK
    <3> QED
      BY <1>4, <3>1 DEF InsertContract, ProposalRecord
  <2>11. /\ called.stage = "recount" /\ called.made = c /\ called.uncounted = {}
         /\ called.proposer = proposal[p].proposer /\ called.seen = proposal[p].seen
    BY <1>0, <2>1 DEF ProposalRecord
  <2> HIDE DEF called
  <2>12. proposal'[p] = called
    BY <1>0, <2>10 DEF ProposalsTypeOK
  <2>2. /\ proposal'[p].seen = proposal[p].seen /\ proposal'[p].made = c
        /\ \A q \in Proposals \ {p} : proposal'[q] = proposal[q]
    BY <1>0, <2>10, <2>11, <2>12 DEF ProposalsTypeOK
  <2>3. \A d \in ContractIds : Unused(d) => Unused(d)'
    BY <2>1, <2>2 DEF Unused
  <2>4. Unused(c)
    BY <2>1 DEF CallsInv
  <2>5. \A d \in ContractIds : d = c => Unused(d)'
    BY <2>3, <2>4
  <2>6. Unused(proposal[p].made)'
    BY <2>2, <2>5
  <2>7. CallAt(p)'
    <3>1. contractRow'[c] = "open"
      BY <1>0, <2>1 DEF ProposalsTypeOK
    <3> QED
      BY <2>1, <2>6, <2>11, <2>12, <3>1 DEF CallAt
  <2>8. Counted(p)
    BY <1>0, <2>1 DEF Counted, Stage, ProposalsTypeOK
  <2>9. contractRow'[c] = "open" /\ \A d \in ContractIds \ {c} : contractRow'[d] = contractRow[d]
    BY <1>0, <2>1 DEF ProposalsTypeOK
  <2> QED
    BY <1>0, <2>1, <2>2, <2>7, <2>8, <2>9, OneCallMoves
<1>5. ASSUME NEW p \in Proposals, Leave(p),
             \A c \in ContractIds : contractRow'[c] = "absent" => contractRow[c] = "absent",
             \A c \in ContractIds, a \in Parties : c # proposal[p].made =>
                (<<c, a>> \in participant' <=> <<c, a>> \in participant),
             UNCHANGED <<handed, admitted, simultaneous>>
      PROVE  CallsInv'
  <2>1. proposal'[p] = NoProposal
        /\ \A q \in Proposals \ {p} : proposal'[q] = proposal[q]
    BY <1>0, <1>5 DEF Leave, ProposalsTypeOK
  <2>2. CallAt(p)'
    BY <2>1 DEF CallAt, NoProposal
  <2>3. ~Counted(p)' /\ proposal'[p].made = NoId /\ proposal'[p].seen = {}
    BY <2>1 DEF Counted, Stage, NoProposal
  <2> QED
    BY <1>0, <1>5, <2>1, <2>2, <2>3, OneCallMoves
<1>18. ASSUME NEW p \in Proposals, NEW passing, CountNext(p, passing),
              proposal[p].stage = "judge",
              UNCHANGED <<contractRow, participant, handed, admitted, simultaneous>>
       PROVE  CallsInv'
  <2> DEFINE left == proposal[p].uncounted \ {proposal[p].counting}
             within == proposal[p].passed \cup passing
  <2>a. proposal' = [proposal EXCEPT ![p].stage = "count", ![p].seen = {},
                                     ![p].counting = NoId, ![p].uncounted = left,
                                     ![p].passed = within]
    BY <1>18 DEF CountNext
  <2> HIDE DEF left, within
  <2>b. proposal \in [Proposals -> ProposalRecord] /\ proposal[p] \in ProposalRecord
    BY <1>0 DEF ProposalsTypeOK
  <2>c. proposal[p].made = NoId /\ proposal[p].proposer \in Parties
    BY <1>0, <1>18 DEF CallAt
  <2>1. /\ proposal'[p] = [proposal[p] EXCEPT !.stage = "count", !.seen = {},
                                              !.counting = NoId, !.uncounted = left,
                                              !.passed = within]
        /\ \A q \in Proposals \ {p} : proposal'[q] = proposal[q]
    BY <2>a, <2>b
  <2>2. /\ proposal'[p].seen = {} /\ proposal'[p].made = proposal[p].made
        /\ proposal'[p].stage = "count"
        /\ proposal'[p].proposer = proposal[p].proposer
    BY <2>b, <2>1 DEF ProposalRecord
  <2>3. CallAt(p)'
    BY <2>c, <2>2 DEF CallAt
  <2>4. Counted(p)
    BY <1>0, <1>18, <2>c DEF Counted, Stage, ProposalsTypeOK
  <2> QED
    BY <1>0, <1>18, <2>1, <2>2, <2>3, <2>4, OneCallMoves
<1>6. ASSUME NEW p \in Proposals, JudgeCount(p)
      PROVE  CallsInv'
  <2>1. /\ proposal[p].stage = "judge"
        /\ UNCHANGED <<contractRow, participant, handed, admitted, simultaneous>>
    BY <1>6 DEF JudgeCount, Stage
  <2>2. CASE Leave(p)
    BY <1>5, <2>1, <2>2
  <2>3. CASE CountNext(p, {proposal[p].counting})
    BY <1>18, <2>1, <2>3
  <2> QED
    BY <1>6, <2>2, <2>3 DEF JudgeCount
<1>19. ASSUME NEW p \in Proposals, CountFails(p)
       PROVE  CallsInv'
  BY <1>18, <1>19 DEF CountFails, Stage
<1>7. ASSUME NEW p \in Proposals, ReadAgain(p)
      PROVE  CallsInv'
  <2> DEFINE read == ContractsOf(proposal[p].proposer)
  <2>1. /\ proposal' = [proposal EXCEPT ![p] = [proposal[p] EXCEPT
               !.stage = "rejudge", !.seen = read]]
        /\ UNCHANGED <<contractRow, participant, handed, admitted, simultaneous>>
        /\ proposal[p].stage = "recount"
    <3>1. /\ proposal' = [proposal EXCEPT ![p].stage = "rejudge", ![p].seen = read]
          /\ UNCHANGED <<contractRow, participant, handed, admitted, simultaneous>>
          /\ proposal[p].stage = "recount"
      BY <1>7 DEF ReadAgain, Stage
    <3>2. proposal \in [Proposals -> ProposalRecord]
      BY <1>0 DEF ProposalsTypeOK
    <3> HIDE DEF read
    <3> QED
      BY <3>1, <3>2 DEF ProposalRecord
  <2>2. /\ proposal'[p].seen = read /\ proposal'[p].made = proposal[p].made
        /\ \A q \in Proposals \ {p} : proposal'[q] = proposal[q]
    BY <1>0, <2>1 DEF ProposalRecord, ProposalsTypeOK
  <2>3. \A c \in proposal'[p].seen : ~Unused(c)
    BY <1>0, <2>1, <2>2 DEF ContractsOf, Unused, CallAt
  <2>4. \A d \in ContractIds : Unused(d) => Unused(d)'
    <3>1. \A q \in Proposals, d \in ContractIds : Unused(d) => d \notin proposal'[q].seen
      BY <2>2, <2>3 DEF Unused
    <3> QED
      BY <2>1, <3>1 DEF Unused
  <2>5. \A d \in ContractIds : d = proposal[p].made => Unused(d)'
    BY <1>0, <2>1, <2>4 DEF CallAt
  <2>6. Unused(proposal[p].made)'
    BY <1>0, <2>1, <2>2, <2>5 DEF CallAt
  <2>7. CallAt(p)'
    <3> HIDE DEF read
    <3>1. proposal \in [Proposals -> ProposalRecord] /\ proposal[p] \in ProposalRecord
      BY <1>0 DEF ProposalsTypeOK
    <3>2. /\ proposal'[p].stage = "rejudge"
          /\ proposal'[p].proposer = proposal[p].proposer
          /\ proposal'[p].uncounted = proposal[p].uncounted
      BY <2>1, <3>1 DEF ProposalRecord
    <3>3. /\ proposal[p].proposer \in Parties /\ proposal[p].uncounted = {}
          /\ proposal[p].made \in ContractIds /\ contractRow[proposal[p].made] # "absent"
      BY <1>0, <2>1 DEF CallAt
    <3> QED
      BY <2>1, <2>2, <2>6, <3>2, <3>3 DEF CallAt
  <2>8. Counted(p)' => Counted(p)
    BY <1>0, <2>1, <2>2 DEF Counted, Stage
  <2> QED
    BY <1>0, <2>1, <2>2, <2>3, <2>7, <2>8, OneCallMoves
<1>8. ASSUME NEW p \in Proposals, JudgeAgain(p)
      PROVE  CallsInv'
  <2>9. PICK next \in {"remove", "participants"} :
            proposal' = [proposal EXCEPT ![p].seen = {}, ![p].stage = next]
    BY <1>8 DEF JudgeAgain
  <2>1. proposal' = [proposal EXCEPT ![p] = [proposal[p] EXCEPT
                       !.seen = {}, !.stage = next]]
    <3>1. proposal \in [Proposals -> ProposalRecord]
      BY <1>0 DEF ProposalsTypeOK
    <3> QED
      BY <2>9, <3>1 DEF ProposalRecord
  <2>2. /\ UNCHANGED <<contractRow, participant, handed, admitted, simultaneous>>
        /\ proposal[p].stage = "rejudge"
    BY <1>8 DEF JudgeAgain, Stage
  <2>3. /\ proposal'[p].seen = {} /\ proposal'[p].made = proposal[p].made
        /\ \A q \in Proposals \ {p} : proposal'[q] = proposal[q]
    BY <1>0, <2>1 DEF ProposalRecord, ProposalsTypeOK
  <2>4. \A d \in ContractIds : Unused(d) => Unused(d)'
    BY <2>2, <2>3 DEF Unused
  <2>5. \A d \in ContractIds : d = proposal[p].made => Unused(d)'
    BY <1>0, <2>2, <2>4 DEF CallAt
  <2>6. Unused(proposal[p].made)'
    BY <1>0, <2>2, <2>3, <2>5 DEF CallAt
  <2>7. CallAt(p)'
    <3>1. proposal \in [Proposals -> ProposalRecord] /\ proposal[p] \in ProposalRecord
      BY <1>0 DEF ProposalsTypeOK
    <3>2. /\ proposal'[p].stage = next
          /\ proposal'[p].proposer = proposal[p].proposer
          /\ proposal'[p].uncounted = proposal[p].uncounted
      BY <2>1, <3>1 DEF ProposalRecord
    <3>3. /\ proposal[p].proposer \in Parties /\ proposal[p].uncounted = {}
          /\ proposal[p].made \in ContractIds /\ contractRow[proposal[p].made] # "absent"
      BY <1>0, <2>2 DEF CallAt
    <3> QED
      BY <2>2, <2>3, <2>6, <2>9, <3>2, <3>3 DEF CallAt
  <2>8. Counted(p)' => Counted(p)
    BY <1>0, <2>2, <2>3 DEF Counted, Stage
  <2> QED
    BY <1>0, <2>2, <2>3, <2>7, <2>8, OneCallMoves
<1>9. ASSUME NEW p \in Proposals, NEW next \in {"enrich", "clear", "remove"},
             Proceed(p, next),
             proposal[p].stage \in {"participants", "enrich", "clear"},
             next = "enrich" => <<proposal[p].made, proposal[p].proposer>> \in participant',
             \A c \in ContractIds, a \in Parties : c # proposal[p].made =>
                /\ <<c, a>> \in participant' <=> <<c, a>> \in participant
                /\ <<c, a>> \in admitted' <=> <<c, a>> \in admitted,
             UNCHANGED <<contractRow, handed, simultaneous>>
      PROVE  CallsInv'
  <2>1. proposal' = [proposal EXCEPT ![p] = [proposal[p] EXCEPT !.stage = next]]
    BY <1>0, <1>9 DEF Proceed, ProposalsTypeOK, ProposalRecord
  <2>2. /\ proposal'[p].seen = proposal[p].seen /\ proposal'[p].made = proposal[p].made
        /\ proposal'[p].stage = next
        /\ \A q \in Proposals \ {p} : proposal'[q] = proposal[q]
    BY <1>0, <2>1 DEF ProposalRecord, ProposalsTypeOK
  <2>3. CallAt(p)'
    BY <1>0, <1>9, <2>1 DEF CallAt, ProposalRecord, ProposalsTypeOK
  <2>4. Counted(p)' => Counted(p)
    BY <1>0, <1>9, <2>2 DEF Counted, Stage
  <2> QED
    BY <1>0, <1>9, <2>2, <2>3, <2>4, OneCallMoves
<1>10. ASSUME NEW p \in Proposals, InsertParticipants(p)
       PROVE  CallsInv'
  <2>1. proposal[p].proposer \in Parties /\ proposal[p].made \in ContractIds
    BY <1>0, <1>10 DEF InsertParticipants, Stage, CallAt
  <2>2. CASE /\ participant' = participant \cup ({proposal[p].made} \X Joining(p))
             /\ admitted' = admitted \cup ({proposal[p].made} \X proposal[p].passed)
             /\ Proceed(p, "enrich")
    BY <1>9, <1>10, <2>1, <2>2 DEF InsertParticipants, Stage, Joining
  <2>3. CASE Proceed(p, "remove") /\ UNCHANGED <<participant, admitted>>
    BY <1>9, <1>10, <2>3 DEF InsertParticipants, Stage
  <2> QED
    BY <1>10, <2>2, <2>3 DEF InsertParticipants
<1>11. ASSUME NEW p \in Proposals, EnrichContract(p)
       PROVE  CallsInv'
  <2>1. CASE Leave(p)
    BY <1>5, <1>11, <2>1 DEF EnrichContract
  <2>2. CASE Proceed(p, "clear")
    BY <1>9, <1>11, <2>2 DEF EnrichContract, Stage
  <2> QED
    BY <1>11, <2>1, <2>2 DEF EnrichContract
<1>12. ASSUME NEW p \in Proposals, DeleteParticipants(p)
       PROVE  CallsInv'
  <2>1. \A c \in ContractIds, a \in Parties : c # proposal[p].made =>
           (<<c, a>> \in participant' <=> <<c, a>> \in participant)
    BY <1>12 DEF DeleteParticipants
  <2> QED
    BY <1>9, <1>12, <2>1 DEF DeleteParticipants, AfterParticipants, Stage
<1>13. ASSUME NEW p \in Proposals, DeleteContract(p)
       PROVE  CallsInv'
  <2>1. \A c \in ContractIds, a \in Parties : c # proposal[p].made =>
           (<<c, a>> \in participant' <=> <<c, a>> \in participant)
    BY <1>13 DEF DeleteContract
  <2>2. \A c \in ContractIds : contractRow'[c] = "absent" => contractRow[c] = "absent"
    BY <1>0, <1>13 DEF DeleteContract, ProposalsTypeOK
  <2> QED
    BY <1>5, <1>13, <2>1, <2>2 DEF DeleteContract
<1>14. ASSUME NEW p \in Proposals, ProposalDies(p)
       PROVE  CallsInv'
  BY <1>5, <1>14 DEF ProposalDies
<1>15. ASSUME UNCHANGED <<participant, handed, admitted, proposal, simultaneous>>,
              \A c \in ContractIds : contractRow'[c] = "absent" <=> contractRow[c] = "absent"
       PROVE  CallsInv'
  <2>1. \A c : Unused(c)' <=> Unused(c)
    BY <1>15 DEF Unused
  <2>2. \A p \in Proposals : CallAt(p)'
    BY <1>0, <1>15, <2>1 DEF CallAt
  <2>3. \A p \in Proposals : Counted(p)' <=> Counted(p)
    BY <1>15 DEF Counted, Stage
  <2> QED
    BY <1>0, <1>15, <2>1, <2>2, <2>3 DEF CallsInv
<1>16. ASSUME NEW c \in ContractIds, EndContract(c)
       PROVE  CallsInv'
  <2>1. \A d \in ContractIds : contractRow'[d] = "absent" <=> contractRow[d] = "absent"
    BY <1>0, <1>16 DEF EndContract, ProposalsTypeOK
  <2> QED
    BY <1>15, <1>16, <2>1 DEF EndContract
<1>17. CASE UNCHANGED proposalVars
  BY <1>15, <1>17 DEF proposalVars
<1> QED
  BY <1>1, <1>2, <1>3, <1>4, <1>6, <1>7, <1>8, <1>10, <1>11, <1>12, <1>13, <1>14,
     <1>16, <1>17, <1>19 DEF ProposalsNext

(* The rows and what every call has in hand keep their types. *)
THEOREM ProposalsTypes == ProposalsSpec => []ProposalsTypeOK
<1>1. CallsInv => ProposalsTypeOK
  BY DEF CallsInv
<1> QED
  BY <1>1, CallsInitInv, CallsStepInv, PTL DEF ProposalsSpec

(* Two calls never have the same contract in hand, one that is not there has left
   no trace, and the participants of one are entered before it is enriched. *)
THEOREM CallsKeepApart == ProposalsSpec => []CallsInv
  BY CallsInitInv, CallsStepInv, PTL DEF ProposalsSpec

-----------------------------------------------------------------------------
(* Contracts without participants *)

(* Once a call has died, or a statement of a rollback has failed, none is claimed. *)
LEMMA NoneOrphaned ==
    ASSUME NoOrphans, losses' = 0 => losses = 0,
           \A q \in Proposals : proposal[q].made \in ContractIds =>
              \/ proposal'[q].made = proposal[q].made
              \/ contractRow'[proposal[q].made] # "open"
              \/ \E a \in Parties : <<proposal[q].made, a>> \in participant',
           \A c \in ContractIds : contractRow'[c] = "open" =>
              \/ contractRow[c] = "open"
              \/ \E q \in Proposals : proposal'[q].made = c,
           \A c \in ContractIds, a \in Parties : <<c, a>> \in participant =>
              \/ <<c, a>> \in participant'
              \/ contractRow'[c] # "open"
              \/ \E q \in Proposals : proposal'[q].made = c
    PROVE  NoOrphans'
<1> SUFFICES ASSUME losses' = 0, NEW c \in ContractIds, contractRow'[c] = "open",
                    \A a \in Parties : <<c, a>> \notin participant',
                    \A p \in Proposals : proposal'[p].made # c
             PROVE  FALSE
  BY DEF NoOrphans, OpenContracts, ContractsOf
<1>1. contractRow[c] = "open" /\ \A a \in Parties : <<c, a>> \notin participant
  OBVIOUS
<1>2. PICK q \in Proposals : proposal[q].made = c
  BY <1>1 DEF NoOrphans, OpenContracts, ContractsOf
<1> QED
  BY <1>2

(* No contract is open before the first call. *)
LEMMA OrphansInit == ProposalsInit => NoOrphans
  BY DEF ProposalsInit, NoOrphans, OpenContracts

(* A call leaves its contract with its proposer, or closed, or has lost something. *)
LEMMA OrphansStep ==
    CallsInv /\ NoOrphans /\ [ProposalsNext]_proposalVars => NoOrphans'
<1> SUFFICES ASSUME CallsInv, NoOrphans, [ProposalsNext]_proposalVars
             PROVE  NoOrphans'
  OBVIOUS
<1>0. /\ ProposalsTypeOK /\ NoId \notin ContractIds
      /\ proposal \in [Proposals -> ProposalRecord]
      /\ \A p \in Proposals : CallAt(p)
  BY ProposalsAssumption DEF CallsInv, ProposalsTypeOK
<1>1. ASSUME Lose
      PROVE  NoOrphans'
  <2>1. losses' # 0
    BY <1>0, <1>1 DEF Lose, ProposalsTypeOK
  <2> QED
    BY <2>1 DEF NoOrphans
<1>2. ASSUME NEW p \in Proposals,
             \A q \in Proposals \ {p} : proposal'[q] = proposal[q],
             proposal'[p].made = proposal[p].made \/ proposal[p].made = NoId,
             \A c \in ContractIds : contractRow'[c] = "open" =>
                contractRow[c] = "open" \/ proposal'[p].made = c,
             \A c \in ContractIds, a \in Parties : <<c, a>> \in participant =>
                <<c, a>> \in participant' \/ proposal'[p].made = c,
             UNCHANGED losses
      PROVE  NoOrphans'
  <2>1. \A q \in Proposals : proposal[q].made \in ContractIds =>
           proposal'[q].made = proposal[q].made
    BY <1>0, <1>2
  <2> QED
    BY <1>2, <2>1, NoneOrphaned
<1>3. ASSUME NEW p \in Proposals, NEW a \in Parties, ReadParticipations(p, a)
      PROVE  NoOrphans'
  <2>1. proposal'[p].made = proposal[p].made
        /\ \A q \in Proposals \ {p} : proposal'[q] = proposal[q]
    BY <1>0, <1>3 DEF ReadParticipations, ProposalRecord
  <2> QED
    BY <1>2, <1>3, <2>1 DEF ReadParticipations
<1>4. ASSUME NEW p \in Proposals, NEW a \in Parties, NEW others \in SUBSET Parties,
             NEW watchers \in SUBSET Parties, Propose(p, a, others, watchers)
      PROVE  NoOrphans'
  <2>1. proposal[p].made = NoId
        /\ \A q \in Proposals \ {p} : proposal'[q] = proposal[q]
    BY <1>0, <1>4 DEF Propose, Stage, CallAt
  <2> QED
    BY <1>2, <1>4, <2>1 DEF Propose
<1>5. ASSUME NEW p \in Proposals, NEW a \in Parties, NEW others \in SUBSET Parties,
             NEW c \in ContractIds, HandOff(p, c, a, others)
      PROVE  NoOrphans'
  <2>1. proposal[p].made = NoId /\ proposal'[p].made = c
        /\ \A q \in Proposals \ {p} : proposal'[q] = proposal[q]
    BY <1>0, <1>5 DEF HandOff, Stage, CallAt, NoProposal
  <2>2. \A d \in ContractIds \ {c} : contractRow'[d] = contractRow[d]
    BY <1>0, <1>5 DEF HandOff, ProposalsTypeOK
  <2> QED
    BY <1>2, <1>5, <2>1, <2>2 DEF HandOff
<1>6. ASSUME NEW p \in Proposals, NEW c \in ContractIds, InsertContract(p, c)
      PROVE  NoOrphans'
  <2>1. proposal[p].made = NoId
    BY <1>0, <1>6 DEF InsertContract, Stage, CallAt
  <2>2. proposal'[p].made = c
        /\ \A q \in Proposals \ {p} : proposal'[q] = proposal[q]
    BY <1>0, <1>6 DEF InsertContract, ProposalRecord
  <2>3. \A d \in ContractIds \ {c} : contractRow'[d] = contractRow[d]
    BY <1>0, <1>6 DEF InsertContract, ProposalsTypeOK
  <2> QED
    BY <1>2, <1>6, <2>1, <2>2, <2>3 DEF InsertContract
<1>7. ASSUME NEW p \in Proposals, JudgeCount(p) \/ CountFails(p)
      PROVE  NoOrphans'
  <2>1. proposal[p].made = NoId
    BY <1>0, <1>7 DEF JudgeCount, CountFails, Stage, CallAt
  <2>2. \A q \in Proposals \ {p} : proposal'[q] = proposal[q]
    BY <1>0, <1>7 DEF JudgeCount, CountFails, CountNext, Leave
  <2>3. UNCHANGED <<contractRow, participant, losses>>
    BY <1>7 DEF JudgeCount, CountFails
  <2> QED
    BY <1>2, <2>1, <2>2, <2>3
<1>8. ASSUME NEW p \in Proposals, ReadAgain(p)
      PROVE  NoOrphans'
  <2>1. proposal'[p].made = proposal[p].made
        /\ \A q \in Proposals \ {p} : proposal'[q] = proposal[q]
    BY <1>0, <1>8 DEF ReadAgain, ProposalRecord
  <2> QED
    BY <1>2, <1>8, <2>1 DEF ReadAgain
<1>9. ASSUME NEW p \in Proposals, JudgeAgain(p)
      PROVE  NoOrphans'
  <2>1. proposal'[p].made = proposal[p].made
        /\ \A q \in Proposals \ {p} : proposal'[q] = proposal[q]
    BY <1>0, <1>9 DEF JudgeAgain, ProposalRecord
  <2>2. UNCHANGED <<contractRow, participant, losses>>
    BY <1>9 DEF JudgeAgain, NoFault
  <2> QED
    BY <1>2, <2>1, <2>2
<1>10. ASSUME NEW p \in Proposals, NEW next, Proceed(p, next)
       PROVE  proposal'[p].made = proposal[p].made
              /\ \A q \in Proposals \ {p} : proposal'[q] = proposal[q]
  BY <1>0, <1>10 DEF Proceed, ProposalRecord
<1>11. ASSUME NEW p \in Proposals, InsertParticipants(p)
       PROVE  NoOrphans'
  <2>1. proposal'[p].made = proposal[p].made
        /\ \A q \in Proposals \ {p} : proposal'[q] = proposal[q]
    BY <1>10, <1>11 DEF InsertParticipants
  <2>2. participant \subseteq participant' /\ UNCHANGED <<contractRow, losses>>
    BY <1>11 DEF InsertParticipants, NoFault
  <2> QED
    BY <1>2, <2>1, <2>2
<1>12. ASSUME NEW p \in Proposals, EnrichContract(p)
       PROVE  NoOrphans'
  <2>1. CASE Leave(p)
    <3>1. /\ UNCHANGED <<contractRow, participant, losses>>
          /\ <<proposal[p].made, proposal[p].proposer>> \in participant
          /\ proposal[p].proposer \in Parties
      BY <1>0, <1>12 DEF EnrichContract, Stage, CallAt, NoFault
    <3>2. \A q \in Proposals \ {p} : proposal'[q] = proposal[q]
      BY <1>0, <2>1 DEF Leave
    <3> QED
      BY <3>1, <3>2, NoneOrphaned
  <2>2. CASE Proceed(p, "clear") /\ UNCHANGED losses
    BY <1>2, <1>10, <1>12, <2>2 DEF EnrichContract
  <2> QED
    BY <1>12, <2>1, <2>2 DEF EnrichContract
<1>13. ASSUME NEW p \in Proposals, DeleteParticipants(p)
       PROVE  NoOrphans'
  <2>1. CASE Lose
    BY <1>1, <2>1
  <2>2. CASE /\ participant' = participant \ ({proposal[p].made} \X Parties)
             /\ UNCHANGED losses
    <3>1. proposal'[p].made = proposal[p].made
          /\ \A q \in Proposals \ {p} : proposal'[q] = proposal[q]
      BY <1>10, <1>13 DEF DeleteParticipants, AfterParticipants
    <3>2. \A c \in ContractIds, a \in Parties : <<c, a>> \in participant =>
             <<c, a>> \in participant' \/ proposal'[p].made = c
      BY <2>2, <3>1
    <3> QED
      BY <1>2, <1>13, <2>2, <3>1, <3>2 DEF DeleteParticipants
  <2> QED
    BY <1>13, <2>1, <2>2 DEF DeleteParticipants
<1>14. ASSUME NEW p \in Proposals, DeleteContract(p)
       PROVE  NoOrphans'
  <2>1. CASE Lose
    BY <1>1, <2>1
  <2>2. CASE /\ contractRow' = [contractRow EXCEPT ![proposal[p].made] = "deleted"]
             /\ participant' = participant \ ({proposal[p].made} \X Parties)
             /\ UNCHANGED losses
    <3>1. proposal[p].made \in ContractIds
      BY <1>0, <1>14 DEF DeleteContract, Stage, CallAt
    <3>2. contractRow'[proposal[p].made] = "deleted"
          /\ \A c \in ContractIds \ {proposal[p].made} : contractRow'[c] = contractRow[c]
      BY <1>0, <2>2, <3>1 DEF ProposalsTypeOK
    <3>3. \A q \in Proposals \ {p} : proposal'[q] = proposal[q]
      BY <1>0, <1>14 DEF DeleteContract, Leave
    <3>4. \A c \in ContractIds, a \in Parties : <<c, a>> \in participant =>
             <<c, a>> \in participant' \/ contractRow'[c] # "open"
      BY <2>2, <3>2
    <3>5. \A c \in ContractIds : contractRow'[c] = "open" => contractRow[c] = "open"
      BY <3>2
    <3>6. \A q \in Proposals : proposal[q].made \in ContractIds =>
             \/ proposal'[q].made = proposal[q].made
             \/ contractRow'[proposal[q].made] # "open"
      BY <3>2, <3>3
    <3> QED
      BY <2>2, <3>4, <3>5, <3>6, NoneOrphaned
  <2> QED
    BY <1>14, <2>1, <2>2 DEF DeleteContract
<1>15. ASSUME NEW p \in Proposals, ProposalDies(p)
       PROVE  NoOrphans'
  BY <1>1, <1>15 DEF ProposalDies
<1>16. ASSUME NEW c \in ContractIds, EndContract(c)
       PROVE  NoOrphans'
  <2>1. \A d \in ContractIds : contractRow'[d] = "open" => contractRow[d] = "open"
    BY <1>0, <1>16 DEF EndContract, ProposalsTypeOK
  <2> QED
    BY <1>16, <2>1, NoneOrphaned DEF EndContract
<1>17. CASE UNCHANGED proposalVars
  BY <1>17 DEF proposalVars, NoOrphans, OpenContracts, ContractsOf
<1> QED
  BY <1>3, <1>4, <1>5, <1>6, <1>7, <1>8, <1>9, <1>11, <1>12, <1>13, <1>14, <1>15,
     <1>16, <1>17 DEF ProposalsNext

(* A contract nobody takes part in is in the hands of the call that made it, as
   long as no call dies and no statement of a rollback fails. *)
THEOREM NobodyIsLeftOut == ProposalsSpec => []NoOrphans
  BY CallsInitInv, CallsStepInv, OrphansInit, OrphansStep, PTL DEF ProposalsSpec

-----------------------------------------------------------------------------
(* What leaves room for the calls that are under way *)

(* The readers that have seen no more of what is open than p has. *)
Behind(open, readers, seen, p) ==
    {q \in readers : open \cap seen[q] \subseteq seen[p]}

(* Of one agent: the contracts it has open, the calls that were let through its
   count and have not entered their contract yet, the calls that have read its
   contracts and are still to judge, and what each of those has seen.  One that
   judges last of those behind it still leaves all of them within the limit. *)
Roomy(open, holders, readers, seen, limit, width) ==
    /\ Cardinality(open) + Cardinality(holders) <= limit - 1 + width
    /\ \A p \in readers :
          LET waiting == Cardinality(holders \cup Behind(open, readers, seen, p))
          IN  \/ Cardinality(open \ seen[p]) + waiting <= width
              \/ Cardinality(open) + waiting <= limit - 1 + width
    /\ \A p, q \in readers :
          open \cap seen[p] \subseteq seen[q] \/ open \cap seen[q] \subseteq seen[p]

(* What there are fewer of counts for less. *)
LEMMA NoMoreThan ==
    ASSUME NEW T, IsFiniteSet(T), NEW S, S \subseteq T
    PROVE  /\ IsFiniteSet(S)
           /\ Cardinality(S) \in Nat /\ Cardinality(T) \in Nat
           /\ Cardinality(S) <= Cardinality(T)
  BY FS_Subset, FS_CardinalityType

(* One element more makes a set larger by one at most. *)
LEMMA OneMore ==
    ASSUME NEW S, IsFiniteSet(S), NEW x
    PROVE  /\ IsFiniteSet(S \cup {x})
           /\ Cardinality(S) \in Nat /\ Cardinality(S \cup {x}) \in Nat
           /\ Cardinality(S \cup {x}) <= Cardinality(S) + 1
<1>1. IsFiniteSet(S \cup {x}) /\ Cardinality(S \cup {x}) \in Nat /\ Cardinality(S) \in Nat
  BY FS_AddElement, FS_CardinalityType
<1>2. Cardinality(S \cup {x}) = IF x \in S THEN Cardinality(S) ELSE Cardinality(S) + 1
  BY FS_AddElement
<1> QED
  BY <1>1, <1>2

(* One element less makes it smaller by exactly one. *)
LEMMA OneLess ==
    ASSUME NEW S, IsFiniteSet(S), NEW x \in S
    PROVE  /\ IsFiniteSet(S \ {x})
           /\ Cardinality(S) \in Nat /\ Cardinality(S \ {x}) \in Nat
           /\ Cardinality(S \ {x}) = Cardinality(S) - 1
<1>1. IsFiniteSet(S \ {x}) /\ Cardinality(S \ {x}) \in Nat /\ Cardinality(S) \in Nat
  BY FS_RemoveElement, FS_CardinalityType
<1>2. Cardinality(S \ {x}) = IF x \in S THEN Cardinality(S) - 1 ELSE Cardinality(S)
  BY FS_RemoveElement
<1> QED
  BY <1>1, <1>2

(* What is in a set, and what is not, add up. *)
LEMMA InAndOut ==
    ASSUME NEW S, IsFiniteSet(S), NEW T
    PROVE  /\ Cardinality(S \cap T) \in Nat /\ Cardinality(S \ T) \in Nat
           /\ Cardinality(S) = Cardinality(S \cap T) + Cardinality(S \ T)
<1>1. Cardinality(S) \in Nat /\ Cardinality(S \cap T) \in Nat /\ Cardinality(S \ T) \in Nat
  BY NoMoreThan
<1>2. Cardinality(S \ T) = Cardinality(S) - Cardinality(S \cap T)
  BY FS_Difference
<1> QED
  BY <1>1, <1>2

(* Who is behind a call is reading. *)
LEMMA BehindIsReading ==
    ASSUME NEW open, NEW readers, NEW seen, NEW p
    PROVE  Behind(open, readers, seen, p) \subseteq readers
  BY DEF Behind

(* Fewer calls, or more of them allowed. *)
LEMMA RoomForFewer ==
    ASSUME NEW open, IsFiniteSet(open), NEW holders, IsFiniteSet(holders),
           NEW readers, IsFiniteSet(readers), NEW seen, NEW limit \in Nat,
           NEW width \in Nat, Roomy(open, holders, readers, seen, limit, width),
           NEW fewerHolders \in SUBSET holders, NEW fewerReaders \in SUBSET readers,
           NEW seenNow, \A p \in fewerReaders : seenNow[p] = seen[p],
           NEW wider \in Nat, width <= wider
    PROVE  Roomy(open, fewerHolders, fewerReaders, seenNow, limit, wider)
<1>1. Cardinality(open) \in Nat
  BY FS_CardinalityType
<1>2. Cardinality(open) + Cardinality(fewerHolders) <= limit - 1 + wider
  <2>1. Cardinality(fewerHolders) <= Cardinality(holders)
        /\ Cardinality(fewerHolders) \in Nat /\ Cardinality(holders) \in Nat
    BY NoMoreThan
  <2> QED
    BY <1>1, <2>1 DEF Roomy
<1>3. ASSUME NEW p \in fewerReaders
      PROVE  LET waiting == Cardinality(fewerHolders \cup
                                        Behind(open, fewerReaders, seenNow, p))
             IN  \/ Cardinality(open \ seenNow[p]) + waiting <= wider
                 \/ Cardinality(open) + waiting <= limit - 1 + wider
  <2> DEFINE before == holders \cup Behind(open, readers, seen, p)
             after == fewerHolders \cup Behind(open, fewerReaders, seenNow, p)
  <2>1. after \subseteq before
    BY <1>3 DEF Behind
  <2>2. IsFiniteSet(before)
    BY BehindIsReading, NoMoreThan, FS_Union
  <2> HIDE DEF before, after
  <2>3. Cardinality(after) \in Nat /\ Cardinality(before) \in Nat
        /\ Cardinality(after) <= Cardinality(before)
    BY <2>1, <2>2, NoMoreThan
  <2>4. Cardinality(open \ seen[p]) \in Nat /\ seenNow[p] = seen[p]
    BY InAndOut
  <2>5. \/ Cardinality(open \ seen[p]) + Cardinality(before) <= width
        \/ Cardinality(open) + Cardinality(before) <= limit - 1 + width
    BY DEF Roomy, before
  <2>6. \/ Cardinality(open \ seenNow[p]) + Cardinality(after) <= wider
        \/ Cardinality(open) + Cardinality(after) <= limit - 1 + wider
    BY <1>1, <2>3, <2>4, <2>5
  <2> QED
    BY <2>6 DEF after
<1>4. \A p, q \in fewerReaders : \/ open \cap seenNow[p] \subseteq seenNow[q]
                                 \/ open \cap seenNow[q] \subseteq seenNow[p]
  BY DEF Roomy
<1> QED
  BY <1>2, <1>3, <1>4 DEF Roomy

(* A contract is no longer open: what was behind one that has not seen it may no
   longer be, and then those that have seen it are next. *)
LEMMA RoomForOneLess ==
    ASSUME NEW open, IsFiniteSet(open), NEW holders, IsFiniteSet(holders),
           NEW readers, IsFiniteSet(readers), NEW seen, NEW limit \in Nat,
           NEW width \in Nat, Roomy(open, holders, readers, seen, limit, width),
           NEW c
    PROVE  Roomy(open \ {c}, holders, readers, seen, limit, width)
<1> DEFINE left == open \ {c}
           before(p) == holders \cup Behind(open, readers, seen, p)
           after(p) == holders \cup Behind(left, readers, seen, p)
<1>1. IsFiniteSet(left) /\ Cardinality(left) \in Nat /\ Cardinality(open) \in Nat
      /\ Cardinality(left) <= Cardinality(open)
  BY NoMoreThan
<1>2. Cardinality(holders) \in Nat
  BY FS_CardinalityType
<1>3. Cardinality(left) + Cardinality(holders) <= limit - 1 + width
  BY <1>1, <1>2 DEF Roomy
<1>4. \A p, q \in readers : left \cap seen[p] \subseteq seen[q] \/ left \cap seen[q] \subseteq seen[p]
  BY DEF Roomy
<1>5. ASSUME NEW p \in readers
      PROVE  /\ IsFiniteSet(before(p)) /\ IsFiniteSet(after(p))
             /\ Cardinality(before(p)) \in Nat /\ Cardinality(after(p)) \in Nat
             /\ Cardinality(open \ seen[p]) \in Nat /\ Cardinality(left \ seen[p]) \in Nat
             /\ Cardinality(left \ seen[p]) <= Cardinality(open \ seen[p])
             /\ \/ Cardinality(open \ seen[p]) + Cardinality(before(p)) <= width
                \/ Cardinality(open) + Cardinality(before(p)) <= limit - 1 + width
  <2>1. IsFiniteSet(before(p)) /\ IsFiniteSet(after(p))
    BY BehindIsReading, NoMoreThan, FS_Union
  <2>2. IsFiniteSet(open \ seen[p]) /\ left \ seen[p] \subseteq open \ seen[p]
    BY NoMoreThan
  <2>3. \/ Cardinality(open \ seen[p]) + Cardinality(before(p)) <= width
        \/ Cardinality(open) + Cardinality(before(p)) <= limit - 1 + width
    BY DEF Roomy
  <2> HIDE DEF before, after, left
  <2> QED
    BY <2>1, <2>2, <2>3, NoMoreThan, FS_CardinalityType
<1>6. ASSUME NEW p \in readers
      PROVE  \/ Cardinality(left \ seen[p]) + Cardinality(after(p)) <= width
             \/ Cardinality(left) + Cardinality(after(p)) <= limit - 1 + width
  <2>1. CASE after(p) \subseteq before(p)
    <3> HIDE DEF before, after, left
    <3>1. /\ Cardinality(before(p)) \in Nat /\ Cardinality(after(p)) \in Nat
          /\ Cardinality(open \ seen[p]) \in Nat /\ Cardinality(left \ seen[p]) \in Nat
          /\ Cardinality(left \ seen[p]) <= Cardinality(open \ seen[p])
          /\ \/ Cardinality(open \ seen[p]) + Cardinality(before(p)) <= width
             \/ Cardinality(open) + Cardinality(before(p)) <= limit - 1 + width
      BY <1>5
    <3>2. Cardinality(after(p)) <= Cardinality(before(p))
      BY <1>5, <2>1, NoMoreThan
    <3> QED
      BY <1>1, <3>1, <3>2
  <2>2. CASE ~(after(p) \subseteq before(p))
    <3>1. PICK q \in readers : /\ left \cap seen[q] \subseteq seen[p]
                              /\ ~(open \cap seen[q] \subseteq seen[p])
      BY <2>2 DEF Behind
    <3>2. c \in open /\ c \in seen[q] /\ c \notin seen[p]
      BY <3>1
    <3>3. open \cap seen[p] \subseteq seen[q]
      BY <3>1 DEF Roomy
    <3>4. open \ seen[q] = left \ seen[p]
      BY <3>1, <3>2, <3>3
    <3>5. after(p) \subseteq before(q)
      BY <3>1, <3>2, <3>3 DEF Behind
    <3> HIDE DEF before, after, left
    <3>6. /\ Cardinality(before(q)) \in Nat /\ Cardinality(after(p)) \in Nat
          /\ Cardinality(left \ seen[p]) \in Nat
          /\ \/ Cardinality(left \ seen[p]) + Cardinality(before(q)) <= width
             \/ Cardinality(open) + Cardinality(before(q)) <= limit - 1 + width
      BY <1>5, <3>4
    <3>7. Cardinality(after(p)) <= Cardinality(before(q))
      BY <1>5, <3>5, NoMoreThan
    <3> QED
      BY <1>1, <3>6, <3>7
  <2> QED
    BY <2>1, <2>2
<1> QED
  BY <1>3, <1>4, <1>6 DEF Roomy

(* A call that was let through enters its contract, which nobody has seen. *)
LEMMA RoomForTheNext ==
    ASSUME NEW open, IsFiniteSet(open), NEW holders, IsFiniteSet(holders),
           NEW readers, IsFiniteSet(readers), NEW seen, NEW limit \in Nat,
           NEW width \in Nat, Roomy(open, holders, readers, seen, limit, width),
           NEW c, \A p \in readers : c \notin seen[p],
           NEW h \in holders, h \notin readers
    PROVE  Roomy(open \cup {c}, holders \ {h}, readers, seen, limit, width)
<1> DEFINE more == open \cup {c}
           fewer == holders \ {h}
           before(p) == holders \cup Behind(open, readers, seen, p)
           after(p) == fewer \cup Behind(more, readers, seen, p)
<1>1. /\ IsFiniteSet(more) /\ Cardinality(more) \in Nat /\ Cardinality(open) \in Nat
      /\ Cardinality(more) <= Cardinality(open) + 1
  BY OneMore
<1>2. /\ IsFiniteSet(fewer) /\ Cardinality(fewer) \in Nat /\ Cardinality(holders) \in Nat
      /\ Cardinality(fewer) = Cardinality(holders) - 1
  BY OneLess
<1>3. Cardinality(more) + Cardinality(fewer) <= limit - 1 + width
  BY <1>1, <1>2 DEF Roomy
<1>4. \A p, q \in readers : more \cap seen[p] \subseteq seen[q] \/ more \cap seen[q] \subseteq seen[p]
  BY DEF Roomy
<1>5. ASSUME NEW p \in readers
      PROVE  \/ Cardinality(more \ seen[p]) + Cardinality(after(p)) <= width
             \/ Cardinality(more) + Cardinality(after(p)) <= limit - 1 + width
  <2>1. after(p) = before(p) \ {h} /\ h \in before(p)
    BY DEF Behind
  <2>2. IsFiniteSet(before(p))
    BY BehindIsReading, NoMoreThan, FS_Union
  <2>3. more \ seen[p] = (open \ seen[p]) \cup {c}
    OBVIOUS
  <2>4. \/ Cardinality(open \ seen[p]) + Cardinality(before(p)) <= width
        \/ Cardinality(open) + Cardinality(before(p)) <= limit - 1 + width
    BY DEF Roomy
  <2>5. IsFiniteSet(open \ seen[p])
    BY NoMoreThan
  <2> HIDE DEF before, after, more
  <2>6. Cardinality(after(p)) = Cardinality(before(p)) - 1 /\ Cardinality(before(p)) \in Nat
    BY <2>1, <2>2, OneLess
  <2>7. Cardinality(more \ seen[p]) <= Cardinality(open \ seen[p]) + 1
        /\ Cardinality(open \ seen[p]) \in Nat /\ Cardinality(more \ seen[p]) \in Nat
    BY <2>3, <2>5, OneMore
  <2> QED
    BY <1>1, <2>4, <2>6, <2>7
<1> QED
  BY <1>3, <1>4, <1>5 DEF Roomy

(* A call reads what there is, and has nothing open left to see. *)
LEMMA RoomToRead ==
    ASSUME NEW open, IsFiniteSet(open), NEW holders, IsFiniteSet(holders),
           NEW readers, IsFiniteSet(readers), NEW seen, NEW limit \in Nat,
           NEW width \in Nat, Roomy(open, holders, readers, seen, limit, width),
           NEW r, Cardinality(holders \cup readers \cup {r}) <= width,
           NEW seenNow, open \subseteq seenNow[r],
           \A p \in readers : p # r /\ seenNow[p] = seen[p]
    PROVE  Roomy(open, holders, readers \cup {r}, seenNow, limit, width)
<1> DEFINE all == holders \cup readers \cup {r}
           before(p) == holders \cup Behind(open, readers, seen, p)
           after(p) == holders \cup Behind(open, readers \cup {r}, seenNow, p)
<1>1. IsFiniteSet(all) /\ Cardinality(all) \in Nat
  BY FS_AddElement, FS_Union, FS_CardinalityType
<1>2. \A p, q \in readers \cup {r} : \/ open \cap seenNow[p] \subseteq seenNow[q]
                                    \/ open \cap seenNow[q] \subseteq seenNow[p]
  BY DEF Roomy
<1>3. ASSUME NEW p \in readers \cup {r}
      PROVE  \/ Cardinality(open \ seenNow[p]) + Cardinality(after(p)) <= width
             \/ Cardinality(open) + Cardinality(after(p)) <= limit - 1 + width
  <2>1. after(p) \subseteq all
    BY <1>3 DEF Behind
  <2>2. CASE open \subseteq seenNow[p]
    <3>1. open \ seenNow[p] = {}
      BY <2>2
    <3> HIDE DEF after, all
    <3>2. Cardinality(after(p)) <= Cardinality(all) /\ Cardinality(after(p)) \in Nat
      BY <1>1, <2>1, NoMoreThan
    <3>3. Cardinality(open \ seenNow[p]) = 0
      BY <3>1, FS_EmptySet
    <3> QED
      BY <1>1, <3>2, <3>3 DEF all
  <2>3. CASE ~(open \subseteq seenNow[p])
    <3>1. p \in readers
      BY <2>3
    <3>2. after(p) = before(p)
      BY <2>3, <3>1 DEF Behind
    <3>3. open \ seenNow[p] = open \ seen[p]
      BY <3>1
    <3> QED
      BY <3>1, <3>2, <3>3 DEF Roomy
  <2> QED
    BY <2>2, <2>3
<1> QED
  BY <1>2, <1>3 DEF Roomy

(* One that has seen less than the limit is let through. *)
LEMMA RoomToPass ==
    ASSUME NEW open, IsFiniteSet(open), NEW holders, IsFiniteSet(holders),
           NEW readers, IsFiniteSet(readers), NEW seen, NEW limit \in Nat,
           NEW width \in Nat, Roomy(open, holders, readers, seen, limit, width),
           NEW r \in readers, Cardinality(open \cap seen[r]) < limit,
           NEW seenNow, \A p \in readers \ {r} : seenNow[p] = seen[p]
    PROVE  Roomy(open, holders \cup {r}, readers \ {r}, seenNow, limit, width)
<1> DEFINE before(p) == holders \cup Behind(open, readers, seen, p)
           after(p) == (holders \cup {r}) \cup Behind(open, readers \ {r}, seenNow, p)
<1>1. \A p \in readers : IsFiniteSet(before(p)) /\ Cardinality(before(p)) \in Nat
  BY BehindIsReading, NoMoreThan, FS_Union, FS_CardinalityType
<1>2. Cardinality(open) + Cardinality(before(r)) <= limit - 1 + width
  <2>1. \/ Cardinality(open \ seen[r]) + Cardinality(before(r)) <= width
        \/ Cardinality(open) + Cardinality(before(r)) <= limit - 1 + width
    BY DEF Roomy
  <2>2. /\ Cardinality(open) = Cardinality(open \cap seen[r]) + Cardinality(open \ seen[r])
        /\ Cardinality(open \cap seen[r]) \in Nat /\ Cardinality(open \ seen[r]) \in Nat
    BY InAndOut
  <2>3. Cardinality(before(r)) \in Nat
    BY <1>1
  <2> HIDE DEF before
  <2> QED
    BY <2>1, <2>2, <2>3
<1>3. Cardinality(open) + Cardinality(holders \cup {r}) <= limit - 1 + width
  <2>1. holders \cup {r} \subseteq before(r)
    BY DEF Behind
  <2> HIDE DEF before
  <2> QED
    BY <1>1, <1>2, <2>1, NoMoreThan
<1>4. ASSUME NEW p \in readers \ {r}
      PROVE  \/ Cardinality(open \ seenNow[p]) + Cardinality(after(p)) <= width
             \/ Cardinality(open) + Cardinality(after(p)) <= limit - 1 + width
  <2>1. CASE r \in Behind(open, readers, seen, p)
    <3>1. after(p) \subseteq before(p)
      BY <2>1 DEF Behind
    <3>2. \/ Cardinality(open \ seenNow[p]) + Cardinality(before(p)) <= width
          \/ Cardinality(open) + Cardinality(before(p)) <= limit - 1 + width
      BY DEF Roomy
    <3>3. Cardinality(open \ seenNow[p]) \in Nat /\ Cardinality(open) \in Nat
      BY NoMoreThan
    <3> HIDE DEF before, after
    <3> QED
      BY <1>1, <3>1, <3>2, <3>3, NoMoreThan
  <2>2. CASE r \notin Behind(open, readers, seen, p)
    <3>1. open \cap seen[p] \subseteq seen[r]
      BY <2>2 DEF Behind, Roomy
    <3>2. after(p) \subseteq before(r)
      BY <3>1 DEF Behind
    <3> HIDE DEF before, after
    <3> QED
      BY <1>1, <1>2, <3>2, NoMoreThan, FS_CardinalityType
  <2> QED
    BY <2>1, <2>2
<1>5. \A p, q \in readers \ {r} : \/ open \cap seenNow[p] \subseteq seenNow[q]
                                 \/ open \cap seenNow[q] \subseteq seenNow[p]
  BY DEF Roomy
<1> QED
  BY <1>3, <1>4, <1>5 DEF Roomy

-----------------------------------------------------------------------------
(* The limit *)

(* What counts against an agent's limit. *)
Engaged(a) == AdmittedTo(a)

(* The calls that an agent's count let through and that have yet to enter it. *)
LetThrough(a) ==
    {p \in Proposals :
        /\ Counted(p) /\ a \in proposal[p].passed
        /\ proposal[p].stage \in {"count", "judge", "recount", "rejudge", "participants"}}

(* The calls that have read an agent's participations and are still to judge. *)
ReadFor(a) == {p \in Proposals : Stage(p, "judge") /\ proposal[p].counting = a}

SeenBy == [p \in Proposals |-> proposal[p].seen]

(* How many calls may be under way at the same time. *)
Width == IF simultaneous THEN Cardinality(Proposals) ELSE 1

RoomFor(a) == Roomy(Engaged(a), LetThrough(a), ReadFor(a), SeenBy, Limit[a], Width)

(* What is counted of an agent is finite. *)
LEMMA CallsAreFinite ==
    ASSUME NEW a \in Parties
    PROVE  /\ IsFiniteSet(Engaged(a)) /\ IsFiniteSet(LetThrough(a)) /\ IsFiniteSet(ReadFor(a))
           /\ Limit[a] \in Nat /\ Width \in Nat
<1>1. /\ Engaged(a) \subseteq ContractIds
      /\ LetThrough(a) \subseteq Proposals /\ ReadFor(a) \subseteq Proposals
  BY DEF Engaged, AdmittedTo, OpenContracts, LetThrough, ReadFor
<1>2. Cardinality(Proposals) \in Nat
  BY FS_CardinalityType, ProposalsAssumption
<1> QED
  BY <1>1, <1>2, NoMoreThan, ProposalsAssumption DEF Width

(* No more calls are under way than the width has room for. *)
LEMMA CountedWithinWidth ==
    ASSUME CallsInv, NEW calls, calls \subseteq {p \in Proposals : Counted(p)}
    PROVE  Cardinality(calls) <= Width
<1>1. IsFiniteSet(Proposals) /\ calls \subseteq Proposals
  BY ProposalsAssumption
<1>2. Cardinality(calls) \in Nat /\ Cardinality(calls) <= Cardinality(Proposals)
      /\ IsFiniteSet(calls)
  BY <1>1, NoMoreThan
<1>3. CASE simultaneous
  BY <1>2, <1>3 DEF Width
<1>4. CASE ~simultaneous
  <2>1. \A p, q \in calls : p = q
    BY <1>4 DEF CallsInv
  <2>2. CASE calls = {}
    BY <1>4, <2>2, FS_EmptySet DEF Width
  <2>3. CASE calls # {}
    <3>1. PICK p : calls = {p}
      BY <2>1, <2>3
    <3>2. Cardinality(calls) = 1
      BY <3>1, FS_Singleton
    <3> QED
      BY <1>4, <3>2 DEF Width
  <2> QED
    BY <2>2, <2>3
<1> QED
  BY <1>3, <1>4

(* Calls that overlap once widen the bound for good. *)
LEMMA WidthGrows ==
    ASSUME simultaneous \in BOOLEAN, simultaneous' \in BOOLEAN,
           \/ simultaneous' = simultaneous
           \/ simultaneous' /\ Proposals # {}
    PROVE  Width' \in Nat /\ Width <= Width'
<1>1. Cardinality(Proposals) \in Nat
  BY FS_CardinalityType, ProposalsAssumption
<1>2. Proposals # {} => Cardinality(Proposals) # 0
  BY FS_EmptySet, ProposalsAssumption
<1> QED
  BY <1>1, <1>2 DEF Width

(* Fewer calls under way for an agent, or a contract less. *)
LEMMA RoomKept ==
    ASSUME CallsInv, ProposalsTypeOK', NEW a \in Parties, RoomFor(a),
           LetThrough(a)' \subseteq LetThrough(a), ReadFor(a)' \subseteq ReadFor(a),
           \A p \in ReadFor(a)' : proposal'[p].seen = proposal[p].seen,
           \/ simultaneous' = simultaneous
           \/ simultaneous' /\ Proposals # {},
           NEW c, Engaged(a)' = Engaged(a) \/ Engaged(a)' = Engaged(a) \ {c}
    PROVE  RoomFor(a)'
<1>1. /\ IsFiniteSet(Engaged(a)) /\ IsFiniteSet(LetThrough(a)) /\ IsFiniteSet(ReadFor(a))
      /\ Limit[a] \in Nat /\ Width \in Nat
  BY CallsAreFinite
<1>2. Roomy(Engaged(a)', LetThrough(a), ReadFor(a), SeenBy, Limit[a], Width)
  <2>1. Roomy(Engaged(a), LetThrough(a), ReadFor(a), SeenBy, Limit[a], Width)
    BY DEF RoomFor
  <2>2. Roomy(Engaged(a) \ {c}, LetThrough(a), ReadFor(a), SeenBy, Limit[a], Width)
    BY <1>1, <2>1, RoomForOneLess
  <2> QED
    BY <2>1, <2>2
<1>3. IsFiniteSet(Engaged(a)')
  BY <1>1, NoMoreThan
<1>4. Width' \in Nat /\ Width <= Width'
  BY WidthGrows DEF CallsInv, ProposalsTypeOK
<1>5. \A p \in ReadFor(a)' : SeenBy'[p] = SeenBy[p]
  BY DEF SeenBy, ReadFor
<1> HIDE DEF Width
<1>6. Roomy(Engaged(a)', LetThrough(a)', ReadFor(a)', SeenBy', Limit[a], Width')
  BY <1>1, <1>2, <1>3, <1>4, <1>5, RoomForFewer
<1> QED
  BY <1>6 DEF RoomFor

(* A step of one call that gives it no more than it has. *)
LEMMA OnlyThisCall ==
    ASSUME NEW p \in Proposals, NEW a \in Parties,
           \A q \in Proposals \ {p} : proposal'[q] = proposal[q],
           handed \subseteq handed'
    PROVE  /\ LetThrough(a)' \subseteq LetThrough(a) \cup {p}
           /\ ReadFor(a)' \subseteq ReadFor(a) \cup {p}
           /\ \A q \in ReadFor(a)' \ {p} : proposal'[q].seen = proposal[q].seen
           /\ \A q \in LetThrough(a)' \ {p} : q \in LetThrough(a)
<1>1. ASSUME NEW q \in Proposals \ {p}
      PROVE  /\ q \in LetThrough(a)' => q \in LetThrough(a)
             /\ q \in ReadFor(a)' => q \in ReadFor(a)
  <2>1. proposal'[q] = proposal[q]
    OBVIOUS
  <2>2. Counted(q)' => Counted(q)
    BY <2>1 DEF Counted, Stage
  <2>4. q \in LetThrough(a)' => q \in LetThrough(a)
    BY <2>1, <2>2 DEF LetThrough
  <2>5. q \in ReadFor(a)' => q \in ReadFor(a)
    BY <2>1 DEF ReadFor, Stage
  <2> QED
    BY <2>4, <2>5
<1>2. LetThrough(a)' \subseteq Proposals /\ ReadFor(a)' \subseteq Proposals
  BY DEF LetThrough, ReadFor
<1> QED
  BY <1>1, <1>2

(* Nor one that takes its contract from nobody else. *)
LEMMA EngagedKept ==
    ASSUME CallsInv, NEW a \in Parties, UNCHANGED <<participant, admitted>>,
           \A c \in ContractIds : contractRow[c] # "absent" =>
              (contractRow'[c] = contractRow[c] /\ (c \in handed' <=> c \in handed))
    PROVE  Engaged(a)' = Engaged(a)
<1>1. \A c \in ContractIds : <<c, a>> \in participant => contractRow[c] # "absent"
  BY DEF CallsInv, Unused
<1> QED
  BY <1>1 DEF Engaged, AdmittedTo, ContractsOf, OpenContracts

(* The step of one call, unless it reads, is let through or enters its contract. *)
LEMMA RoomAfterCall ==
    ASSUME CallsInv, ProposalsTypeOK', NEW p \in Proposals, NEW a \in Parties, RoomFor(a),
           \A q \in Proposals \ {p} : proposal'[q] = proposal[q],
           handed \subseteq handed',
           p \in LetThrough(a)' => p \in LetThrough(a),
           p \notin ReadFor(a)',
           simultaneous => simultaneous',
           NEW c, Engaged(a)' = Engaged(a) \/ Engaged(a)' = Engaged(a) \ {c}
    PROVE  RoomFor(a)'
<1>1. /\ LetThrough(a)' \subseteq LetThrough(a) /\ ReadFor(a)' \subseteq ReadFor(a)
      /\ \A q \in ReadFor(a)' : proposal'[q].seen = proposal[q].seen
  BY OnlyThisCall
<1>2. simultaneous' = simultaneous \/ (simultaneous' /\ Proposals # {})
  BY DEF CallsInv, ProposalsTypeOK
<1> QED
  BY <1>1, <1>2, RoomKept

(* An agent that takes part in nothing has room for one contract at least. *)
LEMMA RoomInit == ProposalsInit => \A a \in Parties : Limited(a) => RoomFor(a)
<1> SUFFICES ASSUME ProposalsInit, NEW a \in Parties, Limited(a)
             PROVE  RoomFor(a)
  OBVIOUS
<1>1. Engaged(a) = {} /\ LetThrough(a) = {} /\ ReadFor(a) = {} /\ Width = 1
  BY DEF ProposalsInit, Engaged, AdmittedTo, OpenContracts, LetThrough, ReadFor, Counted, Stage,
         NoProposal, Width
<1>2. Limit[a] \in Nat \ {0} /\ Cardinality({}) = 0
  BY ProposalsAssumption, FS_EmptySet DEF Limited
<1> QED
  BY <1>1, <1>2 DEF RoomFor, Roomy

(* A call is let through only into the room that its own count found for it. *)
LEMMA RoomStep ==
    ASSUME CallsInv, CallsInv', [ProposalsNext]_proposalVars, NEW a \in Parties,
           Limited(a), RoomFor(a)
    PROVE  RoomFor(a)'
<1>0. /\ ProposalsTypeOK /\ ProposalsTypeOK' /\ NoId \notin ContractIds
      /\ \A p \in Proposals : CallAt(p)
      /\ proposal \in [Proposals -> ProposalRecord]
  BY ProposalsAssumption DEF CallsInv, ProposalsTypeOK
<1>1. ASSUME NEW p \in Proposals, NEW b \in Parties, ReadParticipations(p, b)
      PROVE  RoomFor(a)'
  <2>1. /\ proposal'[p] = [proposal[p] EXCEPT !.stage = "judge", !.counting = b,
                                               !.seen = ContractsOf(b)]
        /\ \A q \in Proposals \ {p} : proposal'[q] = proposal[q]
        /\ UNCHANGED <<contractRow, participant, handed, admitted, simultaneous>>
        /\ proposal[p].stage = "count" /\ b \in proposal[p].uncounted
    BY <1>0, <1>1 DEF ReadParticipations, Stage, ProposalRecord
  <2>2. /\ proposal'[p].stage = "judge" /\ proposal'[p].counting = b
        /\ proposal'[p].seen = ContractsOf(b) /\ proposal'[p].made = proposal[p].made
        /\ proposal'[p].uncounted = proposal[p].uncounted
        /\ proposal'[p].passed = proposal[p].passed
    BY <1>0, <2>1 DEF ProposalRecord
  <2>3. Engaged(a)' = Engaged(a)
    BY <2>1 DEF Engaged, AdmittedTo, ContractsOf, OpenContracts
  <2>4. p \in LetThrough(a)' => p \in LetThrough(a)
    BY <2>1, <2>2 DEF LetThrough, Counted, Stage
  <2>5. CASE a # b
    BY <1>0, <2>1, <2>2, <2>3, <2>4, <2>5, RoomAfterCall DEF ReadFor, Stage
  <2>6. CASE a = b
    <3>1. /\ LetThrough(a)' \subseteq LetThrough(a)
          /\ ReadFor(a)' \subseteq ReadFor(a) \cup {p}
      BY <2>1, <2>4, OnlyThisCall
    <3>2. p \notin ReadFor(a) /\ ReadFor(a) \subseteq Proposals
      BY <2>1 DEF ReadFor, Stage
    <3>3. Engaged(a) \subseteq SeenBy'[p]
      BY <2>2, <2>6 DEF Engaged, AdmittedTo, SeenBy
    <3>4. \A q \in ReadFor(a) : q # p /\ SeenBy'[q] = SeenBy[q]
      BY <2>1, <3>2 DEF SeenBy
    <3>5. LetThrough(a) \cup ReadFor(a) \cup {p} \subseteq {q \in Proposals : Counted(q)}
      <4>1. \A q \in Proposals : proposal[q].made = NoId /\ ~Stage(q, "none") => Counted(q)
        BY <1>0 DEF Counted, ProposalsTypeOK
      <4>2. \A q \in ReadFor(a) \cup {p} : q \in Proposals /\ proposal[q].made = NoId
                                             /\ ~Stage(q, "none")
        BY <1>0, <2>1 DEF ReadFor, Stage, CallAt
      <4> QED
        BY <4>1, <4>2 DEF LetThrough
    <3>6. Cardinality(LetThrough(a) \cup ReadFor(a) \cup {p}) <= Width
      BY <3>5, CountedWithinWidth
    <3>7. /\ IsFiniteSet(Engaged(a)) /\ IsFiniteSet(LetThrough(a))
          /\ IsFiniteSet(ReadFor(a)) /\ Limit[a] \in Nat /\ Width \in Nat
      BY CallsAreFinite
    <3>8. IsFiniteSet(ReadFor(a) \cup {p})
      BY <3>7, OneMore
    <3>9. Roomy(Engaged(a), LetThrough(a), ReadFor(a) \cup {p}, SeenBy', Limit[a], Width)
      <4> HIDE DEF Width
      <4> QED
        BY <3>3, <3>4, <3>6, <3>7, RoomToRead DEF RoomFor
    <3>10. Roomy(Engaged(a), LetThrough(a)', ReadFor(a)', SeenBy', Limit[a], Width)
      <4>1. \A q \in ReadFor(a)' : SeenBy'[q] = SeenBy'[q]
        OBVIOUS
      <4>2. Width <= Width
        BY <3>7
      <4> QED
        BY <3>1, <3>7, <3>8, <3>9, <4>1, <4>2, RoomForFewer
    <3>11. Width' = Width
      BY <2>1 DEF Width
    <3> QED
      BY <2>3, <3>10, <3>11 DEF RoomFor
  <2> QED
    BY <2>5, <2>6
<1>2. ASSUME NEW p \in Proposals, NEW b \in Parties, NEW others \in SUBSET Parties,
             NEW watchers \in SUBSET Parties, Propose(p, b, others, watchers)
      PROVE  RoomFor(a)'
  <2>1. /\ proposal'[p] = [NoProposal EXCEPT !.stage = "count", !.proposer = b,
               !.invitees = others, !.observers = watchers,
               !.uncounted = {d \in others \cup {b} : Limited(d)}]
        /\ \A q \in Proposals \ {p} : proposal'[q] = proposal[q]
        /\ UNCHANGED <<contractRow, participant, handed, admitted>>
        /\ simultaneous => simultaneous'
    BY <1>0, <1>2 DEF Propose
  <2>2. proposal'[p].stage = "count" /\ proposal'[p].passed = {}
    BY <2>1 DEF NoProposal
  <2>3. p \notin LetThrough(a)' /\ p \notin ReadFor(a)'
    BY <2>2 DEF LetThrough, ReadFor, Stage
  <2>4. Engaged(a)' = Engaged(a)
    BY <2>1, EngagedKept
  <2> QED
    BY <1>0, <2>1, <2>3, <2>4, RoomAfterCall
<1>3. ASSUME NEW p \in Proposals, NEW b \in Parties, NEW others \in SUBSET Parties,
             NEW c \in ContractIds, HandOff(p, c, b, others)
      PROVE  RoomFor(a)'
  <2>1. /\ proposal'[p].made = c /\ proposal'[p].stage = "participants"
        /\ \A q \in Proposals \ {p} : proposal'[q] = proposal[q]
        /\ UNCHANGED <<participant, admitted, simultaneous>>
        /\ contractRow[c] = "absent" /\ handed' = handed \cup {c}
        /\ \A d \in ContractIds \ {c} : contractRow'[d] = contractRow[d]
    BY <1>0, <1>3 DEF HandOff, NoProposal, ProposalsTypeOK
  <2>2. p \notin LetThrough(a)' /\ p \notin ReadFor(a)'
    BY <2>1 DEF LetThrough, ReadFor, Counted, Stage
  <2>3. Engaged(a)' = Engaged(a)
    BY <2>1, EngagedKept
  <2> QED
    BY <1>0, <2>1, <2>2, <2>3, RoomAfterCall
<1>4. ASSUME NEW p \in Proposals, NEW c \in ContractIds, InsertContract(p, c)
      PROVE  RoomFor(a)'
  <2>1. /\ proposal'[p].stage = "recount"
        /\ proposal'[p].passed = proposal[p].passed
        /\ proposal'[p].uncounted = proposal[p].uncounted
        /\ \A q \in Proposals \ {p} : proposal'[q] = proposal[q]
    BY <1>0, <1>4 DEF InsertContract, ProposalRecord
  <2>2. /\ UNCHANGED <<participant, handed, admitted, simultaneous>>
        /\ proposal[p].stage = "count" /\ proposal[p].made = NoId
        /\ contractRow[c] = "absent"
        /\ \A d \in ContractIds \ {c} : contractRow'[d] = contractRow[d]
    BY <1>0, <1>4 DEF InsertContract, Stage, CallAt, ProposalsTypeOK
  <2>3. Counted(p)
    BY <1>0, <2>2 DEF Counted, Stage, ProposalsTypeOK
  <2>4. p \in LetThrough(a)' => p \in LetThrough(a)
    BY <2>1, <2>2, <2>3 DEF LetThrough
  <2>5. p \notin ReadFor(a)'
    BY <2>1 DEF ReadFor, Stage
  <2>6. Engaged(a)' = Engaged(a)
    BY <2>2, EngagedKept
  <2> QED
    BY <1>0, <2>1, <2>2, <2>4, <2>5, <2>6, RoomAfterCall
<1>5. ASSUME NEW p \in Proposals, Leave(p), UNCHANGED <<handed, simultaneous>>,
             NEW c, Engaged(a)' = Engaged(a) \/ Engaged(a)' = Engaged(a) \ {c}
      PROVE  RoomFor(a)'
  <2>1. proposal'[p].stage = "none" /\ \A q \in Proposals \ {p} : proposal'[q] = proposal[q]
    BY <1>0, <1>5 DEF Leave, NoProposal
  <2>2. p \notin LetThrough(a)' /\ p \notin ReadFor(a)'
    BY <2>1 DEF LetThrough, ReadFor, Stage
  <2> QED
    BY <1>0, <1>5, <2>1, <2>2, RoomAfterCall
<1>6. ASSUME NEW p \in Proposals, JudgeCount(p)
      PROVE  RoomFor(a)'
  <2> DEFINE b == proposal[p].counting
  <2>1. /\ UNCHANGED <<contractRow, participant, handed, admitted, simultaneous>>
        /\ proposal[p].stage = "judge" /\ proposal[p].made = NoId
        /\ \A q \in Proposals \ {p} : proposal'[q] = proposal[q]
    BY <1>0, <1>6 DEF JudgeCount, CountNext, Stage, CallAt, Leave
  <2>2. Engaged(a)' = Engaged(a)
    BY <2>1, EngagedKept
  <2>3. CASE Leave(p)
    BY <1>5, <2>1, <2>2, <2>3
  <2>4. CASE CountNext(p, {b}) /\ ~AtLimit(SeenOpen(p), Limit[b])
    <3>1. /\ proposal'[p].stage = "count"
          /\ proposal'[p].passed = proposal[p].passed \cup {b}
      BY <1>0, <2>4 DEF CountNext, ProposalRecord
    <3>2. ~AtLimit(SeenOpen(p), Limit[b])
      BY <2>4
    <3>3. Counted(p)
      BY <1>0, <2>1 DEF Counted, Stage, ProposalsTypeOK
    <3>4. p \notin ReadFor(a)'
      BY <3>1 DEF ReadFor, Stage
    <3>5. CASE a # b
      <4>1. p \in LetThrough(a)' => p \in LetThrough(a)
        BY <2>1, <3>1, <3>3, <3>5 DEF LetThrough
      <4> QED
        BY <1>0, <2>1, <2>2, <3>4, <4>1, RoomAfterCall
    <3>6. CASE a = b
      <4>1. p \in ReadFor(a) /\ SeenBy[p] = proposal[p].seen
        BY <2>1, <3>6 DEF ReadFor, Stage, SeenBy
      <4>2. /\ IsFiniteSet(Engaged(a)) /\ IsFiniteSet(LetThrough(a))
            /\ IsFiniteSet(ReadFor(a)) /\ Limit[a] \in Nat /\ Width \in Nat
        BY CallsAreFinite
      <4>3. Cardinality(Engaged(a) \cap SeenBy[p]) < Limit[a]
        <5>1. Engaged(a) \cap SeenBy[p] \subseteq proposal[p].seen \cap OpenContracts
          BY <4>1 DEF Engaged, AdmittedTo
        <5>2. IsFiniteSet(proposal[p].seen \cap OpenContracts)
          BY NoMoreThan, ProposalsAssumption DEF OpenContracts
        <5>3. /\ Cardinality(Engaged(a) \cap SeenBy[p]) \in Nat /\ SeenOpen(p) \in Nat
              /\ Cardinality(Engaged(a) \cap SeenBy[p]) <= SeenOpen(p)
          BY <5>1, <5>2, NoMoreThan DEF SeenOpen
        <5> QED
          BY <3>2, <3>6, <4>2, <5>3 DEF AtLimit
      <4>4. \A q \in ReadFor(a) \ {p} : SeenBy'[q] = SeenBy[q]
        BY <2>1 DEF SeenBy, ReadFor
      <4>5. Roomy(Engaged(a), LetThrough(a) \cup {p}, ReadFor(a) \ {p}, SeenBy',
                  Limit[a], Width)
        <5>1. Roomy(Engaged(a), LetThrough(a), ReadFor(a), SeenBy, Limit[a], Width)
          BY DEF RoomFor
        <5> QED
          BY <4>1, <4>2, <4>3, <4>4, <5>1, RoomToPass
      <4>6. /\ LetThrough(a)' \subseteq LetThrough(a) \cup {p}
            /\ ReadFor(a)' \subseteq ReadFor(a) \ {p}
        BY <2>1, <3>4, OnlyThisCall
      <4>7. IsFiniteSet(LetThrough(a) \cup {p}) /\ IsFiniteSet(ReadFor(a) \ {p})
        BY <4>2, OneMore, NoMoreThan
      <4>8. Roomy(Engaged(a), LetThrough(a)', ReadFor(a)', SeenBy', Limit[a], Width)
        <5>1. \A q \in ReadFor(a)' : SeenBy'[q] = SeenBy'[q]
          OBVIOUS
        <5>2. Width <= Width
          BY <4>2
        <5> QED
          BY <4>2, <4>5, <4>6, <4>7, <5>1, <5>2, RoomForFewer
      <4>9. Width' = Width
        BY <2>1 DEF Width
      <4> QED
        BY <2>2, <4>8, <4>9 DEF RoomFor
    <3> QED
      BY <3>5, <3>6
  <2> QED
    BY <1>6, <2>3, <2>4 DEF JudgeCount
<1>18. ASSUME NEW p \in Proposals, CountFails(p)
       PROVE  RoomFor(a)'
  <2>1. /\ UNCHANGED <<contractRow, participant, handed, admitted, simultaneous>>
        /\ proposal[p].stage = "judge" /\ proposal[p].made = NoId
        /\ \A q \in Proposals \ {p} : proposal'[q] = proposal[q]
    BY <1>0, <1>18 DEF CountFails, CountNext, Stage, CallAt
  <2>2. /\ proposal'[p].stage = "count" /\ proposal'[p].made = proposal[p].made
        /\ proposal'[p].passed = proposal[p].passed
    BY <1>0, <1>18 DEF CountFails, CountNext, ProposalRecord
  <2>3. p \in LetThrough(a)' => p \in LetThrough(a)
    BY <2>1, <2>2 DEF LetThrough, Counted, Stage
  <2>4. p \notin ReadFor(a)'
    BY <2>2 DEF ReadFor, Stage
  <2>5. Engaged(a)' = Engaged(a)
    BY <2>1, EngagedKept
  <2> QED
    BY <1>0, <2>1, <2>3, <2>4, <2>5, RoomAfterCall
<1>7. ASSUME NEW p \in Proposals, ReadAgain(p)
      PROVE  RoomFor(a)'
  <2>1. /\ proposal'[p].stage = "rejudge"
        /\ proposal'[p].passed = proposal[p].passed
        /\ proposal'[p].uncounted = proposal[p].uncounted
        /\ proposal'[p].made = proposal[p].made
        /\ \A q \in Proposals \ {p} : proposal'[q] = proposal[q]
    BY <1>0, <1>7 DEF ReadAgain, ProposalRecord
  <2>2. /\ UNCHANGED <<contractRow, participant, handed, admitted, simultaneous>>
        /\ proposal[p].stage = "recount"
    BY <1>7 DEF ReadAgain, Stage
  <2>3. p \in LetThrough(a)' => p \in LetThrough(a)
    BY <2>1, <2>2 DEF LetThrough, Counted, Stage
  <2>4. p \notin ReadFor(a)'
    BY <2>1 DEF ReadFor, Stage
  <2>5. Engaged(a)' = Engaged(a)
    BY <2>2, EngagedKept
  <2> QED
    BY <1>0, <2>1, <2>2, <2>3, <2>4, <2>5, RoomAfterCall
<1>8. ASSUME NEW p \in Proposals, JudgeAgain(p)
      PROVE  RoomFor(a)'
  <2>1. /\ proposal'[p].stage # "judge"
        /\ proposal'[p].passed = proposal[p].passed
        /\ proposal'[p].uncounted = proposal[p].uncounted
        /\ proposal'[p].made = proposal[p].made
        /\ \A q \in Proposals \ {p} : proposal'[q] = proposal[q]
    BY <1>0, <1>8 DEF JudgeAgain, ProposalRecord
  <2>2. /\ UNCHANGED <<contractRow, participant, handed, admitted, simultaneous>>
        /\ proposal[p].stage = "rejudge"
    BY <1>8 DEF JudgeAgain, Stage
  <2>3. p \in LetThrough(a)' => p \in LetThrough(a)
    BY <2>1, <2>2 DEF LetThrough, Counted, Stage
  <2>4. p \notin ReadFor(a)'
    BY <2>1 DEF ReadFor, Stage
  <2>5. Engaged(a)' = Engaged(a)
    BY <2>2, EngagedKept
  <2> QED
    BY <1>0, <2>1, <2>2, <2>3, <2>4, <2>5, RoomAfterCall
<1>9. ASSUME NEW p \in Proposals, NEW next \in {"enrich", "clear", "remove"},
             Proceed(p, next)
      PROVE  /\ p \notin LetThrough(a)' /\ p \notin ReadFor(a)'
             /\ \A q \in Proposals \ {p} : proposal'[q] = proposal[q]
  <2>1. proposal'[p].stage = next /\ \A q \in Proposals \ {p} : proposal'[q] = proposal[q]
    BY <1>0, <1>9 DEF Proceed, ProposalRecord
  <2> QED
    BY <2>1 DEF LetThrough, ReadFor, Stage
<1>10. ASSUME NEW p \in Proposals, InsertParticipants(p)
       PROVE  RoomFor(a)'
  <2> DEFINE c == proposal[p].made
  <2>1. /\ UNCHANGED <<contractRow, handed, simultaneous>>
        /\ proposal[p].stage = "participants" /\ c \in ContractIds
        /\ proposal[p].uncounted = {} /\ Unused(c)
    BY <1>0, <1>10 DEF InsertParticipants, Stage, CallAt
  <2>2. /\ p \notin LetThrough(a)' /\ p \notin ReadFor(a)'
        /\ \A q \in Proposals \ {p} : proposal'[q] = proposal[q]
    BY <1>9, <1>10 DEF InsertParticipants
  <2>3. CASE UNCHANGED <<participant, admitted>>
    <3>1. Engaged(a)' = Engaged(a)
      BY <2>1, <2>3, EngagedKept
    <3> QED
      BY <1>0, <2>1, <2>2, <3>1, RoomAfterCall
  <2>4. CASE /\ participant' = participant \cup ({c} \X Joining(p))
             /\ admitted' = admitted \cup ({c} \X proposal[p].passed)
    <3>1. CASE Engaged(a)' = Engaged(a)
      BY <1>0, <2>1, <2>2, <3>1, RoomAfterCall
    <3>2. CASE Engaged(a)' # Engaged(a)
      <4>1. /\ a \in proposal[p].passed /\ c \notin handed
            /\ Engaged(a)' = Engaged(a) \cup {c}
        <5>1. \A d \in ContractIds \ {c} : d \in Engaged(a)' <=> d \in Engaged(a)
          BY <2>1, <2>4 DEF Engaged, AdmittedTo, ContractsOf, OpenContracts
        <5>2. c \notin Engaged(a)
          BY <2>1 DEF Unused, Engaged, AdmittedTo, ContractsOf
        <5>3. Engaged(a) \subseteq ContractIds /\ Engaged(a)' \subseteq ContractIds
          BY DEF Engaged, AdmittedTo, ContractsOf
        <5>4. c \in Engaged(a)'
          <6> HIDE DEF c
          <6> QED
            BY <3>2, <5>1, <5>2, <5>3
        <5>5. <<c, a>> \in admitted' /\ c \notin handed'
          BY <5>4 DEF Engaged, AdmittedTo
        <5>6. <<c, a>> \notin admitted
          BY <2>1 DEF Unused
        <5>7. a \in proposal[p].passed
          BY <2>4, <5>5, <5>6
        <5>8. Engaged(a)' = Engaged(a) \cup {c}
          <6> HIDE DEF c
          <6> QED
            BY <5>1, <5>3, <5>4, <2>1
        <5> QED
          BY <2>1, <5>5, <5>7, <5>8
      <4>2. p \in LetThrough(a) /\ p \notin ReadFor(a)
        BY <2>1, <4>1 DEF LetThrough, ReadFor, Counted, Stage
      <4>3. \A q \in ReadFor(a) : c \notin SeenBy[q]
        BY <2>1 DEF Unused, SeenBy, ReadFor
      <4>4. /\ IsFiniteSet(Engaged(a)) /\ IsFiniteSet(LetThrough(a))
            /\ IsFiniteSet(ReadFor(a)) /\ Limit[a] \in Nat /\ Width \in Nat
        BY CallsAreFinite
      <4>5. Roomy(Engaged(a) \cup {c}, LetThrough(a) \ {p}, ReadFor(a), SeenBy,
                  Limit[a], Width)
        <5>1. Roomy(Engaged(a), LetThrough(a), ReadFor(a), SeenBy, Limit[a], Width)
          BY DEF RoomFor
        <5> HIDE DEF c
        <5> QED
          BY <4>2, <4>3, <4>4, <5>1, RoomForTheNext
      <4>6. /\ LetThrough(a)' \subseteq LetThrough(a) \ {p}
            /\ ReadFor(a)' \subseteq ReadFor(a)
            /\ \A q \in ReadFor(a)' : SeenBy'[q] = SeenBy[q]
        <5>1. /\ LetThrough(a)' \subseteq LetThrough(a) \ {p}
              /\ ReadFor(a)' \subseteq ReadFor(a)
              /\ \A q \in ReadFor(a)' : proposal'[q].seen = proposal[q].seen
          BY <2>1, <2>2, OnlyThisCall
        <5> QED
          BY <5>1 DEF SeenBy, ReadFor
      <4>7. IsFiniteSet(Engaged(a) \cup {c}) /\ IsFiniteSet(LetThrough(a) \ {p})
        BY <4>4, OneMore, NoMoreThan
      <4>8. Roomy(Engaged(a) \cup {c}, LetThrough(a)', ReadFor(a)', SeenBy', Limit[a], Width)
        <5>1. Width <= Width
          BY <4>4
        <5> HIDE DEF c
        <5> QED
          BY <4>4, <4>5, <4>6, <4>7, <5>1, RoomForFewer
      <4>9. Width' = Width
        BY <2>1 DEF Width
      <4> QED
        BY <4>1, <4>8, <4>9 DEF RoomFor
    <3> QED
      BY <3>1, <3>2
  <2> QED
    BY <1>10, <2>3, <2>4 DEF InsertParticipants
<1>11. ASSUME NEW p \in Proposals, EnrichContract(p)
       PROVE  RoomFor(a)'
  <2>1. UNCHANGED <<contractRow, participant, handed, admitted, simultaneous>>
    BY <1>11 DEF EnrichContract
  <2>2. Engaged(a)' = Engaged(a)
    BY <2>1, EngagedKept
  <2>3. CASE Leave(p)
    BY <1>5, <2>1, <2>2, <2>3
  <2>4. CASE Proceed(p, "clear")
    <3>1. /\ p \notin LetThrough(a)' /\ p \notin ReadFor(a)'
          /\ \A q \in Proposals \ {p} : proposal'[q] = proposal[q]
      BY <1>9, <2>4
    <3> QED
      BY <1>0, <2>1, <2>2, <3>1, RoomAfterCall
  <2> QED
    BY <1>11, <2>3, <2>4 DEF EnrichContract
<1>12. ASSUME NEW p \in Proposals, DeleteParticipants(p)
       PROVE  RoomFor(a)'
  <2>1. /\ p \notin LetThrough(a)' /\ p \notin ReadFor(a)'
        /\ \A q \in Proposals \ {p} : proposal'[q] = proposal[q]
    BY <1>9, <1>12 DEF DeleteParticipants, AfterParticipants
  <2>2. UNCHANGED <<contractRow, handed, admitted, simultaneous>>
    BY <1>12 DEF DeleteParticipants
  <2>3. \/ Engaged(a)' = Engaged(a)
        \/ Engaged(a)' = Engaged(a) \ {proposal[p].made}
    BY <1>12, <2>2 DEF DeleteParticipants, Engaged, AdmittedTo, ContractsOf, OpenContracts
  <2> QED
    BY <1>0, <2>1, <2>2, <2>3, RoomAfterCall
<1>13. ASSUME NEW p \in Proposals, DeleteContract(p)
       PROVE  RoomFor(a)'
  <2>1. \/ Engaged(a)' = Engaged(a)
        \/ Engaged(a)' = Engaged(a) \ {proposal[p].made}
    <3>1. CASE UNCHANGED <<contractRow, participant>>
      BY <1>13, <3>1 DEF DeleteContract, Engaged, AdmittedTo, ContractsOf, OpenContracts
    <3>2. CASE /\ contractRow' = [contractRow EXCEPT ![proposal[p].made] = "deleted"]
               /\ participant' = participant \ ({proposal[p].made} \X Parties)
      <4>1. \A c \in ContractIds : c # proposal[p].made => contractRow'[c] = contractRow[c]
        BY <1>0, <3>2 DEF ProposalsTypeOK
      <4>2. ContractsOf(a)' = ContractsOf(a) \ {proposal[p].made}
        BY <3>2 DEF ContractsOf
      <4> QED
        BY <1>13, <4>1, <4>2 DEF DeleteContract, Engaged, AdmittedTo, OpenContracts
    <3> QED
      BY <1>13, <3>1, <3>2 DEF DeleteContract
  <2> QED
    BY <1>5, <1>13, <2>1 DEF DeleteContract
<1>14. ASSUME NEW p \in Proposals, ProposalDies(p)
       PROVE  RoomFor(a)'
  <2>1. Engaged(a)' = Engaged(a)
    BY <1>14, EngagedKept DEF ProposalDies
  <2> QED
    BY <1>5, <1>14, <2>1 DEF ProposalDies
<1>15. ASSUME UNCHANGED <<proposal, handed, simultaneous>>,
              NEW c, Engaged(a)' = Engaged(a) \/ Engaged(a)' = Engaged(a) \ {c}
       PROVE  RoomFor(a)'
  <2>1. LetThrough(a)' = LetThrough(a) /\ ReadFor(a)' = ReadFor(a)
    BY <1>15 DEF LetThrough, ReadFor, Counted, Stage
  <2> QED
    BY <1>0, <1>15, <2>1, RoomKept
<1>16. ASSUME NEW c \in ContractIds, EndContract(c)
       PROVE  RoomFor(a)'
  <2>1. Engaged(a)' = Engaged(a) \ {c}
    BY <1>0, <1>16 DEF EndContract, Engaged, AdmittedTo, ContractsOf, OpenContracts, ProposalsTypeOK
  <2> QED
    BY <1>15, <1>16, <2>1 DEF EndContract
<1>17. CASE UNCHANGED proposalVars
  <2>1. Engaged(a)' = Engaged(a)
    BY <1>17, EngagedKept DEF proposalVars
  <2> QED
    BY <1>15, <1>17, <2>1 DEF proposalVars
<1> QED
  BY <1>1, <1>2, <1>3, <1>4, <1>6, <1>7, <1>8, <1>10, <1>11, <1>12, <1>13, <1>14,
     <1>16, <1>17, <1>18 DEF ProposalsNext

(* Every agent with a limit has room for what is under way. *)
LimitInv == CallsInv /\ \A a \in Parties : Limited(a) => RoomFor(a)

(* What is engaged and what is let through leave the limit unbroken. *)
LEMMA LimitInvHolds == LimitInv => LimitHolds
<1> SUFFICES ASSUME LimitInv, NEW a \in Parties, Limited(a)
             PROVE  Cardinality(Engaged(a))
                      <= Limit[a] + (IF simultaneous THEN Cardinality(Proposals) - 1 ELSE 0)
  BY DEF LimitHolds, Engaged
<1>1. /\ IsFiniteSet(Engaged(a)) /\ IsFiniteSet(LetThrough(a)) /\ Limit[a] \in Nat
  BY CallsAreFinite
<1>2. /\ Cardinality(Engaged(a)) \in Nat /\ Cardinality(LetThrough(a)) \in Nat
      /\ Cardinality(Proposals) \in Nat
  BY <1>1, FS_CardinalityType, ProposalsAssumption
<1>3. Cardinality(Engaged(a)) + Cardinality(LetThrough(a)) <= Limit[a] - 1 + Width
  BY DEF LimitInv, RoomFor, Roomy
<1> QED
  BY <1>1, <1>2, <1>3 DEF Width

(* The counts of proposals handled one after the other let nobody into more open
   contracts than its limit, and of those handled at the same time each but one
   makes one too many at most.  What no count looked at (an observer's row, a
   handoff, an agent whose count failed) is not among them. *)
THEOREM LimitIsKept == ProposalsSpec => []LimitHolds
<1>1. ProposalsInit => LimitInv
  BY CallsInitInv, RoomInit DEF LimitInv
<1>2. LimitInv /\ [ProposalsNext]_proposalVars => LimitInv'
  <2> SUFFICES ASSUME LimitInv, [ProposalsNext]_proposalVars
               PROVE  LimitInv'
    OBVIOUS
  <2>1. CallsInv /\ CallsInv'
    BY CallsStepInv DEF LimitInv
  <2>2. ASSUME NEW a \in Parties, Limited(a)
        PROVE  RoomFor(a)'
    BY <2>1, <2>2, RoomStep DEF LimitInv
  <2> QED
    BY <2>1, <2>2 DEF LimitInv, Limited
<1> QED
  BY <1>1, <1>2, LimitInvHolds, PTL DEF ProposalsSpec

-----------------------------------------------------------------------------
(* Counting up to a number *)

(* A set of numbers that are not all missing has a least one. *)
LEMMA LeastNumber ==
    ASSUME NEW T \in SUBSET Nat, T # {}
    PROVE  \E n \in T : \A m \in T : n <= m
<1> DEFINE Q == {1 .. n : n \in T}
<1>1. Q \subseteq FiniteSubsetsOf(Nat) /\ Q # {}
  <2>1. ASSUME NEW n \in T
        PROVE  1 .. n \in FiniteSubsetsOf(Nat)
    <3>1. IsFiniteSet(1 .. n) /\ 1 .. n \subseteq Nat
      BY FS_Interval
    <3> QED
      BY <3>1 DEF FiniteSubsetsOf
  <2> QED
    BY <2>1
<1>2. PICK q \in Q : \A r \in Q : <<r, q>> \notin StrictSubsetOrdering(Nat)
  BY <1>1, FS_StrictSubsetOrderingWellFounded, WFMin
<1>3. PICK n \in T : q = 1 .. n
  BY <1>2
<1>4. ASSUME NEW m \in T, m < n
      PROVE  FALSE
  <2>1. 1 .. m \subseteq 1 .. n /\ n \in 1 .. n /\ n \notin 1 .. m
    BY <1>4
  <2>2. <<1 .. m, q>> \in StrictSubsetOrdering(Nat)
    BY <1>3, <2>1 DEF StrictSubsetOrdering
  <2> QED
    BY <1>2, <2>2
<1> QED
  BY <1>4

(* What holds of 1 and, up to a limit, of a number with the one before it,
   holds up to the limit. *)
LEMMA UpTo ==
    ASSUME NEW limit \in Nat, NEW T, 1 \in T,
           \A n \in 1 .. limit : n + 1 \in 1 .. limit /\ n \in T => n + 1 \in T
    PROVE  1 .. limit \subseteq T
<1> SUFFICES ASSUME (1 .. limit) \ T # {}
             PROVE  FALSE
  OBVIOUS
<1> DEFINE missing == (1 .. limit) \ T
<1>1. missing \in SUBSET Nat /\ missing # {}
  OBVIOUS
<1> HIDE DEF missing
<1>2. PICK n \in missing : \A m \in missing : n <= m
  BY <1>1, LeastNumber
<1> USE DEF missing
<1>3. n # 1 /\ n - 1 \in 1 .. limit
  BY <1>2
<1>4. n - 1 \in T
  BY <1>2, <1>3
<1> QED
  BY <1>2, <1>3, <1>4

-----------------------------------------------------------------------------
(* The trigger's walk *)

(* What is found from c in so many steps. *)
Found(c, rows) ==
    CHOOSE found : found = [depth \in 1 .. WalkDepth |->
        IF depth = 1 THEN {c}
        ELSE found[depth - 1] \cup
             {l.to : l \in {m \in rows : m.from \in found[depth - 1]}}]

Onward(nodes, rows) == {l.to : l \in {m \in rows : m.from \in nodes}}

(* The trigger's walk is that of Found. *)
LEMMA ReachableFound ==
    ASSUME NEW c, NEW rows
    PROVE  Reachable(c, rows) = Found(c, rows)[WalkDepth]
  BY DEF Reachable, Found

(* The walk is well defined. *)
LEMMA FoundUnfolds ==
    ASSUME NEW c, NEW rows
    PROVE  Found(c, rows) = [depth \in 1 .. WalkDepth |->
               IF depth = 1 THEN {c}
               ELSE Found(c, rows)[depth - 1] \cup
                    {l.to : l \in {m \in rows : m.from \in Found(c, rows)[depth - 1]}}]
<1> DEFINE Walk(f, n) == [depth \in 1 .. n |->
               IF depth = 1 THEN {c}
               ELSE f[depth - 1] \cup
                    {l.to : l \in {m \in rows : m.from \in f[depth - 1]}}]
           T == {n \in 1 .. WalkDepth : \E f : f = Walk(f, n)}
<1>1. WalkDepth \in Nat /\ 1 \in 1 .. WalkDepth
  BY LinksAssumption
<1>2. 1 \in T
  <2> DEFINE f == [depth \in 1 .. 1 |-> {c}]
  <2>1. f = Walk(f, 1)
    OBVIOUS
  <2> QED
    BY <1>1, <2>1
<1>3. ASSUME NEW n \in 1 .. WalkDepth, n + 1 \in 1 .. WalkDepth, n \in T
      PROVE  n + 1 \in T
  <2>1. PICK f : f = Walk(f, n)
    BY <1>3
  <2> DEFINE g == [depth \in 1 .. (n + 1) |->
                     IF depth = n + 1 THEN f[n] \cup
                        {l.to : l \in {m \in rows : m.from \in f[n]}}
                     ELSE f[depth]]
  <2>2. \A depth \in 1 .. n : g[depth] = f[depth]
    BY <1>3
  <2>3. ASSUME NEW depth \in 1 .. (n + 1)
        PROVE  g[depth] = Walk(g, n + 1)[depth]
    <3>1. CASE depth = n + 1
      <4>1. g[depth] = f[n] \cup {l.to : l \in {m \in rows : m.from \in f[n]}}
        BY <1>3, <3>1
      <4>2. depth # 1 /\ depth - 1 = n /\ g[n] = f[n]
        BY <1>3, <2>2, <3>1
      <4> QED
        BY <4>1, <4>2
    <3>2. CASE depth # n + 1
      <4>1. depth \in 1 .. n /\ g[depth] = f[depth]
        BY <1>3, <2>2, <3>2
      <4>2. f[depth] = Walk(f, n)[depth]
        BY <2>1
      <4>3. depth # 1 => depth - 1 \in 1 .. n /\ g[depth - 1] = f[depth - 1]
        BY <1>3, <2>2, <4>1
      <4> QED
        BY <4>1, <4>2, <4>3
    <3> QED
      BY <3>1, <3>2
  <2>4. g = Walk(g, n + 1)
    <3> DEFINE w == Walk(g, n + 1)
    <3>1. g = [depth \in 1 .. (n + 1) |-> g[depth]]
      OBVIOUS
    <3>2. w = [depth \in 1 .. (n + 1) |-> w[depth]]
      OBVIOUS
    <3>3. \A depth \in 1 .. (n + 1) : g[depth] = w[depth]
      BY <2>3
    <3> HIDE DEF g, w
    <3>4. g = w
      BY <3>1, <3>2, <3>3
    <3> QED
      BY <3>4 DEF w
  <2> QED
    BY <1>3, <2>4
<1> HIDE DEF T
<1>4. WalkDepth \in T
  BY <1>1, <1>2, <1>3, UpTo, LinksAssumption
<1>5. \E f : f = Walk(f, WalkDepth)
  BY <1>4 DEF T
<1> QED
  BY <1>5, Zenon DEF Found

(* The first step finds where the walk starts. *)
LEMMA FoundFirst ==
    ASSUME NEW c, NEW rows
    PROVE  Found(c, rows)[1] = {c}
<1> DEFINE f == Found(c, rows)
           Value(depth) == IF depth = 1 THEN {c} ELSE f[depth - 1] \cup
                             {l.to : l \in {m \in rows : m.from \in f[depth - 1]}}
<1>1. f = [depth \in 1 .. WalkDepth |-> Value(depth)]
  BY ONLY FoundUnfolds
<1> HIDE DEF f
<1>2. 1 \in 1 .. WalkDepth
  BY LinksAssumption
<1>3. Value(1) = {c}
  OBVIOUS
<1> HIDE DEF Value
<1>4. f[1] = {c}
  BY <1>1, <1>2, <1>3
<1> QED
  BY <1>4 DEF f

(* A later one adds where the links found so far lead. *)
LEMMA FoundNext ==
    ASSUME NEW c, NEW rows, NEW n \in 1 .. WalkDepth, n + 1 \in 1 .. WalkDepth
    PROVE  Found(c, rows)[n + 1] =
             Found(c, rows)[n] \cup Onward(Found(c, rows)[n], rows)
<1> DEFINE f == Found(c, rows)
           Value(depth) == IF depth = 1 THEN {c} ELSE f[depth - 1] \cup
                             {l.to : l \in {m \in rows : m.from \in f[depth - 1]}}
<1>1. f = [depth \in 1 .. WalkDepth |-> Value(depth)]
  BY ONLY FoundUnfolds
<1> HIDE DEF f
<1>2. n + 1 # 1 /\ (n + 1) - 1 = n
  OBVIOUS
<1>3. Value(n + 1) = f[n] \cup Onward(f[n], rows)
  BY <1>2 DEF Onward
<1> HIDE DEF Value
<1>4. f[n + 1] = f[n] \cup Onward(f[n], rows)
  BY <1>1, <1>3
<1> QED
  BY <1>4 DEF f

(* A link leads on. *)
LEMMA FoundLink ==
    ASSUME NEW c, NEW rows, NEW n \in 1 .. WalkDepth, n + 1 \in 1 .. WalkDepth,
           NEW l \in rows, l.from \in Found(c, rows)[n]
    PROVE  l.to \in Found(c, rows)[n + 1]
  BY FoundNext DEF Onward

(* More steps find more. *)
LEMMA FoundGrows ==
    ASSUME NEW c, NEW rows, NEW i \in 1 .. WalkDepth, NEW j \in 1 .. WalkDepth,
           i <= j
    PROVE  Found(c, rows)[i] \subseteq Found(c, rows)[j]
<1> DEFINE T == {n \in Nat : i + n - 1 \in 1 .. WalkDepth =>
                   Found(c, rows)[i] \subseteq Found(c, rows)[i + n - 1]}
<1>1. 1 \in T
  OBVIOUS
<1>2. ASSUME NEW n \in 1 .. WalkDepth, n \in T
      PROVE  n + 1 \in T
  <2> SUFFICES ASSUME i + (n + 1) - 1 \in 1 .. WalkDepth
               PROVE  Found(c, rows)[i] \subseteq Found(c, rows)[i + (n + 1) - 1]
    OBVIOUS
  <2>1. i + n - 1 \in 1 .. WalkDepth /\ i + (n + 1) - 1 = (i + n - 1) + 1
    BY LinksAssumption
  <2> QED
    BY <1>2, <2>1, FoundNext
<1> HIDE DEF T
<1>3. 1 .. WalkDepth \subseteq T
  BY <1>1, <1>2, UpTo, LinksAssumption
<1>4. j - i + 1 \in 1 .. WalkDepth /\ i + (j - i + 1) - 1 = j
  BY LinksAssumption
<1>5. j - i + 1 \in T
  BY <1>3, <1>4
<1> QED
  BY <1>4, <1>5 DEF T

(* More rows lead further. *)
LEMMA FoundAmongMore ==
    ASSUME NEW c, NEW rows, NEW more, rows \subseteq more,
           NEW n \in 1 .. WalkDepth
    PROVE  Found(c, rows)[n] \subseteq Found(c, more)[n]
<1> DEFINE T == {i \in 1 .. WalkDepth : Found(c, rows)[i] \subseteq Found(c, more)[i]}
<1>1. 1 \in T
  BY FoundFirst, LinksAssumption
<1>2. ASSUME NEW i \in 1 .. WalkDepth, i + 1 \in 1 .. WalkDepth, i \in T
      PROVE  i + 1 \in T
  BY <1>2, FoundNext DEF Onward
<1> HIDE DEF T
<1>3. 1 .. WalkDepth \subseteq T
  BY <1>1, <1>2, UpTo, LinksAssumption
<1> QED
  BY <1>3 DEF T

(* Two walks, one after the other, are a walk. *)
LEMMA FoundBeyond ==
    ASSUME NEW c, NEW rows, NEW i \in 1 .. WalkDepth, NEW j \in 1 .. WalkDepth,
           i + j - 1 \in 1 .. WalkDepth,
           NEW d \in Found(c, rows)[i]
    PROVE  Found(d, rows)[j] \subseteq Found(c, rows)[i + j - 1]
<1> DEFINE T == {n \in 1 .. WalkDepth : i + n - 1 \in 1 .. WalkDepth =>
                   Found(d, rows)[n] \subseteq Found(c, rows)[i + n - 1]}
<1>1. 1 \in T
  BY FoundFirst, LinksAssumption
<1>2. ASSUME NEW n \in 1 .. WalkDepth, n + 1 \in 1 .. WalkDepth, n \in T
      PROVE  n + 1 \in T
  <2> SUFFICES ASSUME i + (n + 1) - 1 \in 1 .. WalkDepth
               PROVE  Found(d, rows)[n + 1] \subseteq Found(c, rows)[i + (n + 1) - 1]
    BY <1>2
  <2>1. i + n - 1 \in 1 .. WalkDepth /\ i + (n + 1) - 1 = (i + n - 1) + 1
    BY LinksAssumption
  <2>2. Found(d, rows)[n] \subseteq Found(c, rows)[i + n - 1]
    BY <1>2, <2>1
  <2>3. Found(d, rows)[n + 1] =
          Found(d, rows)[n] \cup Onward(Found(d, rows)[n], rows)
    BY <1>2, FoundNext
  <2>4. Found(c, rows)[i + (n + 1) - 1] =
          Found(c, rows)[i + n - 1] \cup Onward(Found(c, rows)[i + n - 1], rows)
    BY <2>1, FoundNext
  <2> QED
    BY <2>2, <2>3, <2>4 DEF Onward
<1> HIDE DEF T
<1>3. 1 .. WalkDepth \subseteq T
  BY <1>1, <1>2, UpTo, LinksAssumption
<1> QED
  BY <1>3 DEF T

(* What one more link lets a walk find was found without it, or lies beyond it,
   and the walk to the link and the walk beyond share the steps. *)
LEMMA FoundOverLink ==
    ASSUME NEW c, NEW rows, NEW l, NEW n \in 1 .. WalkDepth,
           NEW d \in Found(c, rows \cup {l})[n]
    PROVE  \/ d \in Found(c, rows)[n]
           \/ \E i, j \in 1 .. WalkDepth : /\ i + j <= n
                                           /\ l.from \in Found(c, rows)[i]
                                           /\ d \in Found(l.to, rows)[j]
<1> DEFINE P(e, k) ==
             \/ e \in Found(c, rows)[k]
             \/ \E i, j \in 1 .. WalkDepth : /\ i + j <= k
                                             /\ l.from \in Found(c, rows)[i]
                                             /\ e \in Found(l.to, rows)[j]
           T == {k \in 1 .. WalkDepth : \A e \in Found(c, rows \cup {l})[k] : P(e, k)}
<1>1. 1 \in T
  BY FoundFirst, LinksAssumption
<1>2. ASSUME NEW k \in 1 .. WalkDepth, k + 1 \in 1 .. WalkDepth, k \in T
      PROVE  k + 1 \in T
  <2> SUFFICES ASSUME NEW e \in Found(c, rows \cup {l})[k + 1]
               PROVE  P(e, k + 1)
    BY <1>2
  <2>1. ASSUME NEW f, P(f, k)
        PROVE  P(f, k + 1)
    <3>1. CASE f \in Found(c, rows)[k]
      BY <1>2, <3>1, FoundGrows
    <3>2. CASE f \notin Found(c, rows)[k]
      BY <1>2, <2>1, <3>2
    <3> QED
      BY <3>1, <3>2
  <2>2. CASE e \in Found(c, rows \cup {l})[k]
    BY <1>2, <2>1, <2>2
  <2>3. ASSUME NEW m \in rows \cup {l}, m.from \in Found(c, rows \cup {l})[k],
               e = m.to
        PROVE  P(e, k + 1)
    <3>1. P(m.from, k)
      BY <1>2, <2>3
    <3>2. CASE m \in rows /\ m.from \in Found(c, rows)[k]
      BY <1>2, <2>3, <3>2, FoundLink
    <3>3. CASE m \in rows /\ m.from \notin Found(c, rows)[k]
      <4>1. PICK i \in 1 .. WalkDepth, j \in 1 .. WalkDepth :
              /\ i + j <= k
              /\ l.from \in Found(c, rows)[i]
              /\ m.from \in Found(l.to, rows)[j]
        BY <3>1, <3>3
      <4>2. j + 1 \in 1 .. WalkDepth /\ i + (j + 1) <= k + 1
        BY <1>2, <4>1, LinksAssumption
      <4>3. e \in Found(l.to, rows)[j + 1]
        BY <2>3, <3>3, <4>1, <4>2, FoundLink
      <4> QED
        BY <4>1, <4>2, <4>3
    <3>4. CASE m = l
      <4>1. 1 \in 1 .. WalkDepth /\ e \in Found(l.to, rows)[1]
        BY <2>3, <3>4, FoundFirst, LinksAssumption
      <4>2. CASE l.from \in Found(c, rows)[k]
        BY <1>2, <4>1, <4>2
      <4>3. CASE l.from \notin Found(c, rows)[k]
        <5>1. PICK i \in 1 .. WalkDepth, j \in 1 .. WalkDepth :
                i + j <= k /\ l.from \in Found(c, rows)[i]
          BY <3>1, <3>4, <4>3
        <5>2. i + 1 <= k + 1
          BY <5>1
        <5> QED
          BY <4>1, <5>1, <5>2
      <4> QED
        BY <4>2, <4>3
    <3> QED
      BY <3>2, <3>3, <3>4
  <2>4. e \in Found(c, rows \cup {l})[k] \cup
               Onward(Found(c, rows \cup {l})[k], rows \cup {l})
    BY <1>2, FoundNext
  <2> HIDE DEF P
  <2> QED
    BY <2>2, <2>3, <2>4 DEF Onward
<1> HIDE DEF T
<1>3. 1 .. WalkDepth \subseteq T
  BY <1>1, <1>2, UpTo, LinksAssumption
<1> QED
  BY <1>3 DEF T

-----------------------------------------------------------------------------
(* The links *)

(* The writers between their trigger and the commit. *)
Open(w) == inserting[w] # NoLink

(* Unless two insertions were open at a time there is one writer at work at most,
   and the link it has inserted would still be let through. *)
LinksInv ==
    /\ LinksTypeOK
    /\ NoCycle
    /\ ~sideBySide =>
          /\ \A v, w \in Writers : Open(v) /\ Open(w) => v = w
          /\ \A w \in Writers : Open(w) => ~ClosesCycle(inserting[w])

(* There are no links and no writers at first. *)
LEMMA LinksInitTypes == LinksInit => LinksTypeOK
  BY DEF LinksInit, LinksTypeOK

(* A step inserts, commits or deletes a link. *)
LEMMA LinksStepTypes == LinksTypeOK /\ [LinksNext]_linkVars => LinksTypeOK'
<1> SUFFICES ASSUME LinksTypeOK, [LinksNext]_linkVars
             PROVE  LinksTypeOK'
  OBVIOUS
<1> USE DEF LinksTypeOK
<1>1. ASSUME NEW w \in Writers, NEW l \in Links, InsertLink(w, l)
      PROVE  LinksTypeOK'
  <2>1. (sideBySide \/ \E v \in Writers \ {w} : inserting[v] # NoLink) \in BOOLEAN
    OBVIOUS
  <2> QED
    BY <1>1, <2>1 DEF InsertLink
<1>2. ASSUME NEW w \in Writers, CommitLink(w)
      PROVE  LinksTypeOK'
  BY <1>2 DEF CommitLink
<1>3. ASSUME NEW l \in Links, DeleteLink(l)
      PROVE  LinksTypeOK'
  BY <1>3 DEF DeleteLink
<1>4. CASE UNCHANGED linkVars
  BY <1>4 DEF linkVars
<1> QED
  BY <1>1, <1>2, <1>3, <1>4 DEF LinksNext

(* The rows and what the writers hold keep their types. *)
THEOREM LinksTypes == LinksSpec => []LinksTypeOK
  BY LinksInitTypes, LinksStepTypes, PTL DEF LinksSpec

(* A link that would be let through closes no cycle once it is there. *)
LEMMA OneMoreLink ==
    ASSUME NEW rows \in SUBSET Links, NEW l \in Links,
           l.from \notin Reachable(l.to, rows),
           \A m \in rows : m.from \notin Reachable(m.to, rows)
    PROVE  \A m \in rows \cup {l} : m.from \notin Reachable(m.to, rows \cup {l})
<1> SUFFICES ASSUME NEW m \in rows \cup {l},
                    m.from \in Reachable(m.to, rows \cup {l})
             PROVE  FALSE
  OBVIOUS
<1>1. WalkDepth \in 1 .. WalkDepth
  BY LinksAssumption
<1>2. m.from \in Found(m.to, rows \cup {l})[WalkDepth]
  BY ReachableFound
<1>3. /\ \A e \in rows : e.from \notin Found(e.to, rows)[WalkDepth]
      /\ l.from \notin Found(l.to, rows)[WalkDepth]
  BY ReachableFound
<1>4. CASE m.from \in Found(m.to, rows)[WalkDepth]
  BY <1>3, <1>4
<1>5. ASSUME NEW i \in 1 .. WalkDepth, NEW j \in 1 .. WalkDepth, i + j <= WalkDepth,
             l.from \in Found(m.to, rows)[i], m.from \in Found(l.to, rows)[j]
      PROVE  FALSE
  <2>1. CASE m = l
    BY <1>1, <1>3, <1>5, <2>1, FoundGrows
  <2>2. CASE m \in rows
    <3>1. j + 1 \in 1 .. WalkDepth /\ (j + 1) + i - 1 \in 1 .. WalkDepth
      BY <1>5, LinksAssumption
    <3>2. m.to \in Found(l.to, rows)[j + 1]
      BY <1>5, <2>2, <3>1, FoundLink
    <3>3. l.from \in Found(l.to, rows)[(j + 1) + i - 1]
      BY <1>5, <3>1, <3>2, FoundBeyond
    <3>4. (j + 1) + i - 1 <= WalkDepth
      BY <3>1
    <3> QED
      BY <1>1, <1>3, <3>1, <3>3, <3>4, FoundGrows
  <2> QED
    BY <2>1, <2>2
<1> QED
  BY <1>1, <1>2, <1>4, <1>5, FoundOverLink

(* A link less lets no more of them close a cycle. *)
LEMMA OneLinkLess ==
    ASSUME NEW rows, NEW l, NEW c
    PROVE  Reachable(c, rows \ {l}) \subseteq Reachable(c, rows)
<1>1. WalkDepth \in 1 .. WalkDepth
  BY LinksAssumption
<1>2. rows \ {l} \subseteq rows
  OBVIOUS
<1> QED
  BY <1>1, <1>2, ReachableFound, FoundAmongMore

(* Without links there is no cycle. *)
LEMMA LinksInitInv == LinksInit => LinksInv
  BY LinksInitTypes DEF LinksInit, LinksInv, NoCycle, Open

(* A link inserted alone was walked over all that are there when it comes. *)
LEMMA LinksStepInv == LinksInv /\ [LinksNext]_linkVars => LinksInv'
<1> SUFFICES ASSUME LinksInv, [LinksNext]_linkVars
             PROVE  LinksInv'
  OBVIOUS
<1>1. LinksTypeOK /\ LinksTypeOK'
  BY LinksStepTypes DEF LinksInv
<1>2. ASSUME NEW w \in Writers, NEW l \in Links, InsertLink(w, l)
      PROVE  LinksInv'
  <2> SUFFICES ASSUME ~sideBySide'
               PROVE  /\ NoCycle'
                      /\ \A u, v \in Writers : Open(u)' /\ Open(v)' => u = v
                      /\ \A v \in Writers : Open(v)' => ~ClosesCycle(inserting[v])'
    BY <1>1 DEF LinksInv, NoCycle
  <2>1. /\ ~sideBySide /\ links' = links
        /\ inserting' = [inserting EXCEPT ![w] = l]
        /\ \A v \in Writers \ {w} : inserting[v] = NoLink
        /\ l.from \notin Reachable(l.to, links)
    BY <1>1, <1>2 DEF InsertLink, ClosesCycle
  <2>2. NoCycle'
    BY <2>1 DEF LinksInv, NoCycle
  <2>3. \A v \in Writers : Open(v)' => v = w /\ inserting'[v] = l
    BY <1>1, <2>1 DEF Open, LinksTypeOK
  <2> QED
    BY <2>1, <2>2, <2>3 DEF ClosesCycle
<1>3. ASSUME NEW w \in Writers, CommitLink(w)
      PROVE  LinksInv'
  <2> SUFFICES ASSUME ~sideBySide'
               PROVE  /\ NoCycle'
                      /\ \A u, v \in Writers : Open(u)' /\ Open(v)' => u = v
                      /\ \A v \in Writers : Open(v)' => ~ClosesCycle(inserting[v])'
    BY <1>1 DEF LinksInv, NoCycle
  <2> DEFINE l == inserting[w]
  <2>1. /\ ~sideBySide /\ Open(w) /\ l \in Links
        /\ links' = links \cup {l}
        /\ inserting' = [inserting EXCEPT ![w] = NoLink]
    BY <1>1, <1>3 DEF CommitLink, Open, LinksTypeOK
  <2>2. l.from \notin Reachable(l.to, links)
    BY <2>1 DEF LinksInv, ClosesCycle
  <2>3. \A v \in Writers : ~Open(v)'
    BY <1>1, <2>1 DEF LinksInv, Open, LinksTypeOK
  <2>4. \A m \in links : m.from \notin Reachable(m.to, links)
    BY <2>1 DEF LinksInv, NoCycle
  <2>5. \A m \in links \cup {l} : m.from \notin Reachable(m.to, links \cup {l})
    <3> HIDE DEF l
    <3> QED
      BY <1>1, <2>1, <2>2, <2>4, OneMoreLink DEF LinksTypeOK
  <2> QED
    BY <2>1, <2>3, <2>5 DEF NoCycle
<1>4. ASSUME NEW l \in Links, DeleteLink(l)
      PROVE  LinksInv'
  <2>1. links' = links \ {l} /\ links' \subseteq links /\ UNCHANGED <<inserting, sideBySide>>
    BY <1>4 DEF DeleteLink
  <2>2. \A c : Reachable(c, links') \subseteq Reachable(c, links)
    BY <2>1, OneLinkLess
  <2>3. NoCycle'
    BY <2>1, <2>2 DEF LinksInv, NoCycle
  <2>4. \A v \in Writers : Open(v)' = Open(v)
    BY <2>1 DEF Open
  <2>5. \A v \in Writers : ClosesCycle(inserting[v])' => ClosesCycle(inserting[v])
    BY <2>1, <2>2 DEF ClosesCycle
  <2> QED
    BY <1>1, <2>1, <2>3, <2>4, <2>5 DEF LinksInv
<1>5. CASE UNCHANGED linkVars
  <2>1. NoCycle' /\ sideBySide' = sideBySide
    BY <1>5 DEF linkVars, LinksInv, NoCycle
  <2>2. \A v \in Writers : Open(v)' = Open(v)
    BY <1>5 DEF linkVars, Open
  <2>3. \A v \in Writers : ClosesCycle(inserting[v])' = ClosesCycle(inserting[v])
    BY <1>5 DEF linkVars, ClosesCycle
  <2> QED
    BY <1>1, <2>1, <2>2, <2>3 DEF LinksInv
<1> QED
  BY <1>2, <1>3, <1>4, <1>5 DEF LinksNext

(* The trigger's promise: links of whatever types, inserted one at a time, lead
   nowhere back within the depth of its walk. *)
THEOREM LinksStayAcyclic == LinksSpec => []NoCycle
<1>1. LinksInv => NoCycle
  BY DEF LinksInv
<1> QED
  BY <1>1, LinksInitInv, LinksStepInv, PTL DEF LinksSpec

-----------------------------------------------------------------------------
(* No more contracts than the walk has steps *)

(* Where every link that starts leads stays. *)
Closed(nodes, rows) == Onward(nodes, rows) \subseteq nodes

(* Every contract of a set has a link to another of it. *)
Circular(nodes, rows) ==
    \A c \in nodes : \E l \in rows : l.from = c /\ l.to \in nodes

(* The walk does not leave a closed set it starts in. *)
LEMMA FoundWithinClosed ==
    ASSUME NEW rows, NEW nodes, Closed(nodes, rows), NEW c \in nodes,
           NEW n \in 1 .. WalkDepth
    PROVE  Found(c, rows)[n] \subseteq nodes
<1> DEFINE T == {i \in 1 .. WalkDepth : Found(c, rows)[i] \subseteq nodes}
<1>1. 1 \in T
  BY FoundFirst, LinksAssumption
<1>2. ASSUME NEW i \in 1 .. WalkDepth, i + 1 \in 1 .. WalkDepth, i \in T
      PROVE  i + 1 \in T
  BY <1>2, FoundNext DEF Closed, Onward
<1> HIDE DEF T
<1>3. 1 .. WalkDepth \subseteq T
  BY <1>1, <1>2, UpTo, LinksAssumption
<1> QED
  BY <1>3 DEF T

(* Each step finds something new until there is no more to find. *)
LEMMA FoundClosedOrMany ==
    ASSUME IsFiniteSet(Linkable), NEW rows \in SUBSET Links, NEW c \in Linkable,
           NEW n \in 1 .. WalkDepth
    PROVE  Closed(Found(c, rows)[n], rows) \/ n <= Cardinality(Found(c, rows)[n])
<1>1. Closed(Linkable, rows)
  BY DEF Closed, Onward, Links
<1> DEFINE T == {i \in 1 .. WalkDepth : \/ Closed(Found(c, rows)[i], rows)
                                       \/ i <= Cardinality(Found(c, rows)[i])}
<1>2. 1 \in T
  BY FoundFirst, FS_Singleton, LinksAssumption
<1>3. ASSUME NEW i \in 1 .. WalkDepth, i + 1 \in 1 .. WalkDepth, i \in T
      PROVE  i + 1 \in T
  <2> DEFINE now == Found(c, rows)[i]
             next == Found(c, rows)[i + 1]
  <2>1. now \subseteq Linkable /\ next \subseteq Linkable
    BY <1>1, <1>3, FoundWithinClosed
  <2>2. next = now \cup Onward(now, rows)
    BY <1>3, FoundNext
  <2>3. IsFiniteSet(now) /\ IsFiniteSet(next)
    BY <2>1, FS_Subset
  <2>4. Cardinality(now) \in Nat /\ Cardinality(next) \in Nat
    BY <2>3, FS_CardinalityType
  <2> HIDE DEF now, next
  <2>5. CASE Closed(now, rows)
    BY <1>3, <2>2, <2>5 DEF Closed, now, next
  <2>6. CASE ~Closed(now, rows)
    <3>1. now \subseteq next /\ now # next
      BY <2>2, <2>6 DEF Closed
    <3>2. Cardinality(now) < Cardinality(next)
      BY <2>3, <2>4, <3>1, FS_Subset
    <3>3. i <= Cardinality(now)
      BY <1>3, <2>6 DEF now
    <3>4. i + 1 <= Cardinality(next)
      BY <2>4, <3>2, <3>3
    <3> QED
      BY <1>3, <3>4 DEF next
  <2> QED
    BY <2>5, <2>6
<1> HIDE DEF T
<1>4. 1 .. WalkDepth \subseteq T
  BY <1>2, <1>3, UpTo, LinksAssumption
<1> QED
  BY <1>4 DEF T

(* With no more contracts than steps the walk finds all there is. *)
LEMMA WalkIsComplete ==
    ASSUME IsFiniteSet(Linkable), Cardinality(Linkable) <= WalkDepth,
           NEW rows \in SUBSET Links, NEW c \in Linkable
    PROVE  /\ c \in Reachable(c, rows)
           /\ Reachable(c, rows) \subseteq Linkable
           /\ Closed(Reachable(c, rows), rows)
<1> DEFINE all == Found(c, rows)[WalkDepth]
<1>1. /\ WalkDepth \in 1 .. WalkDepth /\ 1 \in 1 .. WalkDepth /\ 1 <= WalkDepth
      /\ Cardinality(Linkable) \in Nat
  BY FS_CardinalityType, LinksAssumption
<1>2. c \in all
  BY <1>1, FoundFirst, FoundGrows
<1>3. Closed(Linkable, rows)
  BY DEF Closed, Onward, Links
<1>4. all \subseteq Linkable
  BY <1>1, <1>3, FoundWithinClosed
<1>5. Closed(all, rows) \/ WalkDepth <= Cardinality(all)
  BY <1>1, FoundClosedOrMany
<1> HIDE DEF all
<1>6. CASE WalkDepth <= Cardinality(all)
  <2>1. IsFiniteSet(all) /\ Cardinality(all) \in Nat
    BY <1>4, FS_Subset, FS_CardinalityType
  <2>2. Cardinality(all) <= Cardinality(Linkable)
    BY <1>4, FS_Subset
  <2>3. Cardinality(all) = Cardinality(Linkable)
    BY <1>1, <1>6, <2>1, <2>2, LinksAssumption
  <2>4. all = Linkable
    BY <1>4, <2>3, FS_Subset
  <2> QED
    BY <1>2, <1>3, <1>4, <2>4, ReachableFound DEF all
<1> QED
  BY <1>2, <1>4, <1>5, <1>6, ReachableFound DEF all

(* Then a cycle of any length is one the trigger finds. *)
LEMMA NoneCircular ==
    ASSUME IsFiniteSet(Linkable), Cardinality(Linkable) <= WalkDepth,
           NEW rows \in SUBSET Links,
           \A l \in rows : l.from \notin Reachable(l.to, rows),
           NEW nodes \in SUBSET Linkable, Circular(nodes, rows)
    PROVE  nodes = {}
<1> SUFFICES ASSUME nodes # {}
             PROVE  FALSE
  OBVIOUS
<1> DEFINE found == {Reachable(c, rows) : c \in nodes}
<1>1. found \subseteq FiniteSubsetsOf(Linkable) /\ found # {}
  <2>1. ASSUME NEW c \in nodes
        PROVE  Reachable(c, rows) \in FiniteSubsetsOf(Linkable)
    <3>1. Reachable(c, rows) \subseteq Linkable
      BY WalkIsComplete
    <3> QED
      BY <3>1, FS_Subset DEF FiniteSubsetsOf
  <2> QED
    BY <2>1
<1> HIDE DEF found
<1>2. PICK least \in found :
        \A other \in found : <<other, least>> \notin StrictSubsetOrdering(Linkable)
  BY <1>1, FS_StrictSubsetOrderingWellFounded, WFMin
<1>3. PICK c \in nodes : least = Reachable(c, rows)
  BY <1>2 DEF found
<1>4. PICK l \in rows : l.from = c /\ l.to \in nodes
  BY DEF Circular
<1>5. c \in Reachable(c, rows) /\ Closed(Reachable(c, rows), rows)
  BY WalkIsComplete
<1>6. l.to \in Reachable(c, rows)
  BY <1>4, <1>5 DEF Closed, Onward
<1>7. Reachable(l.to, rows) \subseteq Reachable(c, rows)
  BY <1>5, <1>6, FoundWithinClosed, ReachableFound, LinksAssumption
<1>8. Reachable(l.to, rows) # Reachable(c, rows)
  BY <1>4, <1>5
<1>9. Reachable(l.to, rows) \in found
  BY <1>4 DEF found
<1>10. <<Reachable(l.to, rows), least>> \in StrictSubsetOrdering(Linkable)
  BY <1>1, <1>2, <1>3, <1>7, <1>8, <1>9 DEF StrictSubsetOrdering, FiniteSubsetsOf
<1> QED
  BY <1>2, <1>9, <1>10

(* What NoCycle is worth: no contract leads back to itself, over any number of
   links, while there are no more contracts than the trigger's walk has steps. *)
NoCircle ==
    ~sideBySide => \A nodes \in SUBSET Linkable : Circular(nodes, links) => nodes = {}

(* Among no more contracts than the trigger's walk has steps there is no cycle of
   any length, as long as links are inserted one at a time. *)
THEOREM NoCircleAmongFew ==
    ASSUME IsFiniteSet(Linkable), Cardinality(Linkable) <= WalkDepth
    PROVE  LinksSpec => []NoCircle
<1>1. LinksInv => NoCircle
  BY NoneCircular DEF LinksInv, LinksTypeOK, NoCycle, NoCircle
<1> QED
  BY <1>1, LinksInitInv, LinksStepInv, PTL DEF LinksSpec
=============================================================================
