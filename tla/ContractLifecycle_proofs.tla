---------------------- MODULE ContractLifecycle_proofs ----------------------
(***************************************************************************)
(* The safety properties of ContractLifecycle, for any agents, any number  *)
(* of concurrent handlers and any turn budget.                             *)
(*                                                                         *)
(* None of the properties is inductive: what keeps them is what a handler  *)
(* in flight still holds.  IInv adds exactly that.                         *)
(***************************************************************************)
EXTENDS ContractLifecycle, TLAPS

-----------------------------------------------------------------------------
(* The inductive invariant *)

(* A proposal is untouched, and a live contract is not refused. *)
FreshUntilActive ==
    /\ contract.status = "proposed" =>
          contract.current_turns = 0 /\ ~contract.completion_approved
    /\ Live(contract.status) => ~contract.closed_without_approval

SomeRejection == \E i \in Invitees : participant[i] = "rejected"

EventTrue(e) ==
    /\ e.outcome = "completed-approved" => contract.completion_approved
    /\ e.outcome = "closed-unapproved" => contract.closed_without_approval
    /\ e.event = "contract.accepted" =>
          Unanimous /\ contract.status # "proposed"
    /\ e.event = "contract.rejected" => SomeRejection

(* What a handler in flight holds agrees with the rows: only an invitee
   answers, one about to activate counted only acceptances, one about to
   reject the contract recorded its rejection, an approval it saw is still
   there, and what it is about to announce is true. *)
SlotOK(q) ==
    /\ q.pc \in {"load", "respond"} /\ q.op \in ResponseOps =>
          q.agent \in Invitees
    /\ q.pc = "respond" => q.op \in ResponseOps
    /\ q.pc = "activate" => Unanimous
    /\ q.pc = "commit" /\ q.op = "reject" => SomeRejection
    /\ q.seen.completion_approved => contract.completion_approved
    /\ EventTrue(q.event)

SlotsOK == \A r \in Requests : SlotOK(req[r])

RowInv ==
    /\ UnanimousActivation
    /\ ExhaustedOnlyAwaitingApproval
    /\ GateHolds
    /\ OneVerdict
    /\ FreshUntilActive

IInv == TypeOK /\ RowInv /\ SlotsOK /\ AnnouncedTrue

-----------------------------------------------------------------------------
(* What the helpers of a step do to the rows *)

USE DEF tables, system

(* An ending writes two columns of the row and keeps the others. *)
LEMMA EndedRow ==
    ASSUME contract \in Contract, NEW s \in EndedStatuses, NEW c \in Closers
    PROVE  /\ Ended(s, c) \in Contract
           /\ Ended(s, c).status = s
           /\ Ended(s, c).closed_by = c
           /\ Ended(s, c).current_turns = contract.current_turns
           /\ Ended(s, c).completion_approved = contract.completion_approved
           /\ Ended(s, c).closed_without_approval =
                 contract.closed_without_approval
  BY DEF Contract, Ended, ContractStatuses

(* Expiry ends a contract, whatever status was read. *)
LEMMA ExpiredIsEnded ==
    \A status : /\ ExpiredStatus(status) \in EndedStatuses
                /\ ExpiredStatus(status) \in {"expired", "closed"}
  BY DEF ExpiredStatus, EndedStatuses

(* The closers of expiry are none of those that end a contract for a reason. *)
LEMMA ExpiryClosers ==
    /\ {"system:expiry", "system:expiry-sweep"} \subseteq Closers
    /\ {"system:expiry", "system:expiry-sweep"} \cap ConcludingClosers = {}
  BY DEF Closers, ConcludingClosers

(* The close of an agent or an operator also records the refusal. *)
LEMMA ClosedRow ==
    ASSUME contract \in Contract, NEW c \in {"agent", "user"}, NEW w \in BOOLEAN
    PROVE  LET row == [Ended("closed", c) EXCEPT !.closed_without_approval = w]
           IN /\ row \in Contract
              /\ row.status = "closed"
              /\ row.closed_by = c
              /\ row.current_turns = contract.current_turns
              /\ row.completion_approved = contract.completion_approved
              /\ row.closed_without_approval = w
  BY DEF Contract, Ended, ContractStatuses, EndedStatuses, Closers

(* Activation writes the status alone. *)
LEMMA ActivatedRow ==
    ASSUME contract \in Contract
    PROVE  LET row == [contract EXCEPT !.status = "active"]
           IN /\ row \in Contract
              /\ row.status = "active"
              /\ row.current_turns = contract.current_turns
              /\ row.completion_approved = contract.completion_approved
              /\ row.closed_by = contract.closed_by
              /\ row.closed_without_approval = contract.closed_without_approval
  BY DEF Contract, ContractStatuses, LiveStatuses

(* insert_message_atomic keeps the row's type and the turns in the budget. *)
LEMMA MessageRowFields ==
    ASSUME contract \in Contract, NEW type \in MessageTypes, NEW a,
           InsertAllowed(type, a)
    PROVE  LET row == MessageRow(type)
               ends == ApprovalCloses(type) \/ LastTurnCloses(type)
           IN /\ row \in Contract
              /\ TurnsAfter(type) \in 0..MaxTurns
              /\ row.status = IF ends THEN "closed" ELSE "active"
              /\ row.closed_by = IF ends THEN MessageCloser(type)
                                         ELSE contract.closed_by
              /\ row.current_turns = TurnsAfter(type)
              /\ row.completion_approved = ApprovedAfter(type)
              /\ row.closed_without_approval = contract.closed_without_approval
<1>1. TurnsAfter(type) \in 0..MaxTurns
  BY ContractAssumption DEF TurnsAfter, InsertAllowed, Contract, ConsumesTurn
<1>2. ApprovedAfter(type) \in BOOLEAN
  BY DEF ApprovedAfter, Contract
<1>3. MessageCloser(type) \in Closers
  BY DEF MessageCloser, Closers
<1>4. CASE ApprovalCloses(type) \/ LastTurnCloses(type)
  <2>1. MessageRow(type) = [contract EXCEPT !.current_turns = TurnsAfter(type),
                               !.completion_approved = ApprovedAfter(type),
                               !.status = "closed",
                               !.closed_by = MessageCloser(type)]
    BY <1>4, Zenon DEF MessageRow
  <2> QED
    BY <1>1, <1>2, <1>3, <1>4, <2>1 DEF Contract, ContractStatuses, EndedStatuses
<1>5. CASE ~(ApprovalCloses(type) \/ LastTurnCloses(type))
  <2>1. MessageRow(type) = [contract EXCEPT !.current_turns = TurnsAfter(type),
                               !.completion_approved = ApprovedAfter(type),
                               !.status = contract.status,
                               !.closed_by = contract.closed_by]
    BY <1>5, Zenon DEF MessageRow
  <2>2. contract.status = "active"
    BY DEF InsertAllowed
  <2> QED
    BY <1>1, <1>2, <1>5, <2>1, <2>2 DEF Contract
<1> QED
  BY <1>4, <1>5

(* Every closure event the handlers build is one. *)
LEMMA ClosedEventType ==
    ASSUME NEW status, NEW closedBy, NEW approved, NEW w
    PROVE  ClosedEvent(status, closedBy, approved, w) \in ClosureEvents
<1>1. CloseOutcome(closedBy, approved, w) \in Outcomes
  BY DEF CloseOutcome, Outcomes
<1> QED
  BY <1>1 DEF ClosedEvent, ClosureEvents

(* A slot is rewritten whole, and the others are left alone. *)
LEMMA HoldEffect ==
    ASSUME req \in [Requests -> Request], NEW r \in Requests,
           NEW pc \in Positions \ {"announce"}, NEW op \in Ops,
           NEW a \in Participants, NEW s \in Snapshot, Hold(r, pc, op, a, s)
    PROVE  /\ req' \in [Requests -> Request]
           /\ req'[r] = Held(pc, op, a, s, NoEvent)
           /\ \A q \in Requests \ {r} : req'[q] = req[q]
  BY DEF Hold, Held, Request

(* An empty slot is a slot. *)
LEMMA IdleType == Idle \in Request /\ NoSnapshot \in Snapshot
  BY DEF Idle, Held, Request, Positions, Ops, Participants, NoSnapshot, Snapshot,
         ContractStatuses, LiveStatuses

(* Ending a handler empties its slot alone. *)
LEMMA FinishEffect ==
    ASSUME req \in [Requests -> Request], NEW r \in Requests, Finish(r)
    PROVE  /\ req' \in [Requests -> Request]
           /\ req'[r] = Idle
           /\ \A q \in Requests \ {r} : req'[q] = req[q]
  BY IdleType DEF Finish

(* A handler left to announce holds its event, and no other slot changes. *)
LEMMA FinishWithEffect ==
    ASSUME req \in [Requests -> Request], NEW r \in Requests,
           NEW e \in Events, FinishWith(r, e)
    PROVE  /\ req' \in [Requests -> Request]
           /\ req'[r] = Held("announce", "read", Proposer, NoSnapshot, e)
           /\ \A q \in Requests \ {r} : req'[q] = req[q]
<1>1. Held("announce", "read", Proposer, NoSnapshot, e) \in Request
  BY IdleType DEF Held, Request, Positions, Ops, Participants
<1> QED
  BY <1>1 DEF FinishWith

-----------------------------------------------------------------------------
(* Types *)

(* TypeOK is inductive: the turns stay in the budget because the database
   checks them again under the row lock. *)
LEMMA TypeStep == TypeOK /\ [Next]_vars => TypeOK'
<1> SUFFICES ASSUME TypeOK, [Next]_vars PROVE TypeOK'
  OBVIOUS
<1> USE DEF TypeOK
<1>1. ASSUME NEW r \in Requests, Begin(r) PROVE TypeOK'
  <2>1. PICK op \in Ops, agent \in Participants :
               Hold(r, "load", op, agent, NoSnapshot)
    BY <1>1 DEF Begin
  <2>2. req' \in [Requests -> Request]
    BY <2>1, HoldEffect, IdleType DEF Positions
  <2> QED
    BY <1>1, <2>2 DEF Begin
<1>2. ASSUME NEW r \in Requests, LoadContract(r) PROVE TypeOK'
  <2> DEFINE seen == [status |-> contract.status,
                      completion_approved |-> contract.completion_approved]
  <2>1. seen \in Snapshot
    BY DEF Snapshot, Contract
  <2>2. /\ {"load", "autoclose", "respond", "commit"} \subseteq Positions
        /\ {"read", "close", "operator-close"} \subseteq Ops
        /\ Proposer \in Participants
        /\ req[r].op \in Ops
        /\ req[r].agent \in Participants
    BY DEF Positions, Ops, Participants, Request, CloseOps, OperatorOps
  <2>3. req' \in [Requests -> Request]
    BY <1>2, <2>1, <2>2, HoldEffect, FinishEffect, IdleType DEF LoadContract
  <2> QED
    BY <1>2, <2>3 DEF LoadContract
<1>3. ASSUME NEW r \in Requests, AutoClose(r) PROVE TypeOK'
  <2>1. contract' \in Contract
    BY <1>3, EndedRow, ExpiredIsEnded, ExpiryClosers DEF AutoClose, AutoCloseRow
  <2>2. req' \in [Requests -> Request]
    BY <1>3, ClosedEventType, FinishWithEffect DEF AutoClose, Events
  <2> QED
    BY <1>3, <2>1, <2>2 DEF AutoClose
<1>4. ASSUME NEW r \in Requests, AutoCloseFails(r) PROVE TypeOK'
  BY <1>4, ClosedEventType, FinishWithEffect DEF AutoCloseFails, Events
<1>5. ASSUME NEW r \in Requests, Respond(r) PROVE TypeOK'
  <2>1. /\ {"count", "commit"} \subseteq Positions
        /\ Proposer \in Participants
        /\ req[r].op \in Ops
    BY DEF Positions, Participants, Request
  <2>2. req' \in [Requests -> Request]
    BY <1>5, <2>1, HoldEffect, FinishEffect, IdleType DEF Respond
  <2> QED
    BY <1>5, <2>2 DEF Respond
<1>6. ASSUME NEW r \in Requests, CountAccepted(r) PROVE TypeOK'
  BY <1>6, HoldEffect, FinishEffect, IdleType
     DEF CountAccepted, Positions, Ops, ResponseOps, Participants
<1>7. ASSUME NEW r \in Requests, Activate(r) PROVE TypeOK'
  BY <1>7, ActivatedRow, FinishEffect, FinishWithEffect
     DEF Activate, Events, OtherEvents
<1>8. ASSUME NEW r \in Requests, RejectContract(r) PROVE TypeOK'
  BY <1>8, EndedRow, FinishWithEffect
     DEF RejectContract, Events, OtherEvents, EndedStatuses, Closers
<1>9. ASSUME NEW r \in Requests, CancelContract(r) PROVE TypeOK'
  BY <1>9, EndedRow, FinishWithEffect, FinishEffect
     DEF CancelContract, Events, OtherEvents, EndedStatuses, Closers
<1>10. ASSUME NEW r \in Requests, CloseContract(r) PROVE TypeOK'
  <2>1. ClosedWithoutApproval(req[r].seen.completion_approved) \in BOOLEAN
    BY DEF ClosedWithoutApproval, GatePending
  <2> QED
    BY <1>10, <2>1, ClosedRow, ClosedEventType, FinishWithEffect, FinishEffect
       DEF CloseContract, Events
<1>11. ASSUME NEW r \in Requests, InsertMessage(r) PROVE TypeOK'
  <2> DEFINE type == req[r].op
  <2>1. CASE ~InsertAllowed(type, req[r].agent)
    BY <1>11, <2>1, FinishEffect DEF InsertMessage
  <2>2. CASE InsertAllowed(type, req[r].agent)
    <3>1. type \in MessageTypes
      BY <1>11 DEF InsertMessage
    <3>2. MessageRow(type) \in Contract /\ TurnsAfter(type) \in 0..MaxTurns
      BY <2>2, <3>1, MessageRowFields
    <3>3. [message_type |-> type, turn_number |-> TurnsAfter(type)] \in Message
      BY <3>1, <3>2 DEF Message
    <3>4. req' \in [Requests -> Request]
      BY <1>11, <2>2, ClosedEventType, FinishWithEffect, FinishEffect
         DEF InsertMessage, Events
    <3>5. messages' \in Seq(Message)
      BY <1>11, <2>2, <3>3 DEF InsertMessage
    <3> QED
      BY <1>11, <2>2, <3>2, <3>4, <3>5 DEF InsertMessage
  <2> QED
    BY <2>1, <2>2
<1>12. ASSUME NEW r \in Requests, Announce(r) PROVE TypeOK'
  <2>1. req[r].event \in Events
    BY <1>12 DEF Announce, Request
  <2>2. req' \in [Requests -> Request]
    BY <1>12, FinishEffect DEF Announce
  <2>3. announced' \subseteq Events
    BY <1>12, <2>1 DEF Announce
  <2> QED
    BY <1>12, <2>2, <2>3 DEF Announce
<1>13. ASSUME NEW r \in Requests, Abort(r) PROVE TypeOK'
  BY <1>13, FinishEffect DEF Abort
<1>14. CASE ExpiryPasses
  BY <1>14 DEF ExpiryPasses
<1>15. CASE ExpirySweep
  <2>1. contract' \in Contract
    <3>1. contract' = Ended(ExpiredStatus(contract.status), "system:expiry")
      BY <1>15 DEF ExpirySweep, SweepRow
    <3> QED
      BY <3>1, EndedRow, ExpiredIsEnded, ExpiryClosers
  <2>2. announced' \subseteq Events
    <3> DEFINE e == ClosedEvent(ExpiredStatus(contract.status),
                       "system:expiry", contract.completion_approved, FALSE)
    <3>1. e \in Events
      BY ClosedEventType DEF Events
    <3>2. announced' = announced \cup {e}
      BY <1>15 DEF ExpirySweep
    <3> HIDE DEF e
    <3> QED
      BY <3>1, <3>2
  <2> QED
    BY <1>15, <2>1, <2>2 DEF ExpirySweep
<1>16. CASE ManualSweep
  BY <1>16, EndedRow, ExpiredIsEnded, ExpiryClosers DEF ManualSweep, SweepRow
<1>17. CASE SetKillSwitch
  BY <1>17 DEF SetKillSwitch
<1>18. CASE CloseActive
  BY <1>18, EndedRow DEF CloseActive, EndedStatuses, Closers
<1>19. CASE CancelProposed
  BY <1>19, EndedRow DEF CancelProposed, EndedStatuses, Closers
<1>20. CASE AbortFreeze
  BY <1>20 DEF AbortFreeze
<1>21. CASE ClearKillSwitch
  BY <1>21 DEF ClearKillSwitch
<1>22. CASE UNCHANGED vars
  BY <1>22 DEF vars
<1> QED
  BY <1>1, <1>2, <1>3, <1>4, <1>5, <1>6, <1>7, <1>8, <1>9, <1>10, <1>11, <1>12,
     <1>13, <1>14, <1>15, <1>16, <1>17, <1>18, <1>19, <1>20, <1>21, <1>22
     DEF Next, Handle, Environment

(* A fresh proposal is well typed. *)
LEMMA InitTyped == Init => TypeOK
<1> SUFFICES ASSUME Init PROVE TypeOK
  OBVIOUS
<1>1. contract \in Contract
  <2>1. 0 \in 0..MaxTurns
    BY ContractAssumption
  <2>2. "proposed" \in ContractStatuses /\ "none" \in Closers
    BY DEF ContractStatuses, LiveStatuses, Closers
  <2> QED
    BY <2>1, <2>2 DEF Init, Contract
<1>2. req \in [Requests -> Request]
  BY IdleType DEF Init
<1>3. participant \in [Participants -> {"pending", "accepted", "rejected"}]
  BY DEF Init
<1>4. messages \in Seq(Message)
  BY DEF Init
<1>5. announced \subseteq Events
  BY DEF Init
<1> QED
  BY <1>1, <1>2, <1>3, <1>4, <1>5 DEF Init, TypeOK

(* Every reachable state is well typed; in particular no interleaving spends
   more than the turns the contract was given. *)
THEOREM TypeCorrect == Spec => []TypeOK
<1>1. Init => TypeOK
  BY InitTyped
<1>2. TypeOK /\ [Next]_vars => TypeOK'
  BY TypeStep
<1> QED
  BY <1>1, <1>2, PTL DEF Spec

-----------------------------------------------------------------------------
(* The ways a step changes the rows *)

RowActivated ==
    /\ contract.status = "proposed"
    /\ Unanimous
    /\ contract' = [contract EXCEPT !.status = "active"]

(* Ended for no reason of its own: rejected, cancelled, expired or frozen. *)
RowLapsed ==
    \E s \in EndedStatuses, c \in Closers :
        /\ s = "closed" => c \notin ConcludingClosers
        /\ contract' = Ended(s, c)

RowClosed ==
    \E c \in {"agent", "user"}, w \in BOOLEAN :
        /\ contract.status = "active"
        /\ w => Gated /\ ~contract.completion_approved
        /\ Gated /\ ~w => contract.completion_approved
        /\ contract' = [Ended("closed", c) EXCEPT !.closed_without_approval = w]

RowMessage ==
    \E type \in MessageTypes, a \in Participants :
        /\ InsertAllowed(type, a)
        /\ contract' = MessageRow(type)
        /\ messages' = Append(messages, [message_type |-> type,
                                         turn_number |-> TurnsAfter(type)])

RowStep ==
    \/ /\ contract' = contract \/ RowActivated \/ RowLapsed \/ RowClosed
       /\ UNCHANGED messages
    \/ RowMessage

(* No step writes the row and an answer. *)
OneTable == UNCHANGED contract \/ UNCHANGED participant

(* An answer is given once. *)
AnswerStep ==
    \/ UNCHANGED participant
    \/ \E i \in Invitees, a \in {"accepted", "rejected"} :
          /\ participant[i] = "pending"
          /\ participant' = [participant EXCEPT ![i] = a]

(* Every step changes the row in one of these ways. *)
LEMMA EveryRowStep == IInv /\ [Next]_vars => RowStep /\ AnswerStep /\ OneTable
<1> SUFFICES ASSUME IInv, [Next]_vars
             PROVE  RowStep /\ AnswerStep /\ OneTable
  OBVIOUS
<1>t. TypeOK /\ SlotsOK
  BY DEF IInv
<1>1. ASSUME NEW r \in Requests, AutoClose(r)
      PROVE  RowStep /\ AnswerStep /\ OneTable
  <2>1. contract' = Ended(ExpiredStatus(req[r].seen.status), "system:expiry")
    BY <1>1 DEF AutoClose, AutoCloseRow
  <2>2. RowLapsed
    BY <2>1, ExpiredIsEnded, ExpiryClosers DEF RowLapsed
  <2> QED
    BY <1>1, <2>2 DEF RowStep, AnswerStep, OneTable, AutoClose
<1>2. ASSUME NEW r \in Requests, Respond(r)
      PROVE  RowStep /\ AnswerStep /\ OneTable
  <2>1. req[r].pc = "respond" => req[r].agent \in Invitees
    BY <1>t DEF SlotsOK, SlotOK
  <2>2. AnswerStep
    BY <1>2, <2>1 DEF AnswerStep, Respond
  <2> QED
    BY <1>2, <2>2 DEF RowStep, OneTable, Respond
<1>3. ASSUME NEW r \in Requests, Activate(r)
      PROVE  RowStep /\ AnswerStep /\ OneTable
  <2>1. contract' = contract \/ RowActivated
    BY <1>3, <1>t DEF Activate, RowActivated, SlotsOK, SlotOK
  <2> QED
    BY <1>3, <2>1 DEF RowStep, AnswerStep, OneTable, Activate
<1>4. ASSUME NEW r \in Requests, RejectContract(r)
      PROVE  RowStep /\ AnswerStep /\ OneTable
  <2>1. contract' = contract \/ contract' = Ended("rejected", "agent")
    BY <1>4 DEF RejectContract
  <2>2. "rejected" \in EndedStatuses /\ "agent" \in Closers
    BY DEF EndedStatuses, Closers
  <2>3. contract' = contract \/ RowLapsed
    BY <2>1, <2>2 DEF RowLapsed
  <2> QED
    BY <1>4, <2>3 DEF RowStep, AnswerStep, OneTable, RejectContract
<1>5. ASSUME NEW r \in Requests, CancelContract(r)
      PROVE  RowStep /\ AnswerStep /\ OneTable
  <2>1. contract' = contract \/ contract' = Ended("cancelled", "agent")
    BY <1>5 DEF CancelContract
  <2>2. "cancelled" \in EndedStatuses /\ "agent" \in Closers
    BY DEF EndedStatuses, Closers
  <2>3. contract' = contract \/ RowLapsed
    BY <2>1, <2>2 DEF RowLapsed
  <2> QED
    BY <1>5, <2>3 DEF RowStep, AnswerStep, OneTable, CancelContract
<1>6. ASSUME NEW r \in Requests, CloseContract(r)
      PROVE  RowStep /\ AnswerStep /\ OneTable
  <2> DEFINE w == ClosedWithoutApproval(req[r].seen.completion_approved)
             c == IF req[r].op \in OperatorOps THEN "user" ELSE "agent"
  <2>1. w \in BOOLEAN /\ c \in {"agent", "user"}
    BY DEF ClosedWithoutApproval, GatePending
  <2>2. (Gated /\ ~w => contract.completion_approved) /\ (w => Gated)
    BY <1>t DEF ClosedWithoutApproval, GatePending, SlotsOK, SlotOK
  <2>3. \/ contract' = contract
        \/ /\ CloseMatches(w)
           /\ contract' = [Ended("closed", c) EXCEPT !.closed_without_approval = w]
    BY <1>6 DEF CloseContract
  <2> HIDE DEF w, c
  <2>4. contract' = contract \/ RowClosed
    BY <2>1, <2>2, <2>3 DEF CloseMatches, RowClosed
  <2> QED
    BY <1>6, <2>4 DEF RowStep, AnswerStep, OneTable, CloseContract
<1>7. ASSUME NEW r \in Requests, InsertMessage(r)
      PROVE  RowStep /\ AnswerStep /\ OneTable
  <2>1. req[r].agent \in Participants
    BY <1>t DEF TypeOK, Request
  <2>2. UNCHANGED <<contract, messages>> \/ RowMessage
    BY <1>7, <2>1 DEF InsertMessage, RowMessage
  <2> QED
    BY <1>7, <2>2 DEF RowStep, AnswerStep, OneTable, InsertMessage
<1>8. CASE ExpirySweep \/ ManualSweep
  <2>1. \E c \in {"system:expiry", "system:expiry-sweep"} :
           contract' = Ended(ExpiredStatus(contract.status), c)
    BY <1>8 DEF ExpirySweep, ManualSweep, SweepRow
  <2>2. RowLapsed
    BY <2>1, ExpiredIsEnded, ExpiryClosers DEF RowLapsed
  <2>3. UNCHANGED <<participant, messages>>
    BY <1>8 DEF ExpirySweep, ManualSweep
  <2> QED
    BY <2>2, <2>3 DEF RowStep, AnswerStep, OneTable
<1>9. CASE CloseActive \/ CancelProposed
  <2>1. \/ contract' = contract
        \/ \E s \in {"closed", "cancelled"} : contract' = Ended(s, "system:kill-switch")
    BY <1>9 DEF CloseActive, CancelProposed
  <2>2. /\ {"closed", "cancelled"} \subseteq EndedStatuses
        /\ "system:kill-switch" \in Closers \ ConcludingClosers
    BY DEF EndedStatuses, Closers, ConcludingClosers
  <2>3. contract' = contract \/ RowLapsed
    BY <2>1, <2>2 DEF RowLapsed
  <2>4. UNCHANGED <<participant, messages>>
    BY <1>9 DEF CloseActive, CancelProposed
  <2> QED
    BY <2>3, <2>4 DEF RowStep, AnswerStep, OneTable
<1>10. CASE UNCHANGED <<contract, participant, messages>>
  BY <1>10 DEF RowStep, AnswerStep, OneTable
<1> QED
  BY <1>1, <1>2, <1>3, <1>4, <1>5, <1>6, <1>7, <1>8, <1>9, <1>10
     DEF Next, Handle, Environment, vars, Begin, LoadContract, AutoCloseFails,
         CountAccepted, Announce, Abort, ExpiryPasses, SetKillSwitch,
         AbortFreeze, ClearKillSwitch

(* What is on record stays on record. *)
Stable ==
    /\ contract.completion_approved => contract'.completion_approved
    /\ contract.closed_without_approval => contract'.closed_without_approval
    /\ contract.status # "proposed" => contract'.status # "proposed"
    /\ Unanimous => Unanimous'
    /\ SomeRejection => SomeRejection'

(* The fields of the row after each kind of step. *)
LEMMA RowStepFields ==
    ASSUME TypeOK, FreshUntilActive, RowStep
    PROVE  /\ contract.completion_approved => contract'.completion_approved
           /\ contract.closed_without_approval => contract'.closed_without_approval
           /\ contract.status # "proposed" => contract'.status # "proposed"
<1>t. contract \in Contract
  BY DEF TypeOK
<1>1. CASE contract' = contract
  BY <1>1
<1>2. CASE RowActivated
  BY <1>2, <1>t, ActivatedRow DEF RowActivated
<1>3. CASE RowLapsed
  BY <1>3, <1>t, EndedRow DEF RowLapsed, EndedStatuses
<1>4. CASE RowClosed
  BY <1>4, <1>t, ClosedRow DEF RowClosed, FreshUntilActive, Live, LiveStatuses
<1>5. CASE RowMessage
  <2>1. PICK type \in MessageTypes, a \in Participants :
               InsertAllowed(type, a) /\ contract' = MessageRow(type)
    BY <1>5 DEF RowMessage
  <2>2. /\ contract'.completion_approved = ApprovedAfter(type)
        /\ contract'.closed_without_approval = contract.closed_without_approval
        /\ contract'.status \in {"closed", "active"}
    BY <1>t, <2>1, MessageRowFields
  <2> QED
    BY <2>2 DEF ApprovedAfter
<1> QED
  BY <1>1, <1>2, <1>3, <1>4, <1>5 DEF RowStep

(* No step undoes an ending, a verdict, a unanimity or a rejection. *)
LEMMA StableStep == IInv /\ [Next]_vars => Stable
<1> SUFFICES ASSUME IInv, [Next]_vars PROVE Stable
  OBVIOUS
<1>1. RowStep /\ AnswerStep
  BY EveryRowStep
<1>2. (Unanimous => Unanimous') /\ (SomeRejection => SomeRejection')
  BY <1>1 DEF AnswerStep, Unanimous, SomeRejection, Participants, IInv, TypeOK
<1> QED
  BY <1>1, <1>2, RowStepFields DEF Stable, IInv, RowInv

(* The row keeps its invariants through each kind of step. *)
LEMMA RowInvStep == IInv /\ [Next]_vars => RowInv'
<1> SUFFICES ASSUME IInv, [Next]_vars PROVE RowInv'
  OBVIOUS
<1> USE DEF RowInv, UnanimousActivation, ExhaustedOnlyAwaitingApproval, GateHolds,
            OneVerdict, FreshUntilActive, Live, LiveStatuses
<1>t. contract \in Contract /\ RowInv
  BY DEF IInv, TypeOK
<1>1. RowStep /\ (Unanimous => Unanimous')
  BY EveryRowStep, StableStep DEF Stable
<1>2. CASE contract' = contract
  BY <1>t, <1>1, <1>2
<1>3. CASE RowActivated
  BY <1>t, <1>1, <1>3, ActivatedRow DEF RowActivated
<1>4. CASE RowLapsed
  BY <1>t, <1>1, <1>4, EndedRow DEF RowLapsed, EndedStatuses
<1>5. CASE RowClosed
  BY <1>t, <1>1, <1>5, ClosedRow DEF RowClosed
<1>6. CASE RowMessage
  <2>1. PICK type \in MessageTypes, a \in Participants :
               InsertAllowed(type, a) /\ contract' = MessageRow(type)
    BY <1>6 DEF RowMessage
  <2> DEFINE ends == ApprovalCloses(type) \/ LastTurnCloses(type)
  <2>2. /\ contract'.status = IF ends THEN "closed" ELSE "active"
        /\ contract'.closed_by = IF ends THEN MessageCloser(type)
                                         ELSE contract.closed_by
        /\ contract'.current_turns = TurnsAfter(type)
        /\ contract'.completion_approved = ApprovedAfter(type)
        /\ contract'.closed_without_approval = contract.closed_without_approval
    BY <1>t, <2>1, MessageRowFields
  <2>3. contract.status = "active" /\ ~contract.closed_without_approval
    BY <1>t, <2>1 DEF InsertAllowed
  <2>4. ends /\ Gated => ApprovedAfter(type)
    BY DEF ApprovalCloses, LastTurnCloses, ApprovedAfter, GatePending
  <2>5. ASSUME ~ends, MaxTurns > 0, TurnsAfter(type) = MaxTurns
        PROVE  GatePending(ApprovedAfter(type))
    <3>1. CASE ConsumesTurn(type)
      BY <2>5, <3>1, ContractAssumption DEF LastTurnCloses
    <3>2. CASE ~ConsumesTurn(type)
      <4>1. contract.current_turns = MaxTurns
        BY <1>t, <2>5, <3>2 DEF TurnsAfter, Contract
      <4>2. GatePending(contract.completion_approved)
        BY <1>t, <2>3, <2>5, <4>1
      <4> QED
        BY <2>5, <4>1, <4>2, ContractAssumption
           DEF ApprovalCloses, ApprovedAfter, GatePending
    <3> QED
      BY <3>1, <3>2
  <2> HIDE DEF ends
  <2> QED
    BY <1>t, <1>1, <2>2, <2>3, <2>4, <2>5
<1> QED
  BY <1>1, <1>2, <1>3, <1>4, <1>5, <1>6 DEF RowStep

(* What is true of a slot or an event stays true of it. *)
LEMMA KeptTrue ==
    ASSUME Stable
    PROVE  /\ \A e : EventTrue(e) => EventTrue(e)'
           /\ \A q : SlotOK(q) => SlotOK(q)'
<1>1. \A e : EventTrue(e) => EventTrue(e)'
  BY DEF Stable, EventTrue
<1> QED
  BY <1>1 DEF Stable, SlotOK

(* The slot a step empties holds nothing that could be wrong. *)
LEMMA IdleOK == SlotOK(Idle) /\ SlotOK(Idle)'
  BY DEF SlotOK, Idle, Held, NoSnapshot, NoEvent, EventTrue

(* The closure that expiry announces carries no verdict. *)
LEMMA ExpiryEventTrue ==
    ASSUME NEW status, NEW approved
    PROVE  LET e == ClosedEvent(status, "system:expiry", approved, FALSE)
           IN  EventTrue(e) /\ EventTrue(e)'
  BY DEF ClosedEvent, CloseOutcome, EventTrue

(* Ending a handler, or leaving it to announce something true, is safe. *)
LEMMA FinishOK ==
    ASSUME TypeOK, NEW r \in Requests,
           \/ Finish(r)
           \/ \E e \in Events : FinishWith(r, e) /\ EventTrue(e)'
    PROVE  SlotOK(req[r])' /\ \A q \in Requests \ {r} : req'[q] = req[q]
<1>t. req \in [Requests -> Request]
  BY DEF TypeOK
<1>1. CASE Finish(r)
  <2>1. req'[r] = Idle /\ \A q \in Requests \ {r} : req'[q] = req[q]
    BY <1>t, <1>1, FinishEffect
  <2>2. SlotOK(Idle)'
    BY IdleOK
  <2> QED
    BY <2>1, <2>2 DEF SlotOK, EventTrue
<1>2. ASSUME NEW e \in Events, FinishWith(r, e), EventTrue(e)'
      PROVE  SlotOK(req[r])' /\ \A q \in Requests \ {r} : req'[q] = req[q]
  <2>1. /\ req'[r] = Held("announce", "read", Proposer, NoSnapshot, e)
        /\ \A q \in Requests \ {r} : req'[q] = req[q]
    BY <1>t, <1>2, FinishWithEffect
  <2> QED
    BY <1>2, <2>1 DEF SlotOK, Held, NoSnapshot, EventTrue
<1> QED
  BY <1>1, <1>2

(* A handler's own step leaves its slot in agreement with the rows. *)
LEMMA OwnSlot ==
    ASSUME IInv, Stable, TypeOK', NEW r \in Requests,
           Begin(r) \/ Handle(r) \/ Abort(r)
    PROVE  SlotOK(req[r])' /\ \A q \in Requests \ {r} : req'[q] = req[q]
<1> DEFINE Good == SlotOK(req[r])' /\ \A q \in Requests \ {r} : req'[q] = req[q]
<1>t. /\ TypeOK
      /\ req \in [Requests -> Request]
      /\ contract \in Contract
      /\ SlotOK(req[r])
      /\ req[r].op \in Ops
      /\ req[r].agent \in Participants
      /\ Proposer \in Participants
  BY DEF IInv, TypeOK, SlotsOK, Request, Participants
<1>f. ASSUME NEW e \in ClosureEvents \cup OtherEvents, FinishWith(r, e),
             EventTrue(e)'
      PROVE  Good
  BY <1>t, <1>f, FinishOK DEF Events
<1>1. CASE Begin(r)
  <2>1. PICK op \in Ops, agent \in Participants :
               MayCall(op, agent) /\ Hold(r, "load", op, agent, NoSnapshot)
    BY <1>1 DEF Begin
  <2>2. /\ req'[r] = Held("load", op, agent, NoSnapshot, NoEvent)
        /\ \A q \in Requests \ {r} : req'[q] = req[q]
    BY <1>t, <2>1, HoldEffect, IdleType DEF Positions
  <2>3. op \in ResponseOps => agent \in Invitees
    <3>1. "approval" \notin ResponseOps /\ CloseOps \cap ResponseOps = {}
      BY DEF ResponseOps, CloseOps
    <3> QED
      BY <2>1, <3>1 DEF MayCall
  <2> QED
    BY <2>2, <2>3 DEF SlotOK, Held, NoSnapshot, NoEvent, EventTrue
<1>2. CASE LoadContract(r)
  <2> DEFINE seen == [status |-> contract.status,
                      completion_approved |-> contract.completion_approved]
  <2>1. seen \in Snapshot
    BY <1>t DEF Snapshot, Contract
  <2>2. \/ Finish(r)
        \/ \E pc \in {"autoclose", "commit"},
              op \in {"read", "close", "operator-close"} :
              Hold(r, pc, op, Proposer, seen)
        \/ Hold(r, "respond", req[r].op, req[r].agent, NoSnapshot)
              /\ req[r].op \in ResponseOps /\ req[r].pc = "load"
        \/ Hold(r, "commit", req[r].op, req[r].agent, NoSnapshot)
              /\ req[r].op \in MessageTypes \cup {"cancel"}
    BY <1>2 DEF LoadContract
  <2>3. CASE Finish(r)
    BY <1>t, <2>3, FinishOK
  <2>4. ASSUME NEW pc \in {"autoclose", "commit"},
               NEW op \in {"read", "close", "operator-close"},
               Hold(r, pc, op, Proposer, seen)
        PROVE  Good
    <3>a. /\ pc \in Positions \ {"announce"} /\ op \in Ops
          /\ Proposer \in Participants
      BY DEF Positions, Ops, CloseOps, OperatorOps, Participants
    <3>1. /\ req'[r] = Held(pc, op, Proposer, seen, NoEvent)
          /\ \A q \in Requests \ {r} : req'[q] = req[q]
      <4> HIDE DEF seen
      <4> QED
        BY ONLY <1>t, <2>1, <2>4, <3>a, HoldEffect
    <3>2. op # "reject" /\ pc # "load" /\ pc # "respond" /\ pc # "activate"
      OBVIOUS
    <3>3. seen.completion_approved => contract'.completion_approved
      BY DEF Stable
    <3> QED
      BY <3>1, <3>2, <3>3 DEF SlotOK, Held, NoEvent, EventTrue
  <2>5. CASE /\ Hold(r, "respond", req[r].op, req[r].agent, NoSnapshot)
             /\ req[r].op \in ResponseOps
             /\ req[r].pc = "load"
    <3>1. /\ req'[r] = Held("respond", req[r].op, req[r].agent, NoSnapshot, NoEvent)
          /\ \A q \in Requests \ {r} : req'[q] = req[q]
      BY <1>t, <2>5, HoldEffect, IdleType DEF Positions
    <3>2. req[r].agent \in Invitees
      BY <1>t, <2>5 DEF SlotOK
    <3> QED
      BY <2>5, <3>1, <3>2 DEF SlotOK, Held, NoSnapshot, NoEvent, EventTrue
  <2>6. CASE /\ Hold(r, "commit", req[r].op, req[r].agent, NoSnapshot)
             /\ req[r].op \in MessageTypes \cup {"cancel"}
    <3>1. /\ req'[r] = Held("commit", req[r].op, req[r].agent, NoSnapshot, NoEvent)
          /\ \A q \in Requests \ {r} : req'[q] = req[q]
      BY <1>t, <2>6, HoldEffect, IdleType DEF Positions
    <3>2. req[r].op # "reject"
      BY <2>6 DEF MessageTypes
    <3> QED
      BY <3>1, <3>2 DEF SlotOK, Held, NoSnapshot, NoEvent, EventTrue
  <2> QED
    BY <2>2, <2>3, <2>4, <2>5, <2>6
<1>3. CASE AutoClose(r) \/ AutoCloseFails(r)
  <2>1. PICK e \in ClosureEvents : FinishWith(r, e) /\ EventTrue(e)'
    BY <1>3, ClosedEventType, ExpiryEventTrue DEF AutoClose, AutoCloseFails
  <2> QED
    BY <1>f, <2>1
<1>4. CASE Respond(r)
  <2>1. CASE Finish(r)
    BY <1>t, <2>1, FinishOK
  <2>2. CASE ~Finish(r)
    <3> DEFINE pc == IF req[r].op = "accept" THEN "count" ELSE "commit"
    <3>1. Hold(r, pc, req[r].op, Proposer, NoSnapshot)
      BY <1>4, <2>2 DEF Respond
    <3>2. /\ req'[r] = Held(pc, req[r].op, Proposer, NoSnapshot, NoEvent)
          /\ \A q \in Requests \ {r} : req'[q] = req[q]
      BY <1>t, <3>1, HoldEffect, IdleType DEF Positions
    <3>3. req[r].op = "reject" => SomeRejection'
      <4>1. req[r].agent \in Invitees
        BY <1>4, <1>t DEF Respond, SlotOK
      <4>2. participant' = [participant EXCEPT ![req[r].agent] =
                              IF req[r].op = "accept" THEN "accepted" ELSE "rejected"]
        BY <1>4, <2>2 DEF Respond
      <4> QED
        BY <1>t, <4>1, <4>2 DEF SomeRejection, TypeOK
    <3> QED
      BY <3>2, <3>3 DEF SlotOK, Held, NoSnapshot, NoEvent, EventTrue
  <2> QED
    BY <2>1, <2>2
<1>5. CASE CountAccepted(r)
  <2>1. CASE Finish(r)
    BY <1>t, <2>1, FinishOK
  <2>2. CASE ~Finish(r)
    <3>1. AllAccepted /\ Hold(r, "activate", "accept", Proposer, NoSnapshot)
      BY <1>5, <2>2 DEF CountAccepted
    <3>2. /\ req'[r] = Held("activate", "accept", Proposer, NoSnapshot, NoEvent)
          /\ \A q \in Requests \ {r} : req'[q] = req[q]
      BY <1>t, <3>1, HoldEffect, IdleType DEF Positions, Ops, ResponseOps
    <3>3. Unanimous'
      BY <1>5, <3>1 DEF CountAccepted, AllAccepted, Unanimous
    <3> QED
      BY <3>2, <3>3 DEF SlotOK, Held, NoSnapshot, NoEvent, EventTrue
  <2> QED
    BY <2>1, <2>2
<1>6. CASE Activate(r)
  <2> DEFINE e == [event |-> "contract.accepted", outcome |-> "none"]
  <2>1. CASE Finish(r)
    BY <1>t, <2>1, FinishOK
  <2>2. CASE ~Finish(r)
    <3>1. FinishWith(r, e) /\ contract' = [contract EXCEPT !.status = "active"]
      BY <1>6, <2>2 DEF Activate
    <3>2. Unanimous'
      BY <1>6, <1>t DEF Activate, SlotOK, Stable
    <3>3. EventTrue(e)'
      BY <1>t, <3>1, <3>2, ActivatedRow DEF EventTrue
    <3> QED
      BY <1>f, <3>1, <3>3 DEF OtherEvents
  <2> QED
    BY <2>1, <2>2
<1>7. CASE RejectContract(r)
  <2> DEFINE e == [event |-> "contract.rejected", outcome |-> "none"]
  <2>1. FinishWith(r, e)
    BY <1>7 DEF RejectContract
  <2>2. EventTrue(e)'
    BY <1>7, <1>t DEF RejectContract, SlotOK, Stable, EventTrue
  <2> QED
    BY <1>f, <2>1, <2>2 DEF OtherEvents
<1>8. CASE CancelContract(r)
  <2> DEFINE e == [event |-> "contract.cancelled", outcome |-> "none"]
  <2>1. Finish(r) \/ FinishWith(r, e)
    BY <1>8 DEF CancelContract
  <2>2. EventTrue(e)'
    BY DEF EventTrue
  <2> QED
    BY <1>t, <1>f, <2>1, <2>2, FinishOK DEF OtherEvents
<1>9. CASE CloseContract(r)
  <2> DEFINE w == ClosedWithoutApproval(req[r].seen.completion_approved)
             c == IF req[r].op \in OperatorOps THEN "user" ELSE "agent"
  <2>1. PICK e \in ClosureEvents :
          /\ e = ClosedEvent("closed", c, req[r].seen.completion_approved, w)
          /\ \/ Finish(r)
             \/ FinishWith(r, e) /\ contract' = [Ended("closed", c) EXCEPT
                                                   !.closed_without_approval = w]
    BY <1>9, ClosedEventType DEF CloseContract
  <2>2. w \in BOOLEAN /\ c \in {"agent", "user"}
    BY DEF ClosedWithoutApproval, GatePending
  <2>3. /\ e.outcome = IF w THEN "closed-unapproved" ELSE "closed-by-participant"
        /\ e.event = "contract.closed"
    BY <2>1, <2>2 DEF ClosedEvent, CloseOutcome
  <2> HIDE DEF w, c
  <2>4. CASE Finish(r)
    BY <1>t, <2>4, FinishOK
  <2>5. CASE ~Finish(r)
    <3>a. /\ contract' = [Ended("closed", c) EXCEPT !.closed_without_approval = w]
          /\ FinishWith(r, e)
      BY <2>1, <2>5
    <3>b. contract \in Contract
      BY <1>t
    <3>1. contract'.closed_without_approval = w
      BY ONLY <2>2, <3>a, <3>b, ClosedRow
    <3>2. EventTrue(e)'
      BY <2>2, <2>3, <3>1 DEF EventTrue
    <3> QED
      BY <1>f, <2>1, <2>5, <3>2
  <2> QED
    BY <2>4, <2>5
<1>10. CASE InsertMessage(r)
  <2> DEFINE type == req[r].op
             row == MessageRow(type)
  <2>1. CASE Finish(r)
    BY <1>t, <2>1, FinishOK
  <2>2. CASE ~Finish(r)
    <3>1. PICK e \in ClosureEvents :
            /\ e = ClosedEvent("closed", row.closed_by,
                               row.completion_approved, FALSE)
            /\ FinishWith(r, e)
            /\ contract' = row
            /\ row.status = "closed"
            /\ InsertAllowed(type, req[r].agent)
            /\ type \in MessageTypes
      BY <1>10, <2>2, ClosedEventType DEF InsertMessage
    <3>2. /\ ApprovalCloses(type) \/ LastTurnCloses(type)
          /\ row.closed_by = MessageCloser(type)
          /\ row.completion_approved = ApprovedAfter(type)
      BY <1>t, <3>1, MessageRowFields
    <3>3. MessageCloser(type) = "system:completion-approved" => ApprovedAfter(type)
      BY DEF MessageCloser, ApprovalCloses, ApprovedAfter
    <3>4. /\ e.outcome = "completed-approved" => contract'.completion_approved
          /\ e.outcome # "closed-unapproved"
          /\ e.event = "contract.closed"
      BY <3>1, <3>2, <3>3 DEF ClosedEvent, CloseOutcome
    <3>5. EventTrue(e)'
      BY <3>4 DEF EventTrue
    <3> QED
      BY <1>f, <3>1, <3>5
  <2> QED
    BY <2>1, <2>2
<1>11. CASE Announce(r) \/ Abort(r)
  BY <1>11, <1>t, FinishOK DEF Announce, Abort
<1> QED
  BY <1>1, <1>2, <1>3, <1>4, <1>5, <1>6, <1>7, <1>8, <1>9, <1>10, <1>11 DEF Handle

(* Every slot agrees with the rows after a step, its own or another's. *)
LEMMA SlotsStep == IInv /\ TypeOK' /\ [Next]_vars => SlotsOK'
<1> SUFFICES ASSUME IInv, TypeOK', [Next]_vars, NEW q \in Requests
             PROVE  SlotOK(req[q])'
  BY DEF SlotsOK
<1>1. Stable
  BY StableStep
<1>2. SlotOK(req[q])
  BY DEF IInv, SlotsOK
<1>3. ASSUME req'[q] = req[q] PROVE SlotOK(req[q])'
  BY <1>1, <1>2, <1>3 DEF SlotOK, EventTrue, Stable
<1>4. ASSUME NEW r \in Requests, Begin(r) \/ Handle(r) \/ Abort(r)
      PROVE  SlotOK(req[q])'
  <2>1. SlotOK(req[r])' /\ \A s \in Requests \ {r} : req'[s] = req[s]
    BY <1>1, <1>4, OwnSlot
  <2>2. CASE q = r
    BY <2>1, <2>2
  <2>3. CASE q # r
    BY <1>3, <2>1, <2>3
  <2> QED
    BY <2>2, <2>3
<1>5. CASE Environment \/ UNCHANGED vars
  <2>1. UNCHANGED req
    BY <1>5 DEF Environment, vars, ExpiryPasses, ExpirySweep, ManualSweep,
                SetKillSwitch, CloseActive, CancelProposed, AbortFreeze,
                ClearKillSwitch
  <2> QED
    BY <1>3, <2>1
<1> QED
  BY <1>4, <1>5 DEF Next

(* Only a handler that announces, or the sweep, adds an event. *)
LEMMA AnnouncedStep == IInv /\ [Next]_vars => AnnouncedTrue'
<1> SUFFICES ASSUME IInv, [Next]_vars, NEW e \in announced' PROVE EventTrue(e)'
  BY DEF AnnouncedTrue, EventTrue, SomeRejection
<1>1. Stable
  BY StableStep
<1>2. ASSUME EventTrue(e) PROVE EventTrue(e)'
  BY <1>1, <1>2, KeptTrue
<1>3. CASE e \in announced
  <2>1. EventTrue(e)
    BY <1>3 DEF IInv, AnnouncedTrue, EventTrue, SomeRejection
  <2> QED
    BY <1>2, <2>1
<1>4. CASE e \notin announced
  <2>1. \/ \E r \in Requests : Announce(r)
        \/ ExpirySweep
    BY <1>4 DEF Next, Handle, Environment, vars, Begin, LoadContract, AutoClose,
         AutoCloseFails, Respond, CountAccepted, Activate, RejectContract,
         CancelContract, CloseContract, InsertMessage, Abort, ExpiryPasses,
         ManualSweep, SetKillSwitch, CloseActive, CancelProposed, AbortFreeze,
         ClearKillSwitch
  <2>2. ASSUME NEW r \in Requests, Announce(r) PROVE EventTrue(e)'
    <3>1. e = req[r].event
      BY <1>4, <2>2 DEF Announce
    <3>2. EventTrue(e)
      BY <3>1 DEF IInv, SlotsOK, SlotOK
    <3> QED
      BY <1>2, <3>2
  <2>3. CASE ExpirySweep
    <3>1. e = ClosedEvent(ExpiredStatus(contract.status), "system:expiry",
                          contract.completion_approved, FALSE)
      BY <1>4, <2>3 DEF ExpirySweep
    <3>2. EventTrue(e)
      BY <3>1, ExpiryEventTrue
    <3> QED
      BY <1>2, <3>2
  <2> QED
    BY <2>1, <2>2, <2>3
<1> QED
  BY <1>3, <1>4

(* The invariant that carries every property below. *)
THEOREM Invariant == Spec => []IInv
<1>1. Init => IInv
  <2> SUFFICES ASSUME Init PROVE IInv
    OBVIOUS
  <2>1. TypeOK
    BY InitTyped
  <2>2. RowInv
    BY ContractAssumption
       DEF Init, RowInv, UnanimousActivation, ExhaustedOnlyAwaitingApproval,
           GateHolds, OneVerdict, FreshUntilActive
  <2>3. SlotsOK
    BY IdleOK DEF Init, SlotsOK
  <2>4. AnnouncedTrue
    BY DEF Init, AnnouncedTrue
  <2> QED
    BY <2>1, <2>2, <2>3, <2>4 DEF IInv
<1>2. IInv /\ [Next]_vars => IInv'
  <2> SUFFICES ASSUME IInv, [Next]_vars PROVE IInv'
    OBVIOUS
  <2>1. TypeOK'
    BY TypeStep DEF IInv
  <2> QED
    BY <2>1, RowInvStep, SlotsStep, AnnouncedStep DEF IInv
<1> QED
  BY <1>1, <1>2, PTL DEF Spec

-----------------------------------------------------------------------------
(* The properties *)

(* A contract never runs, spends or is approved before everyone accepted,
   however the answers and the activation interleave. *)
THEOREM ActivatedByAll == Spec => []UnanimousActivation
<1>1. IInv => UnanimousActivation
  BY DEF IInv, RowInv
<1> QED
  BY <1>1, Invariant, PTL

(* No order of the last turn and the approval leaves an exhausted contract
   open that nobody owes anything. *)
THEOREM ExhaustedAwaits == Spec => []ExhaustedOnlyAwaitingApproval
<1>1. IInv => ExhaustedOnlyAwaitingApproval
  BY DEF IInv, RowInv
<1> QED
  BY <1>1, Invariant, PTL

(* The completion gate holds against every stale close and every last turn. *)
THEOREM GateNeverBypassed == Spec => []GateHolds
<1>1. IInv => GateHolds
  BY DEF IInv, RowInv
<1> QED
  BY <1>1, Invariant, PTL

(* An approval that lands while a refusal is being written is not lost. *)
THEOREM NoDoubleVerdict == Spec => []OneVerdict
<1>1. IInv => OneVerdict
  BY DEF IInv, RowInv
<1> QED
  BY <1>1, Invariant, PTL

(* No participant is ever told a verdict or an acceptance the rows deny. *)
THEOREM NothingFalseAnnounced == Spec => []AnnouncedTrue
<1>1. IInv => AnnouncedTrue
  BY DEF IInv
<1> QED
  BY <1>1, Invariant, PTL

(* The turn numbers on the messages count the turns spent, in any order of
   commits; the row and the log move together. *)
THEOREM TurnsNumbered == Spec => []TurnNumbersContiguous
<1>1. Init => TurnNumbersContiguous
  BY DEF Init, TurnNumbersContiguous, TurnBefore
<1>2. IInv /\ TurnNumbersContiguous /\ [Next]_vars => TurnNumbersContiguous'
  <2> SUFFICES ASSUME IInv, TurnNumbersContiguous, [Next]_vars
               PROVE  TurnNumbersContiguous'
    OBVIOUS
  <2>t. contract \in Contract /\ messages \in Seq(Message)
    BY DEF IInv, TypeOK
  <2>1. RowStep
    BY EveryRowStep
  <2>2. ASSUME UNCHANGED messages, contract'.current_turns = contract.current_turns
        PROVE  TurnNumbersContiguous'
    BY <2>2 DEF TurnNumbersContiguous, TurnBefore
  <2>3. CASE /\ contract' = contract \/ RowActivated \/ RowLapsed \/ RowClosed
             /\ UNCHANGED messages
    <3>1. contract'.current_turns = contract.current_turns
      <4>1. CASE RowActivated
        BY <2>t, <4>1, ActivatedRow DEF RowActivated
      <4>2. CASE RowLapsed
        BY <2>t, <4>2, EndedRow DEF RowLapsed
      <4>3. CASE RowClosed
        BY <2>t, <4>3, ClosedRow DEF RowClosed
      <4> QED
        BY <2>3, <4>1, <4>2, <4>3
    <3> QED
      BY <2>2, <2>3, <3>1
  <2>4. ASSUME NEW type \in MessageTypes, NEW a \in Participants,
               InsertAllowed(type, a), contract' = MessageRow(type),
               messages' = Append(messages, [message_type |-> type,
                                             turn_number |-> TurnsAfter(type)])
        PROVE  TurnNumbersContiguous'
    <3> DEFINE cost(t) == IF ConsumesTurn(t) THEN 1 ELSE 0
    <3>1. /\ contract'.current_turns = TurnsAfter(type)
          /\ TurnsAfter(type) = contract.current_turns + cost(type)
          /\ TurnsAfter(type) \in Nat
      BY <2>t, <2>4, MessageRowFields, ContractAssumption DEF TurnsAfter
    <3>2. PICK n \in Nat : n = Len(messages)
      BY <2>t
    <3>3. /\ Len(messages') = n + 1
          /\ \A i \in 1..n : messages'[i] = messages[i]
          /\ messages'[n + 1].message_type = type
          /\ messages'[n + 1].turn_number = TurnsAfter(type)
      BY <2>t, <2>4, <3>2
    <3>4. contract.current_turns = TurnBefore(n + 1)
      BY <3>2 DEF TurnNumbersContiguous
    <3>5. \A i \in 1..(n + 1) : TurnBefore(i)' = TurnBefore(i)
      BY <3>2, <3>3 DEF TurnBefore
    <3>6. \A i \in 1..n : messages'[i].turn_number =
                             TurnBefore(i)' + cost(messages'[i].message_type)
      BY <3>2, <3>3, <3>5 DEF TurnNumbersContiguous
    <3>7. messages'[n + 1].turn_number =
             TurnBefore(n + 1)' + cost(messages'[n + 1].message_type)
      BY <3>1, <3>3, <3>4, <3>5
    <3>8. TurnBefore(n + 2)' = TurnsAfter(type)
      BY <3>2, <3>3 DEF TurnBefore
    <3>9. \A i \in 1..Len(messages') :
             messages'[i].turn_number =
               TurnBefore(i)' + cost(messages'[i].message_type)
      BY <3>2, <3>3, <3>6, <3>7
    <3>10. contract'.current_turns = TurnBefore(Len(messages) + 1)'
      BY <3>1, <3>2, <3>3, <3>8 DEF TurnBefore
    <3> QED
      BY <3>9, <3>10 DEF TurnNumbersContiguous
  <2> QED
    BY <2>1, <2>3, <2>4 DEF RowStep, RowMessage
<1> QED
  BY <1>1, <1>2, Invariant, PTL DEF Spec

(* An ended contract takes no message, and nothing but a late expiry writes it. *)
LEMMA StaysEndedStep == IInv /\ [Next]_vars => StaysEnded
<1> SUFFICES ASSUME IInv, [Next]_vars, ~Live(contract.status) PROVE
        /\ ~Live(contract'.status)
        /\ contract'.current_turns = contract.current_turns
        /\ contract'.completion_approved = contract.completion_approved
        /\ contract'.closed_without_approval = contract.closed_without_approval
        /\ messages' = messages
  BY DEF StaysEnded
<1>1. RowStep /\ contract \in Contract
  BY EveryRowStep DEF IInv, TypeOK
<1>2. contract.status # "proposed" /\ contract.status # "active"
  BY DEF Live, LiveStatuses
<1>3. UNCHANGED messages /\ (contract' = contract \/ RowLapsed)
  BY <1>1, <1>2
     DEF RowStep, RowActivated, RowClosed, RowMessage, InsertAllowed
<1>4. CASE RowLapsed
  BY <1>1, <1>3, <1>4, EndedRow
     DEF RowLapsed, EndedStatuses, Live, LiveStatuses
<1> QED
  BY <1>3, <1>4

(* Whatever a stale handler still writes, an ended contract stays ended, with
   the turns, messages and verdict it had. *)
THEOREM NeverRevived == Spec => EndedForGood
  BY StaysEndedStep, Invariant, PTL DEF Spec, EndedForGood

-----------------------------------------------------------------------------
(* One conclusion is announced *)

(* A closure that is told for a reason other than expiry. *)
Conclusion(e) == e.outcome \notin {"none", "expired"}

(* What was announced, and what a handler is about to announce. *)
Told == announced \cup {req[r].event : r \in Requests}

(* Who was told of a conclusion was told the only one, of a contract that ended. *)
ToldInv ==
    /\ \A e \in Told : Conclusion(e) => ~Live(contract.status)
    /\ \A e, f \in Told : Conclusion(e) /\ Conclusion(f) => e.outcome = f.outcome

(* Two closures of one contract are announced with different outcomes only when
   one of them is the expiry: whatever handlers race to close, to spend the last
   turn and to approve, they announce one conclusion (close/route.ts:113). *)
OneConclusionAnnounced ==
    \A e, f \in announced \cap ClosureEvents :
        e.outcome = f.outcome \/ "expired" \in {e.outcome, f.outcome}

(* A slot that is emptied or moved on holds no event. *)
LEMMA NothingTold ==
    ASSUME TypeOK, NEW r \in Requests,
           announced' \subseteq announced \cup {req[r].event},
           Finish(r) \/ \E pc, op, a, s : Hold(r, pc, op, a, s)
    PROVE  Told' \subseteq Told \cup {NoEvent}
<1>1. req'[r].event = NoEvent /\ \A q \in Requests \ {r} : req'[q] = req[q]
  BY DEF TypeOK, Finish, Idle, Hold, Held
<1> QED
  BY <1>1 DEF Told

(* A slot left to announce adds its event. *)
LEMMA EventTold ==
    ASSUME TypeOK, NEW r \in Requests, NEW e, FinishWith(r, e), UNCHANGED announced
    PROVE  Told' \subseteq Told \cup {e}
<1>1. req'[r].event = e /\ \A q \in Requests \ {r} : req'[q] = req[q]
  BY DEF TypeOK, FinishWith, Held
<1> QED
  BY <1>1 DEF Told

(* Expiry is told as expiry. *)
LEMMA ExpiryIsNoConclusion ==
    ASSUME NEW status, NEW approved
    PROVE  ~Conclusion(ClosedEvent(status, "system:expiry", approved, FALSE))
  BY DEF Conclusion, ClosedEvent, CloseOutcome

(* A step tells one event more at most: a conclusion only with the write that ends
   an active contract. *)
LEMMA OneMoreTold ==
    ASSUME IInv, [Next]_vars
    PROVE  \E e : /\ Told' \subseteq Told \cup {e}
                  /\ Conclusion(e) =>
                        contract.status = "active" /\ ~Live(contract'.status)
<1> DEFINE Goal == \E e : /\ Told' \subseteq Told \cup {e}
                          /\ Conclusion(e) =>
                                contract.status = "active" /\ ~Live(contract'.status)
<1>t. TypeOK /\ contract \in Contract
  BY DEF IInv, TypeOK
<1>q. ASSUME Told' \subseteq Told \cup {NoEvent}
      PROVE  Goal
  <2>1. ~Conclusion(NoEvent)
    BY DEF NoEvent, Conclusion
  <2> QED
    BY <1>q, <2>1
<1>1. ASSUME NEW r \in Requests, Begin(r)
      PROVE  Goal
  <2>1. (\E pc, op, a, s : Hold(r, pc, op, a, s)) /\ UNCHANGED announced
    BY <1>1 DEF Begin
  <2> QED
    BY <1>t, <1>q, <2>1, NothingTold
<1>2. ASSUME NEW r \in Requests,
             LoadContract(r) \/ Respond(r) \/ CountAccepted(r)
      PROVE  Goal
  <2>1. (Finish(r) \/ \E pc, op, a, s : Hold(r, pc, op, a, s)) /\ UNCHANGED announced
    BY <1>2 DEF LoadContract, Respond, CountAccepted
  <2> QED
    BY <1>t, <1>q, <2>1, NothingTold
<1>3. ASSUME NEW r \in Requests, Announce(r) \/ Abort(r)
      PROVE  Goal
  <2>1. Finish(r) /\ announced' \subseteq announced \cup {req[r].event}
    BY <1>3 DEF Announce, Abort
  <2> QED
    BY <1>t, <1>q, <2>1, NothingTold
<1>4. ASSUME NEW r \in Requests, AutoClose(r) \/ AutoCloseFails(r)
      PROVE  Goal
  <2>1. /\ UNCHANGED announced
        /\ \E status, approved :
              FinishWith(r, ClosedEvent(status, "system:expiry", approved, FALSE))
    BY <1>4 DEF AutoClose, AutoCloseFails
  <2> QED
    BY <1>t, <2>1, EventTold, ExpiryIsNoConclusion
<1>5. ASSUME NEW r \in Requests, Activate(r) \/ RejectContract(r) \/ CancelContract(r)
      PROVE  Goal
  <2>1. /\ UNCHANGED announced
        /\ \/ Finish(r)
           \/ \E e \in OtherEvents : FinishWith(r, e)
    BY <1>5 DEF Activate, RejectContract, CancelContract, OtherEvents
  <2>2. CASE Finish(r)
    BY <1>t, <1>q, <2>1, <2>2, NothingTold
  <2>3. ASSUME NEW e \in OtherEvents, FinishWith(r, e)
        PROVE  Goal
    BY <1>t, <2>1, <2>3, EventTold DEF OtherEvents, Conclusion
  <2> QED
    BY <2>1, <2>2, <2>3
<1>6. ASSUME NEW r \in Requests, CloseContract(r)
      PROVE  Goal
  <2>1. CASE Finish(r)
    BY <1>t, <1>6, <1>q, <2>1, NothingTold DEF CloseContract
  <2>2. CASE ~Finish(r)
    <3>1. /\ UNCHANGED announced
          /\ \E e : FinishWith(r, e)
          /\ contract.status = "active"
      BY <1>6, <2>2 DEF CloseContract, CloseMatches
    <3>2. \E w \in BOOLEAN, c \in {"agent", "user"} :
             contract' = [Ended("closed", c) EXCEPT !.closed_without_approval = w]
      <4>1. \A approved : ClosedWithoutApproval(approved) \in BOOLEAN
        BY DEF ClosedWithoutApproval, GatePending
      <4> QED
        BY <1>6, <2>2, <4>1 DEF CloseContract
    <3>3. contract'.status = "closed"
      BY <1>t, <3>2, ClosedRow
    <3> QED
      BY <1>t, <3>1, <3>3, EventTold DEF Live, LiveStatuses
  <2> QED
    BY <2>1, <2>2
<1>7. ASSUME NEW r \in Requests, InsertMessage(r)
      PROVE  Goal
  <2>1. CASE Finish(r)
    BY <1>t, <1>7, <1>q, <2>1, NothingTold DEF InsertMessage
  <2>2. CASE ~Finish(r)
    <3>1. /\ UNCHANGED announced
          /\ \E e : FinishWith(r, e)
          /\ contract.status = "active"
          /\ contract'.status = "closed"
      BY <1>7, <2>2 DEF InsertMessage, InsertAllowed
    <3> QED
      BY <1>t, <3>1, EventTold DEF Live, LiveStatuses
  <2> QED
    BY <2>1, <2>2
<1>8. CASE Environment
  <2>1. UNCHANGED req
    BY <1>8 DEF Environment, ExpiryPasses, ExpirySweep, ManualSweep, SetKillSwitch,
                CloseActive, CancelProposed, AbortFreeze, ClearKillSwitch
  <2>2. \/ UNCHANGED announced
        \/ \E status, approved : announced' = announced \cup
              {ClosedEvent(status, "system:expiry", approved, FALSE)}
    BY <1>8 DEF Environment, ExpiryPasses, ExpirySweep, ManualSweep, SetKillSwitch,
                CloseActive, CancelProposed, AbortFreeze, ClearKillSwitch
  <2>3. CASE UNCHANGED announced
    BY <1>q, <2>1, <2>3 DEF Told
  <2>4. ASSUME NEW status, NEW approved,
               announced' = announced \cup
                  {ClosedEvent(status, "system:expiry", approved, FALSE)}
        PROVE  Goal
    BY <2>1, <2>4, ExpiryIsNoConclusion DEF Told
  <2> QED
    BY <2>2, <2>3, <2>4
<1>9. CASE UNCHANGED vars
  BY <1>q, <1>9 DEF vars, Told
<1> QED
  BY <1>1, <1>2, <1>3, <1>4, <1>5, <1>6, <1>7, <1>8, <1>9 DEF Next, Handle

(* Whoever closes finds an active contract, so nobody closed it before, and nothing
   brings it back: only the expiry can be announced beside a conclusion. *)
THEOREM OneConclusion == Spec => []OneConclusionAnnounced
<1>1. Init => ToldInv
  BY DEF Init, ToldInv, Told, Conclusion, Idle, Held, NoEvent
<1>2. IInv /\ ToldInv /\ StaysEnded /\ [Next]_vars => ToldInv'
  <2> SUFFICES ASSUME IInv, ToldInv, StaysEnded, [Next]_vars
               PROVE  ToldInv'
    OBVIOUS
  <2>1. PICK e : /\ Told' \subseteq Told \cup {e}
                 /\ Conclusion(e) =>
                       contract.status = "active" /\ ~Live(contract'.status)
    BY OneMoreTold
  <2>2. ~Live(contract.status) => ~Live(contract'.status)
    BY DEF StaysEnded
  <2>3. CASE Conclusion(e)
    <3>1. \A f \in Told : ~Conclusion(f)
      BY <2>1, <2>3 DEF ToldInv, Live, LiveStatuses
    <3>2. \A f \in Told' : Conclusion(f) => f = e
      BY <2>1, <3>1
    <3> QED
      BY <2>1, <2>3, <3>2 DEF ToldInv
  <2>4. CASE ~Conclusion(e)
    <3>1. \A f \in Told' : Conclusion(f) => f \in Told
      BY <2>1, <2>4
    <3> QED
      BY <2>2, <3>1 DEF ToldInv
  <2> QED
    BY <2>3, <2>4
<1>3. ToldInv => OneConclusionAnnounced
  BY DEF ToldInv, OneConclusionAnnounced, Told, Conclusion, ClosureEvents, Outcomes
<1>4. IInv /\ [Next]_vars => StaysEnded
  BY StaysEndedStep
<1> QED
  BY <1>1, <1>2, <1>3, <1>4, Invariant, PTL DEF Spec

-----------------------------------------------------------------------------
(* What the kill switch misses *)

(* Behind its first update no contract is active, behind its second none is live. *)
FrozenBehind ==
    /\ freeze = "cancel" => contract.status # "active"
    /\ freeze = "done" => ~Live(contract.status)

(* No accept activates its contract between the two updates of the switch. *)
NoneActivated ==
    freeze = "cancel" /\ contract.status = "proposed" => contract'.status # "active"

(* Only the switch itself goes on from one of its updates to the next. *)
LEMMA FreezeSteps ==
    ASSUME [Next]_vars
    PROVE  CloseActive \/ CancelProposed \/ freeze' = freeze \/ freeze' \in {"idle", "close"}
<1>1. ASSUME NEW r \in Requests, Begin(r) \/ Handle(r) \/ Abort(r)
      PROVE  freeze' = freeze
  BY <1>1 DEF Begin, Handle, Abort, LoadContract, AutoClose, AutoCloseFails, Respond,
              CountAccepted, Activate, RejectContract, CancelContract, CloseContract,
              InsertMessage, Announce, system
<1>2. CASE Environment
  BY <1>2 DEF Environment, ExpiryPasses, ExpirySweep, ManualSweep, SetKillSwitch,
              AbortFreeze, ClearKillSwitch, system
<1>3. CASE UNCHANGED vars
  BY <1>3 DEF vars
<1> QED
  BY <1>1, <1>2, <1>3 DEF Next

(* Each update leaves nothing of what it looks for, and what ended stays ended. *)
LEMMA FrozenStep ==
    ASSUME IInv, FrozenBehind, StaysEnded, [Next]_vars, NoneActivated
    PROVE  FrozenBehind'
<1>1. contract \in Contract /\ contract.status \in ContractStatuses
  BY DEF IInv, TypeOK, Contract
<1>2. ~Live(contract.status) => ~Live(contract'.status)
  BY DEF StaysEnded
<1>3. CASE CloseActive
  <2>1. {"closed"} \subseteq EndedStatuses /\ "system:kill-switch" \in Closers
    BY DEF EndedStatuses, Closers
  <2>2. Ended("closed", "system:kill-switch").status = "closed"
    BY <1>1, <2>1, EndedRow
  <2>3. contract'.status # "active" /\ freeze' = "cancel"
    BY <1>3, <2>2 DEF CloseActive
  <2> QED
    BY <2>3 DEF FrozenBehind
<1>4. CASE CancelProposed
  <2>1. {"cancelled"} \subseteq EndedStatuses /\ "system:kill-switch" \in Closers
    BY DEF EndedStatuses, Closers
  <2>2. Ended("cancelled", "system:kill-switch").status = "cancelled"
    BY <1>1, <2>1, EndedRow
  <2>3. /\ freeze' = "done"
        /\ contract' = IF contract.status = "proposed"
                         THEN Ended("cancelled", "system:kill-switch") ELSE contract
    BY <1>4 DEF CancelProposed
  <2>4. contract.status # "active"
    BY <1>4 DEF CancelProposed, FrozenBehind
  <2>5. ~Live(contract'.status)
    BY <2>2, <2>3, <2>4 DEF Live, LiveStatuses
  <2> QED
    BY <2>3, <2>5 DEF FrozenBehind
<1>5. CASE freeze' = freeze
  <2>1. freeze = "cancel" => contract'.status # "active"
    BY <1>2 DEF FrozenBehind, NoneActivated, Live, LiveStatuses
  <2>2. freeze = "done" => ~Live(contract'.status)
    BY <1>2 DEF FrozenBehind
  <2> QED
    BY <1>5, <2>1, <2>2 DEF FrozenBehind
<1>6. CASE freeze' \in {"idle", "close"}
  BY <1>6 DEF FrozenBehind
<1> QED
  BY <1>3, <1>4, <1>5, <1>6, FreezeSteps

(* The kill switch leaves a contract live only when an accept activates it between
   the two updates: unless that happens, no other race with a handler, an expiry or
   an interrupted switch leaves one (executeKillSwitchActivation). *)
THEOREM FreezeMissesActivationsOnly ==
    Spec /\ [][NoneActivated]_vars => []FreezeLeavesNothingLive
<1>1. Init => FrozenBehind
  BY DEF Init, FrozenBehind
<1>2. IInv /\ FrozenBehind /\ StaysEnded /\ [Next]_vars /\ [NoneActivated]_vars
        => FrozenBehind'
  <2>1. CASE UNCHANGED vars
    BY <2>1 DEF vars, FrozenBehind
  <2> QED
    BY <2>1, FrozenStep
<1>3. IInv /\ [Next]_vars => StaysEnded
  BY StaysEndedStep
<1>4. FrozenBehind => FreezeLeavesNothingLive
  BY DEF FrozenBehind, FreezeLeavesNothingLive
<1> QED
  BY <1>1, <1>2, <1>3, <1>4, Invariant, PTL DEF Spec

-----------------------------------------------------------------------------
(* The handlers implement the abstract contract *)

(* Every step of the row is a step of ContractRow, or none. *)
LEMMA RowStepImplements == IInv /\ [Next]_vars => [Row!RowNext]_(Row!rowVars)
<1> SUFFICES ASSUME IInv, [Next]_vars
             PROVE  Row!RowNext \/ UNCHANGED <<Phase, Consenting,
                                      contract.current_turns, Verdict>>
  BY DEF Row!rowVars
<1> USE DEF Phase, Verdict, Consenting, Concluded
<1>t. /\ contract \in Contract
      /\ participant \in [Participants -> {"pending", "accepted", "rejected"}]
      /\ RowInv
  BY DEF IInv, TypeOK
<1>1. RowStep /\ AnswerStep /\ OneTable
  BY EveryRowStep
<1>2. ASSUME UNCHANGED contract
      PROVE  Row!Consent \/ UNCHANGED <<Phase, Consenting,
                               contract.current_turns, Verdict>>
  <2>1. UNCHANGED participant => Consenting' = Consenting
    OBVIOUS
  <2>2. ASSUME NEW i \in Invitees, NEW a \in {"accepted", "rejected"},
               participant[i] = "pending",
               participant' = [participant EXCEPT ![i] = a]
        PROVE  \/ Consenting' = Consenting
               \/ i \notin Consenting /\ Consenting' = Consenting \cup {i}
    BY <1>t, <2>2 DEF Participants
  <2>3. UNCHANGED <<Phase, contract.current_turns, Verdict>>
    BY <1>2
  <2> HIDE DEF Phase, Verdict, Consenting
  <2>4. \/ Consenting' = Consenting
        \/ \E i \in Invitees \ Consenting : Consenting' = Consenting \cup {i}
    BY <1>1, <2>1, <2>2 DEF AnswerStep
  <2> QED
    BY <2>3, <2>4 DEF Row!Consent
<1>3. ASSUME UNCHANGED participant, RowActivated PROVE Row!Start
  <2>1. Consenting = Invitees /\ Consenting' = Consenting
    <3>1. \A i \in Invitees : participant[i] = "accepted"
      BY <1>3 DEF RowActivated, Unanimous, Participants
    <3> QED
      BY <1>3, <3>1
  <2>2. /\ contract.status = "proposed"
        /\ contract'.status = "active"
        /\ contract'.current_turns = contract.current_turns
        /\ contract'.completion_approved = contract.completion_approved
        /\ contract'.closed_without_approval = contract.closed_without_approval
    BY <1>t, <1>3, ActivatedRow DEF RowActivated
  <2>3. Phase = "offered" /\ Phase' = "running"
    BY <2>2
  <2>4. UNCHANGED <<contract.current_turns, Verdict>>
    BY <2>2
  <2> HIDE DEF Phase, Verdict, Consenting
  <2> QED
    BY <2>1, <2>3, <2>4 DEF Row!Start
<1>4. ASSUME UNCHANGED participant, RowLapsed
      PROVE  Row!Lapse \/ UNCHANGED <<Phase, Consenting,
                              contract.current_turns, Verdict>>
  <2>1. UNCHANGED <<Consenting, contract.current_turns, Verdict>>
    BY <1>t, <1>4, EndedRow DEF RowLapsed
  <2>2. Phase' = "lapsed"
    BY <1>t, <1>4, EndedRow DEF RowLapsed, EndedStatuses
  <2> HIDE DEF Phase, Verdict, Consenting
  <2> QED
    BY <2>1, <2>2 DEF Row!Lapse
<1>5. ASSUME UNCHANGED participant, RowClosed
      PROVE  Row!Conclude \/ Row!Refuse
  <2>1. PICK c \in {"agent", "user"}, w \in BOOLEAN :
          /\ contract.status = "active"
          /\ w => Gated /\ ~contract.completion_approved
          /\ Gated /\ ~w => contract.completion_approved
          /\ contract' = [Ended("closed", c) EXCEPT !.closed_without_approval = w]
    BY <1>5 DEF RowClosed
  <2>2. /\ contract'.status = "closed"
        /\ contract'.closed_by = c
        /\ contract'.current_turns = contract.current_turns
        /\ contract'.completion_approved = contract.completion_approved
        /\ contract'.closed_without_approval = w
    BY <1>t, <2>1, ClosedRow
  <2>3. ~contract.closed_without_approval
    BY <1>t, <2>1 DEF RowInv, FreshUntilActive, Live, LiveStatuses
  <2>4. Phase = "running" /\ Phase' = "concluded"
    BY <2>1, <2>2 DEF ConcludingClosers
  <2>5. UNCHANGED <<Consenting, contract.current_turns>>
    BY <1>5, <2>2
  <2>6. w => Gated /\ Verdict = "none" /\ Verdict' = "refused"
    BY <2>1, <2>2, <2>3
  <2>7. ~w => Verdict' = Verdict /\ (Gated => Verdict = "accepted")
    BY <2>1, <2>2, <2>3
  <2> HIDE DEF Phase, Verdict, Consenting
  <2> QED
    BY <2>4, <2>5, <2>6, <2>7 DEF Row!Conclude, Row!Refuse
<1>6. ASSUME UNCHANGED participant, RowMessage
      PROVE  Row!Talk \/ Row!Approve
                \/ UNCHANGED <<Phase, Consenting, contract.current_turns, Verdict>>
  <2>1. PICK type \in MessageTypes, a \in Participants :
               InsertAllowed(type, a) /\ contract' = MessageRow(type)
    BY <1>6 DEF RowMessage
  <2> DEFINE ends == ApprovalCloses(type) \/ LastTurnCloses(type)
  <2>2. /\ contract'.status = IF ends THEN "closed" ELSE "active"
        /\ ends => contract'.closed_by = MessageCloser(type)
        /\ contract'.current_turns = TurnsAfter(type)
        /\ contract'.completion_approved = ApprovedAfter(type)
        /\ contract'.closed_without_approval = contract.closed_without_approval
    BY <1>t, <2>1, MessageRowFields
  <2>3. contract.status = "active" /\ ~contract.closed_without_approval
    BY <1>t, <2>1 DEF RowInv, FreshUntilActive, Live, LiveStatuses, InsertAllowed
  <2>4. Phase = "running" /\ Phase' = IF ends THEN "concluded" ELSE "running"
    BY <2>2, <2>3 DEF ConcludingClosers, MessageCloser
  <2>5. /\ Verdict = IF contract.completion_approved THEN "accepted" ELSE "none"
        /\ Verdict' = IF ApprovedAfter(type) THEN "accepted" ELSE "none"
    BY <2>2, <2>3
  <2>6. Consenting' = Consenting
    BY <1>6
  <2> HIDE DEF Phase, Verdict, Consenting, ends
  <2>7. CASE type = "turn"
    <3>1. /\ contract.current_turns < MaxTurns
          /\ TurnsAfter(type) = contract.current_turns + 1
          /\ ApprovedAfter(type) = contract.completion_approved
      BY <1>t, <2>1, <2>7
         DEF InsertAllowed, ConsumesTurn, TurnsAfter, ApprovedAfter, Contract
    <3>2. ends <=> /\ contract.current_turns + 1 = MaxTurns
                   /\ Gated => contract.completion_approved
      BY <1>t, <2>7, <3>1, ContractAssumption
         DEF ends, ApprovalCloses, LastTurnCloses, ConsumesTurn, GatePending, Contract
    <3> QED
      BY <2>2, <2>4, <2>5, <2>6, <3>1, <3>2 DEF Row!Talk
  <2>8. CASE type = "receipt"
    <3>1. /\ TurnsAfter(type) = contract.current_turns
          /\ ApprovedAfter(type) = contract.completion_approved
          /\ ~ends
      BY <1>t, <2>8 DEF ConsumesTurn, TurnsAfter, ApprovedAfter, Contract, ends,
                        ApprovalCloses, LastTurnCloses
    <3> QED
      BY <2>2, <2>4, <2>5, <2>6, <3>1
  <2>9. CASE type = "approval"
    <3>1. /\ TurnsAfter(type) = contract.current_turns
          /\ ApprovedAfter(type)
          /\ ends <=> Gated /\ contract.current_turns = MaxTurns
      BY <1>t, <2>9, ContractAssumption
         DEF ConsumesTurn, TurnsAfter, ApprovedAfter, Contract, ends,
             ApprovalCloses, LastTurnCloses
    <3> QED
      BY <2>2, <2>4, <2>5, <2>6, <3>1 DEF Row!Approve
  <2> QED
    BY <2>7, <2>8, <2>9 DEF MessageTypes
<1> QED
  BY <1>1, <1>2, <1>3, <1>4, <1>5, <1>6 DEF RowStep, OneTable, Row!RowNext

(* Every behaviour of the handlers is a behaviour of the abstract contract. *)
THEOREM Implementation == Spec => ImplementsRow
<1>1. Init => Row!RowInit
  <2> SUFFICES ASSUME Init PROVE Row!RowInit
    OBVIOUS
  <2>1. Consenting = {}
    BY DEF Init, Consenting, Participants
  <2>2. Phase = "offered" /\ Verdict = "none" /\ contract.current_turns = 0
    BY DEF Init, Phase, Verdict
  <2> QED
    BY <2>1, <2>2 DEF Row!RowInit
<1> QED
  BY <1>1, RowStepImplements, Invariant, PTL DEF Spec, ImplementsRow, Row!RowSpec

=============================================================================
