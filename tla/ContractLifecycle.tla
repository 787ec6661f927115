------------------------- MODULE ContractLifecycle -------------------------
(***************************************************************************)
(* One contract of Holloway and everything that writes its row: the API    *)
(* handlers under src/src/app/api/v1/contracts, the operator's close of    *)
(* the dashboard, the two expiry sweeps and the kill switch.               *)
(*                                                                         *)
(* A handler is asynchronous: every statement it sends to Postgres is a    *)
(* step, and other handlers run between two of them.  A request therefore  *)
(* lives in a slot (req[r]) that holds its position, its operation and     *)
(* what it read.  The contract row, the participant rows and the messages  *)
(* are the shared tables; insert_message_atomic, which holds the row lock, *)
(* is a single step.                                                       *)
(***************************************************************************)
EXTENDS Naturals, Sequences, FiniteSets

CONSTANTS
    Proposer,      \* the agent that proposed the contract
    Invitees,      \* the agents that must answer the proposal
    Observers,     \* inserted as accepted; may only read
    Requests,      \* slots for handlers in flight: a bound on concurrency
    MaxTurns,      \* contracts.max_turns
    Gated,         \* contracts.completion_requires_approval
    MaxMessages    \* bound on the message log, so that free receipts end

Participants == {Proposer} \cup Invitees \cup Observers

ASSUME ContractAssumption ==
    /\ Proposer \notin Invitees \cup Observers
    /\ Invitees \cap Observers = {}
    /\ MaxTurns \in Nat
    /\ Gated \in BOOLEAN
    /\ MaxMessages \in Nat

VARIABLES
    contract,      \* the contracts row
    participant,   \* contract_participants.status
    messages,      \* the messages of the contract, oldest first
    past_expiry,   \* expires_at < now(); nothing ever moves expires_at
    kill_switch,   \* system_config.kill_switch.active
    freeze,        \* where executeKillSwitchActivation stands
    req,           \* the handlers in flight
    announced      \* the contract events handed to deliverWebhooks

vars == <<contract, participant, messages, past_expiry, kill_switch, freeze,
          req, announced>>

-----------------------------------------------------------------------------
(* Types *)

LiveStatuses == {"proposed", "active"}
EndedStatuses == {"closed", "rejected", "expired", "cancelled"}
ContractStatuses == LiveStatuses \cup EndedStatuses

(* closed_by: a participant, a dashboard user, or one of the system actors. *)
Closers == {"none", "agent", "user", "system:expiry", "system:expiry-sweep",
            "system:max-turns", "system:completion-approved",
            "system:kill-switch"}

Contract == [status : ContractStatuses,
             current_turns : 0..MaxTurns,
             completion_approved : BOOLEAN,
             closed_by : Closers,
             closed_without_approval : BOOLEAN]

(* message, request, response, update and status all cost a turn. *)
MessageTypes == {"turn", "receipt", "approval"}
Message == [message_type : MessageTypes, turn_number : 0..MaxTurns]

ResponseOps == {"accept", "reject"}
CloseOps == {"close", "close-without-approval"}
OperatorOps == {"operator-close", "operator-close-without-approval"}
Ops == ResponseOps \cup CloseOps \cup OperatorOps \cup MessageTypes
          \cup {"cancel", "read"}

Outcomes == {"completed-approved", "turns-exhausted", "expired",
             "closed-by-participant", "closed-unapproved"}

ClosureEvents == [event : {"contract.closed", "contract.expired"},
                  outcome : Outcomes]
OtherEvents == [event : {"contract.accepted", "contract.rejected",
                         "contract.cancelled"},
                outcome : {"none"}]
NoEvent == [event |-> "none", outcome |-> "none"]
Events == ClosureEvents \cup OtherEvents

(* What a handler keeps of the row it read. *)
Snapshot == [status : ContractStatuses, completion_approved : BOOLEAN]
NoSnapshot == [status |-> "proposed", completion_approved |-> FALSE]

Positions == {"idle", "load", "autoclose", "respond", "count", "activate",
              "commit", "announce"}

(* A handler in flight; one that announces has an event to announce. *)
Request ==
    {q \in [pc : Positions, op : Ops, agent : Participants,
            seen : Snapshot, event : Events \cup {NoEvent}] :
       q.pc = "announce" => q.event \in Events}

Held(pc, op, agent, seen, event) ==
    [pc |-> pc, op |-> op, agent |-> agent, seen |-> seen, event |-> event]

Idle == Held("idle", "read", Proposer, NoSnapshot, NoEvent)

-----------------------------------------------------------------------------
(* Pure decisions of the code *)

Live(status) == status \in LiveStatuses

ConsumesTurn(type) == type \notin {"receipt", "approval"}

GatePending(approved) == Gated /\ ~approved

(* Mutant of AllAccepted: everyone has answered. *)
NobodyPending == \A p \in Participants : participant[p] # "pending"

AllAccepted == \A p \in Participants : participant[p] = "accepted"

(* evaluateGatedClose, and its counterpart in the operator's closeContract:
   until the gate opens the only close is an explicit refusal of the work,
   by the proposer or by an operator. *)
GateAllows(op, agent, approved) ==
    GatePending(approved) =>
       \/ op = "close-without-approval" /\ agent = Proposer
       \/ op = "operator-close-without-approval"

(* Mutant of ClosedWithoutApproval: the refusal is not recorded. *)
RefusalForgotten(approved) == FALSE

ClosedWithoutApproval(approved) == GatePending(approved)

(* resolveCloseOutcome.  A gated contract closes on its last turn only once
   its approval is recorded, so an approved one that lands there completed. *)
CloseOutcome(closedBy, approved, withoutApproval) ==
    IF withoutApproval THEN "closed-unapproved"
    ELSE IF \/ closedBy = "system:completion-approved"
            \/ closedBy = "system:max-turns" /\ approved
      THEN "completed-approved"
    ELSE IF closedBy = "system:max-turns" THEN "turns-exhausted"
    ELSE IF closedBy = "system:expiry" THEN "expired"
    ELSE "closed-by-participant"

(* The event emitContractClosed delivers. *)
ClosedEvent(status, closedBy, approved, withoutApproval) ==
    [event |-> IF status = "expired" THEN "contract.expired"
                                     ELSE "contract.closed",
     outcome |-> CloseOutcome(closedBy, approved, withoutApproval)]

(* evaluateContractParticipantMutation on the row getParticipant returned.
   Where no later step looks at the caller, one caller stands for all. *)
MayCall(op, agent) ==
    \/ /\ op \in ResponseOps
       /\ agent \in Invitees
       /\ participant[agent] = "pending"
    \/ op \in CloseOps \cup {"approval"} /\ agent \notin Observers
    \/ op \notin ResponseOps \cup CloseOps \cup {"approval"} /\ agent = Proposer

(* The handlers that run autoCloseIfExpired on the row they read.  Cancel,
   close and the operator's close do not. *)
ChecksExpiry(op) == op \in ResponseOps \cup MessageTypes \cup {"read"}

ExpiredStatus(status) == IF status = "proposed" THEN "expired" ELSE "closed"

(* The checks a handler makes on the row it read, before it writes. *)
Passes(op, agent, row) ==
    \/ op \in ResponseOps \cup {"cancel"} /\ row.status = "proposed"
    \/ /\ op \in CloseOps \cup OperatorOps
       /\ row.status = "active"
       /\ GateAllows(op, agent, row.completion_approved)
    \/ /\ op \in MessageTypes
       /\ row.status = "active"
       /\ ConsumesTurn(op) => row.current_turns < MaxTurns
       /\ op = "approval" => agent = Proposer

-----------------------------------------------------------------------------
(* A proposal as createContractProposal leaves it *)

Init ==
    /\ contract = [status |-> "proposed", current_turns |-> 0,
                   completion_approved |-> FALSE, closed_by |-> "none",
                   closed_without_approval |-> FALSE]
    /\ participant = [p \in Participants |->
                        IF p \in Invitees THEN "pending" ELSE "accepted"]
    /\ messages = <<>>
    /\ past_expiry = FALSE
    /\ kill_switch = FALSE
    /\ freeze = "idle"
    /\ req = [r \in Requests |-> Idle]
    /\ announced = {}

-----------------------------------------------------------------------------
(* Handlers *)

tables == <<contract, participant, messages>>
system == <<past_expiry, kill_switch, freeze>>

(* A handler keeps only what a later statement of it reads. *)
Hold(r, pc, op, agent, seen) ==
    req' = [req EXCEPT ![r] = Held(pc, op, agent, seen, NoEvent)]
Finish(r) == req' = [req EXCEPT ![r] = Idle]
FinishWith(r, event) ==
    req' = [req EXCEPT ![r] = Held("announce", "read", Proposer, NoSnapshot,
                                   event)]

(* The columns every ending of a contract writes. *)
Ended(status, closedBy) ==
    [contract EXCEPT !.status = status, !.closed_by = closedBy]

(* authenticateApiRequest and getParticipant.  A write is refused while the
   kill switch is on; reads are not, and the dashboard's server actions never
   look at it.  A refused request leaves nothing behind and is not taken.
   That the two reads are one step loses nothing: a response is given once,
   so a later read of the participant row only refuses more. *)
Begin(r) ==
    /\ req[r].pc = "idle"
    /\ \E op \in Ops, agent \in Participants :
         /\ kill_switch => op \in OperatorOps \cup {"read"}
         /\ MayCall(op, agent)
         /\ Hold(r, "load", op, agent, NoSnapshot)
    /\ UNCHANGED <<tables, system, announced>>

(* SELECT * FROM contracts, and every check made before the next statement.
   autoCloseIfExpired compares expires_at with the clock here and keeps the
   status it read. *)
LoadContract(r) ==
    LET q == req[r]
        expires == ChecksExpiry(q.op) /\ Live(contract.status) /\ past_expiry
        passes == ~expires /\ Passes(q.op, q.agent, contract)
        seen == [status |-> contract.status,
                 completion_approved |-> contract.completion_approved]
    IN
    /\ q.pc = "load"
    /\ \/ expires /\ Hold(r, "autoclose", "read", Proposer, seen)
       \/ /\ passes
          /\ q.op \in ResponseOps
          /\ Hold(r, "respond", q.op, q.agent, NoSnapshot)
       \/ /\ passes
          /\ q.op \in CloseOps
          /\ Hold(r, "commit", "close", Proposer, seen)
       \/ /\ passes
          /\ q.op \in OperatorOps
          /\ Hold(r, "commit", "operator-close", Proposer, seen)
       \/ /\ passes
          /\ q.op \in MessageTypes \cup {"cancel"}
          /\ Hold(r, "commit", q.op, q.agent, NoSnapshot)
       \/ ~expires /\ ~passes /\ Finish(r)
    /\ UNCHANGED <<tables, system, announced>>

(* The UPDATE of autoCloseIfExpired filters on the id alone: it writes over
   whatever the row says by now.  It leaves closed_without_approval as is. *)
AutoCloseRow(seen) == Ended(ExpiredStatus(seen.status), "system:expiry")

AutoClose(r) ==
    LET seen == req[r].seen
        row == AutoCloseRow(seen)
    IN
    /\ req[r].pc = "autoclose"
    /\ contract' = row
    /\ FinishWith(r, ClosedEvent(row.status, "system:expiry",
                                 row.completion_approved, FALSE))
    /\ UNCHANGED <<participant, messages, system, announced>>

(* The error of that UPDATE is not looked at: the closure is announced from
   the snapshot although the row did not change. *)
AutoCloseFails(r) ==
    LET seen == req[r].seen IN
    /\ req[r].pc = "autoclose"
    /\ FinishWith(r, ClosedEvent(ExpiredStatus(seen.status), "system:expiry",
                                 seen.completion_approved, FALSE))
    /\ UNCHANGED <<tables, system, announced>>

(* Mutant of Respond: the UPDATE does not filter on 'pending'. *)
RespondUnguarded(r) ==
    LET q == req[r]
        answer == IF q.op = "accept" THEN "accepted" ELSE "rejected"
    IN
    /\ q.pc = "respond"
    /\ participant' = [participant EXCEPT ![q.agent] = answer]
    /\ Hold(r, IF q.op = "accept" THEN "count" ELSE "commit", q.op, Proposer,
            NoSnapshot)
    /\ UNCHANGED <<contract, messages, system, announced>>

(* The participant's answer, once: UPDATE ... WHERE status = 'pending'. *)
Respond(r) ==
    LET q == req[r]
        answer == IF q.op = "accept" THEN "accepted" ELSE "rejected"
    IN
    /\ q.pc = "respond"
    /\ \/ /\ participant[q.agent] = "pending"
          /\ participant' = [participant EXCEPT ![q.agent] = answer]
          /\ Hold(r, IF q.op = "accept" THEN "count" ELSE "commit", q.op,
                  Proposer, NoSnapshot)
       \/ /\ participant[q.agent] # "pending"
          /\ Finish(r)
          /\ UNCHANGED participant
    /\ UNCHANGED <<contract, messages, system, announced>>

(* activateIfAllAccepted, its read: has everyone accepted? *)
CountAccepted(r) ==
    /\ req[r].pc = "count"
    /\ IF AllAccepted THEN Hold(r, "activate", "accept", Proposer, NoSnapshot)
                     ELSE Finish(r)
    /\ UNCHANGED <<tables, system, announced>>

(* Mutant of Activate: the UPDATE does not filter on 'proposed'. *)
ActivateUnguarded(r) ==
    /\ req[r].pc = "activate"
    /\ contract' = [contract EXCEPT !.status = "active"]
    /\ FinishWith(r, [event |-> "contract.accepted", outcome |-> "none"])
    /\ UNCHANGED <<participant, messages, system, announced>>

(* activateIfAllAccepted, its write, and the event of the accept route. *)
Activate(r) ==
    /\ req[r].pc = "activate"
    /\ \/ /\ contract.status = "proposed"
          /\ contract' = [contract EXCEPT !.status = "active"]
          /\ FinishWith(r, [event |-> "contract.accepted", outcome |-> "none"])
       \/ /\ contract.status # "proposed"
          /\ Finish(r)
          /\ UNCHANGED contract
    /\ UNCHANGED <<participant, messages, system, announced>>

(* The reject route's write.  It is lost when the contract already ended, or
   when the statement fails; the event goes out in every case. *)
RejectContract(r) ==
    /\ req[r].pc = "commit"
    /\ req[r].op = "reject"
    /\ \/ /\ contract.status = "proposed"
          /\ contract' = Ended("rejected", "agent")
       \/ UNCHANGED contract
    /\ FinishWith(r, [event |-> "contract.rejected", outcome |-> "none"])
    /\ UNCHANGED <<participant, messages, system, announced>>

CancelContract(r) ==
    /\ req[r].pc = "commit"
    /\ req[r].op = "cancel"
    /\ \/ /\ contract.status = "proposed"
          /\ contract' = Ended("cancelled", "agent")
          /\ FinishWith(r, [event |-> "contract.cancelled",
                            outcome |-> "none"])
       \/ /\ contract.status # "proposed"
          /\ Finish(r)
          /\ UNCHANGED contract
    /\ UNCHANGED <<participant, messages, system, announced>>

(* Mutant of CloseMatches: the approval is not looked at again. *)
CloseMatchesStatusOnly(withoutApproval) == contract.status = "active"

(* The filters of the close UPDATE: still active and, for a refusal of the
   work, still not approved. *)
CloseMatches(withoutApproval) ==
    /\ contract.status = "active"
    /\ withoutApproval => ~contract.completion_approved

(* The close route's and the operator's write.  Whether this is a refusal of
   the work was decided on the row the handler read. *)
CloseContract(r) ==
    LET q == req[r]
        withoutApproval == ClosedWithoutApproval(q.seen.completion_approved)
        closer == IF q.op \in OperatorOps THEN "user" ELSE "agent"
    IN
    /\ q.pc = "commit"
    /\ q.op \in CloseOps \cup OperatorOps
    /\ \/ /\ CloseMatches(withoutApproval)
          /\ contract' = [Ended("closed", closer) EXCEPT
                             !.closed_without_approval = withoutApproval]
          /\ FinishWith(r, ClosedEvent("closed", closer,
                              q.seen.completion_approved, withoutApproval))
       \/ /\ ~CloseMatches(withoutApproval)
          /\ Finish(r)
          /\ UNCHANGED contract
    /\ UNCHANGED <<participant, messages, system, announced>>

(* Mutant of TurnsAfter: receipts and approvals cost a turn too. *)
TurnsAfterAny(type) == contract.current_turns + 1

(* insert_message_atomic: what it makes of the locked row. *)
TurnsAfter(type) ==
    contract.current_turns + (IF ConsumesTurn(type) THEN 1 ELSE 0)

ApprovedAfter(type) == contract.completion_approved \/ type = "approval"

(* Mutant of ApprovalCloses: an approval only records itself. *)
ApprovalOnlyRecorded(type) == FALSE

(* An approval completes a gated contract whose budget is already spent. *)
ApprovalCloses(type) ==
    type = "approval" /\ Gated /\ contract.current_turns >= MaxTurns

(* Mutant of LastTurnCloses: the gate is not consulted. *)
LastTurnClosesGated(type) == ConsumesTurn(type) /\ TurnsAfter(type) >= MaxTurns

(* Mutant of LastTurnCloses: off by one. *)
LastTurnClosesLate(type) ==
    /\ ConsumesTurn(type)
    /\ TurnsAfter(type) > MaxTurns
    /\ ~GatePending(ApprovedAfter(type))

(* The last turn closes the contract unless its approval is outstanding. *)
LastTurnCloses(type) ==
    /\ ConsumesTurn(type)
    /\ TurnsAfter(type) >= MaxTurns
    /\ ~GatePending(ApprovedAfter(type))

MessageCloser(type) == IF ApprovalCloses(type)
                         THEN "system:completion-approved"
                         ELSE "system:max-turns"

(* Mutant of InsertAllowed: the budget is checked on the snapshot only. *)
InsertAllowedOverBudget(type, agent) ==
    /\ contract.status = "active"
    /\ type = "approval" => agent = Proposer

InsertAllowed(type, agent) ==
    /\ contract.status = "active"
    /\ ConsumesTurn(type) => contract.current_turns < MaxTurns
    /\ type = "approval" => agent = Proposer

MessageRow(type) ==
    LET ends == ApprovalCloses(type) \/ LastTurnCloses(type) IN
    [contract EXCEPT
        !.current_turns = TurnsAfter(type),
        !.completion_approved = ApprovedAfter(type),
        !.status = IF ends THEN "closed" ELSE @,
        !.closed_by = IF ends THEN MessageCloser(type) ELSE @]

InsertMessage(r) ==
    LET q == req[r]
        type == q.op
        row == MessageRow(type)
    IN
    /\ q.pc = "commit"
    /\ type \in MessageTypes
    /\ \/ /\ InsertAllowed(type, q.agent)
          /\ Len(messages) < MaxMessages
          /\ messages' = Append(messages, [message_type |-> type,
                                           turn_number |-> TurnsAfter(type)])
          /\ contract' = row
          /\ IF row.status = "closed"
               THEN FinishWith(r, ClosedEvent("closed", row.closed_by,
                                         row.completion_approved, FALSE))
               ELSE Finish(r)
       \/ /\ ~InsertAllowed(type, q.agent)
          /\ Finish(r)
          /\ UNCHANGED <<contract, messages>>
    /\ UNCHANGED <<participant, system, announced>>

(* deliverWebhooks, fire and forget, after the write was committed. *)
Announce(r) ==
    /\ req[r].pc = "announce"
    /\ announced' = announced \cup {req[r].event}
    /\ Finish(r)
    /\ UNCHANGED <<tables, system>>

(* A handler dies between two statements, or one of them fails and the rest
   is skipped: what was committed stays, what follows never happens. *)
Abort(r) ==
    /\ req[r].pc # "idle"
    /\ Finish(r)
    /\ UNCHANGED <<tables, system, announced>>

Handle(r) ==
    \/ LoadContract(r) \/ AutoClose(r) \/ AutoCloseFails(r) \/ Respond(r)
    \/ CountAccepted(r) \/ Activate(r) \/ RejectContract(r)
    \/ CancelContract(r) \/ CloseContract(r) \/ InsertMessage(r)
    \/ Announce(r)

-----------------------------------------------------------------------------
(* The clock, the sweeps and the kill switch *)

ExpiryPasses ==
    /\ ~past_expiry
    /\ past_expiry' = TRUE
    /\ UNCHANGED <<tables, kill_switch, freeze, req, announced>>

(* One SQL statement with the rows locked. *)
SweepRow(closedBy) == Ended(ExpiredStatus(contract.status), closedBy)

(* Mutant of ExpirySweep: proposals that nobody answered are left alone. *)
SweepActiveOnly ==
    /\ past_expiry
    /\ contract.status = "active"
    /\ contract' = SweepRow("system:expiry")
    /\ UNCHANGED <<participant, messages, system, req, announced>>

(* ops/bin/a2a-contract-expiry-sweep, run hourly: it enqueues the closure
   webhooks in the statement that ends the contract. *)
ExpirySweep ==
    /\ past_expiry
    /\ Live(contract.status)
    /\ contract' = SweepRow("system:expiry")
    /\ announced' = announced \cup
         {ClosedEvent(ExpiredStatus(contract.status), "system:expiry",
                      contract.completion_approved, FALSE)}
    /\ UNCHANGED <<participant, messages, system, req>>

(* scripts/contract-expiry-sweep.sh: another closer, and no webhook. *)
ManualSweep ==
    /\ past_expiry
    /\ Live(contract.status)
    /\ contract' = SweepRow("system:expiry-sweep")
    /\ UNCHANGED <<participant, messages, system, req, announced>>

(* executeKillSwitchActivation: the flag (and the approval it consumes, which
   no contract sees), then the active contracts, then the proposed ones.  Any
   step may throw. *)
SetKillSwitch ==
    /\ freeze = "idle"
    /\ kill_switch' = TRUE
    /\ freeze' = "close"
    /\ UNCHANGED <<tables, past_expiry, req, announced>>

CloseActive ==
    /\ freeze = "close"
    /\ freeze' = "cancel"
    /\ contract' = IF contract.status = "active"
                     THEN Ended("closed", "system:kill-switch")
                     ELSE contract
    /\ UNCHANGED <<participant, messages, past_expiry, kill_switch, req,
                   announced>>

CancelProposed ==
    /\ freeze = "cancel"
    /\ freeze' = "done"
    /\ contract' = IF contract.status = "proposed"
                     THEN Ended("cancelled", "system:kill-switch")
                     ELSE contract
    /\ UNCHANGED <<participant, messages, past_expiry, kill_switch, req,
                   announced>>

AbortFreeze ==
    /\ freeze \in {"close", "cancel"}
    /\ freeze' = "idle"
    /\ UNCHANGED <<tables, past_expiry, kill_switch, req, announced>>

(* deactivateKillSwitch *)
ClearKillSwitch ==
    /\ kill_switch
    /\ kill_switch' = FALSE
    /\ freeze' = IF freeze = "done" THEN "idle" ELSE freeze
    /\ UNCHANGED <<tables, past_expiry, req, announced>>

Environment ==
    \/ ExpiryPasses \/ ExpirySweep \/ ManualSweep
    \/ SetKillSwitch \/ CloseActive \/ CancelProposed
    \/ AbortFreeze \/ ClearKillSwitch

Next == \/ \E r \in Requests : Begin(r) \/ Handle(r) \/ Abort(r)
        \/ Environment

Spec == Init /\ [][Next]_vars

(* Time passes, and the timer runs the sweep every hour whatever happens to
   the handlers.  No handler is promised a fair share of anything. *)
FairSpec == Spec /\ WF_vars(ExpiryPasses) /\ WF_vars(ExpirySweep)

(* Everybody keeps trying everything, and what they start goes on: the most that
   agents and operators could do for an outcome.  The code promises no such thing;
   what fails even so (Reopened) is out of everybody's reach. *)
Attempt(ops) == \E r \in Requests : Begin(r) /\ req'[r].op \in ops

TirelessSpec ==
    /\ Spec
    /\ WF_vars(\E r \in Requests : Handle(r))
    /\ SF_vars(ClearKillSwitch)
    /\ \A ops \in {ResponseOps, CloseOps, OperatorOps, MessageTypes, {"cancel"}, {"read"}} :
          SF_vars(Attempt(ops))

-----------------------------------------------------------------------------
(* Properties *)

(* Every variable keeps its type; in particular the turns stay within the
   budget although the handlers check them on a snapshot. *)
TypeOK ==
    /\ contract \in Contract
    /\ participant \in [Participants -> {"pending", "accepted", "rejected"}]
    /\ messages \in Seq(Message)
    /\ past_expiry \in BOOLEAN
    /\ kill_switch \in BOOLEAN
    /\ freeze \in {"idle", "close", "cancel", "done"}
    /\ req \in [Requests -> Request]
    /\ announced \subseteq Events

Unanimous == \A p \in Participants : participant[p] = "accepted"

(* A contract runs, spends a turn or has its work approved only when every
   participant accepted it, although the answers and the activation are
   separate statements of concurrent accept and reject handlers
   (accept/route.ts, activateIfAllAccepted). *)
UnanimousActivation ==
    (\/ contract.status = "active"
     \/ contract.current_turns > 0
     \/ contract.completion_approved) => Unanimous

TurnBefore(i) == IF i = 1 THEN 0 ELSE messages[i - 1].turn_number

(* The turn numbers on the messages count the turns spent: each message that
   costs a turn takes the next number, a receipt or an approval stands at the
   number before it, and the last number is contracts.current_turns, whatever
   order the handlers commit in (insert_message_atomic). *)
TurnNumbersContiguous ==
    /\ \A i \in 1..Len(messages) :
         messages[i].turn_number =
           TurnBefore(i) +
             (IF ConsumesTurn(messages[i].message_type) THEN 1 ELSE 0)
    /\ contract.current_turns = TurnBefore(Len(messages) + 1)

(* A contract that has no turn left is still active only while its approval
   is outstanding: no order of last turn and approval leaves a contract open
   that nobody owes anything (insert_message_atomic). *)
ExhaustedOnlyAwaitingApproval ==
    (/\ MaxTurns > 0
     /\ contract.status = "active"
     /\ contract.current_turns = MaxTurns) =>
        GatePending(contract.completion_approved)

(* The closers that end a contract for a reason of its own. *)
ConcludingClosers == {"agent", "user", "system:max-turns",
                      "system:completion-approved"}

(* The gate: a gated contract closed by an agent, by an operator or by its
   last turn has its approval recorded, or is marked as closed without it,
   although both closes decide on a row they read earlier. *)
GateHolds ==
    (/\ Gated
     /\ contract.status = "closed"
     /\ contract.closed_by \in ConcludingClosers) =>
        contract.completion_approved \/ contract.closed_without_approval

(* The work is never both approved and refused: "An approval landing mid-close
   would otherwise be recorded as a refusal" (close/route.ts). *)
OneVerdict ==
    ~(contract.completion_approved /\ contract.closed_without_approval)

(* What the participants are told is true of the rows, even when the event
   leaves long after the write and expiry wrote over the row: the verdict of a
   closure, an acceptance and a rejection (emitContractClosed, accept and
   reject routes).  So they never hear of both an acceptance and a rejection,
   nor that the work was both approved and not. *)
AnnouncedTrue ==
    \A e \in announced :
        /\ e.outcome = "completed-approved" => contract.completion_approved
        /\ e.outcome = "closed-unapproved" =>
                contract.closed_without_approval
        /\ e.event = "contract.accepted" =>
                Unanimous /\ contract.status # "proposed"
        /\ e.event = "contract.rejected" =>
                \E i \in Invitees : participant[i] = "rejected"

StaysEnded ==
    ~Live(contract.status) =>
        /\ ~Live(contract'.status)
        /\ contract'.current_turns = contract.current_turns
        /\ contract'.completion_approved = contract.completion_approved
        /\ contract'.closed_without_approval =
              contract.closed_without_approval
        /\ messages' = messages

(* Once ended, a contract never comes back to life, spends no turn, takes no
   message and changes no verdict, whatever stale handlers still hold
   (autoCloseIfExpired and activateIfAllAccepted write late).  No handler offers
   to reopen one either, which the security page promises: Reopened. *)
EndedForGood == [][StaysEnded]_vars

(* The row promises what ContractRow says, under this reading of it. *)
Concluded ==
    /\ contract.status = "closed"
    /\ contract.closed_by \in ConcludingClosers

Phase == IF contract.status = "proposed" THEN "offered"
         ELSE IF contract.status = "active" THEN "running"
         ELSE IF Concluded THEN "concluded" ELSE "lapsed"

Verdict == IF contract.closed_without_approval THEN "refused"
           ELSE IF contract.completion_approved THEN "accepted" ELSE "none"

Consenting == {i \in Invitees : participant[i] = "accepted"}

Row == INSTANCE ContractRow WITH
          Parties <- Invitees,
          Budget <- MaxTurns,
          Gated <- Gated,
          phase <- Phase,
          consent <- Consenting,
          spent <- contract.current_turns,
          verdict <- Verdict

(* Every behaviour of the handlers is one of the abstract contract. *)
ImplementsRow == Row!RowSpec

(* Every contract ends: the clock reaches expires_at and the sweep takes
   what no handler ended, even a contract wedged in "proposed" by a handler
   that died between an answer and the activation. *)
EventuallyEnded == <>[](~Live(contract.status))

(* Every closure of one contract is announced with the same outcome
   (close/route.ts:113, "Announce the closure once, in the canonical shape
   every other path emits, so consumers can reconcile on `outcome`"). *)
OneOutcomeAnnounced ==
    \A e, f \in announced \cap ClosureEvents : e.outcome = f.outcome

(* When the kill switch has run, no contract is left live (security/page.tsx:725,
   "All active contracts are closed"). *)
FreezeLeavesNothingLive == freeze = "done" => ~Live(contract.status)

(* What the kill switch closed can be reopened: once it is lifted, somebody who
   keeps trying gets the contract back (security/page.tsx:743, "Use it when the
   situation warrants it - you can always reopen contracts afterward."). *)
Reopened ==
    (/\ contract.status = "closed"
     /\ contract.closed_by = "system:kill-switch") ~> Live(contract.status)
=============================================================================
