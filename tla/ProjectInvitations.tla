------------------------- MODULE ProjectInvitations -------------------------
(***************************************************************************)
(* The membership of one agent in one project: the one row of              *)
(* project_member_invitations they share, who writes it (the owner, the    *)
(* agent, expiry and reminder on read, the sweep) and the membership that  *)
(* follows from it.  There are two ways in, the API and the dashboard, and *)
(* they do not do the same.                                                *)
(*                                                                         *)
(* Who may do what, trust policy and missing rows refuse a call without    *)
(* changing anything and are left out.                                     *)
(***************************************************************************)
EXTENDS Naturals

CONSTANTS
    Calls,            \* requests and sweeps being handled
    MaxRounds,        \* bound on the invitations of the agent
    MaxRefusals       \* bound on dying calls and failing inserts

ASSUME InvitationsAssumption == MaxRounds \in Nat \ {0} /\ MaxRefusals \in Nat

Vias == {"api", "dashboard"}
Answers == {"accepted", "declined", "cancelled"}

VARIABLES
    invitation,       \* the row
    member,           \* the row of project_members
    call,             \* where each call stands
    round,            \* history: the invitations made so far
    reminders,        \* history: the reminders sent for this one
    agreed,           \* history: an acceptance was recorded
    crossed,          \* history: a row changed under an answer of the dashboard
    refusals          \* history: deaths and failed inserts

invitationVars == <<invitation, member, call, round, reminders, agreed, crossed, refusals>>

(* overdue is expires_at <= now, due is created_at + 72 hours <= now. *)
InvitationRow == [status : {"absent", "pending", "expired"} \cup Answers,
                  overdue : BOOLEAN, due : BOOLEAN, reminded : BOOLEAN]

Resting == [step |-> "rest", via |-> "api", answer |-> "accepted", unread |-> {}]

CallRecord == [step : {"rest", "invite", "answer", "join", "undo", "expire", "remind"},
               via : Vias, answer : Answers, unread : SUBSET {"member", "invitation"}]

(* POST /projects may have made the row. *)
InvitationsInit ==
    /\ invitation \in [status : {"absent", "pending"}, overdue : {FALSE},
                       due : {FALSE}, reminded : {FALSE}]
    /\ member = FALSE
    /\ call = [c \in Calls |-> Resting]
    /\ round = (IF invitation.status = "pending" THEN 1 ELSE 0)
    /\ reminders = 0
    /\ agreed = FALSE /\ crossed = FALSE
    /\ refusals = 0

On(c, step) == call[c].step = step
Rest(c) == call' = [call EXCEPT ![c] = Resting]
Open == invitation.status = "pending"

(* A call of the dashboard that has read the row and not yet answered. *)
Answering(c) == On(c, "answer") /\ call[c].via = "dashboard"

(* The row changes: does an answer of the dashboard not know? *)
Crossing(c) == crossed' = (crossed \/ \E d \in Calls \ {c} : Answering(d))

Refused == refusals < MaxRefusals /\ refusals' = refusals + 1

-----------------------------------------------------------------------------
(* Inviting: POST invitations and inviteProjectMember *)

StartInvite(c, via) ==
    /\ On(c, "rest") /\ round < MaxRounds
    /\ call' = [call EXCEPT ![c] = [Resting EXCEPT !.step = "invite", !.via = via,
                                                   !.unread = {"member", "invitation"}]]
    /\ UNCHANGED <<invitation, member, round, reminders, agreed, crossed, refusals>>

(* The two reads go out together and may be answered in any order. *)
CheckInvite(c, what) ==
    /\ On(c, "invite") /\ what \in call[c].unread
    /\ IF \/ what = "member" /\ member
          \/ what = "invitation" /\ Open
       THEN Rest(c)
       ELSE call' = [call EXCEPT ![c].unread = @ \ {what}]
    /\ UNCHANGED <<invitation, member, round, reminders, agreed, crossed, refusals>>

(* The upsert asks nothing of the row it replaces.  The dashboard's keeps its
   created_at, so a reminder may be due at once. *)
UpsertInvitation(c) ==
    /\ On(c, "invite") /\ call[c].unread = {}
    /\ round < MaxRounds
    /\ round' = round + 1
    /\ invitation' = [status |-> "pending", overdue |-> FALSE, reminded |-> FALSE,
                      due |-> call[c].via = "dashboard" /\ invitation.due]
    /\ reminders' = 0
    /\ Crossing(c)
    /\ Rest(c)
    /\ UNCHANGED <<member, agreed, refusals>>

-----------------------------------------------------------------------------
(* Answering: PATCH invitations/[invitationId] and respondToProjectInvitation *)

(* Only the API looks at the expiry. *)
StartAnswer(c, via, answer) ==
    /\ On(c, "rest")
    /\ Open /\ (via = "api" => ~invitation.overdue)
    /\ call' = [call EXCEPT ![c] = [Resting EXCEPT !.step = "answer", !.via = via,
                                                   !.answer = answer]]
    /\ UNCHANGED <<invitation, member, round, reminders, agreed, crossed, refusals>>

RecordAnswer(c) ==
    /\ On(c, "answer") /\ Open
    /\ invitation' = [invitation EXCEPT !.status = call[c].answer]
    /\ IF call[c].answer = "accepted"
       THEN agreed' = TRUE /\ call' = [call EXCEPT ![c].step = "join"]
       ELSE Rest(c) /\ UNCHANGED agreed
    /\ Crossing(c)
    /\ UNCHANGED <<member, round, reminders, refusals>>

(* Mutant of GoesOn: nobody looks whether the update found the row. *)
GoesOnAnyway(c) == call[c].answer = "accepted"

(* The dashboard does not look whether its update found the row. *)
GoesOn(c) == call[c].answer = "accepted" /\ call[c].via = "dashboard"

AnswerTooLate(c) ==
    /\ On(c, "answer") /\ ~Open
    /\ IF GoesOn(c) THEN call' = [call EXCEPT ![c].step = "join"] ELSE Rest(c)
    /\ UNCHANGED <<invitation, member, round, reminders, agreed, crossed, refusals>>

(* A membership that exists (23505) is as good. *)
AddMember(c) ==
    /\ On(c, "join")
    /\ member' = TRUE
    /\ Rest(c)
    /\ UNCHANGED <<invitation, round, reminders, agreed, crossed, refusals>>

AddMemberFails(c) ==
    /\ On(c, "join") /\ Refused
    /\ IF call[c].via = "api" THEN call' = [call EXCEPT ![c].step = "undo"] ELSE Rest(c)
    /\ UNCHANGED <<invitation, member, round, reminders, agreed, crossed>>

(* By id alone, whatever became of the row since. *)
UndoAnswer(c) ==
    /\ On(c, "undo")
    /\ invitation' = [invitation EXCEPT !.status = "pending"]
    /\ Crossing(c)
    /\ Rest(c)
    /\ UNCHANGED <<member, round, reminders, agreed, refusals>>

-----------------------------------------------------------------------------
(* Expiry and reminder, on read and by the sweep *)

(* reconcileProjectInvitationState and processInvitation, on the row they read. *)
Reconcile(c) ==
    /\ On(c, "rest") /\ Open
    /\ \/ invitation.overdue /\ call' = [call EXCEPT ![c].step = "expire"]
       \/ /\ ~invitation.overdue /\ invitation.due /\ ~invitation.reminded
          /\ call' = [call EXCEPT ![c].step = "remind"]
    /\ UNCHANGED <<invitation, member, round, reminders, agreed, crossed, refusals>>

(* Mutant of MayExpire: the row was pending when it was read. *)
MayExpireAny == TRUE

MayExpire == Open

(* A row that was renewed since is pending too. *)
Expire(c) ==
    /\ On(c, "expire")
    /\ IF MayExpire
       THEN invitation' = [invitation EXCEPT !.status = "expired"] /\ Crossing(c)
       ELSE UNCHANGED <<invitation, crossed>>
    /\ Rest(c)
    /\ UNCHANGED <<member, round, reminders, agreed, refusals>>

(* Mutant of MayRemind: pending is enough. *)
MayRemindAgain == Open

MayRemind == Open /\ ~invitation.reminded

Remind(c) ==
    /\ On(c, "remind")
    /\ IF MayRemind
       THEN invitation' = [invitation EXCEPT !.reminded = TRUE] /\ reminders' = reminders + 1
       ELSE UNCHANGED <<invitation, reminders>>
    /\ Rest(c)
    /\ UNCHANGED <<member, round, agreed, crossed, refusals>>

-----------------------------------------------------------------------------

(* removeProjectMember: the invitation stays as it is. *)
RemoveMember ==
    /\ member
    /\ member' = FALSE
    /\ UNCHANGED <<invitation, call, round, reminders, agreed, crossed, refusals>>

(* 72 hours, then seven days. *)
TimePasses ==
    /\ invitation.status # "absent" /\ ~invitation.overdue
    /\ invitation' = IF invitation.due THEN [invitation EXCEPT !.overdue = TRUE]
                                       ELSE [invitation EXCEPT !.due = TRUE]
    /\ UNCHANGED <<member, call, round, reminders, agreed, crossed, refusals>>

CallDies(c) ==
    /\ ~On(c, "rest")
    /\ Refused
    /\ Rest(c)
    /\ UNCHANGED <<invitation, member, round, reminders, agreed, crossed>>

InvitationsNext ==
    \/ \E c \in Calls :
          \/ \E v \in Vias : StartInvite(c, v) \/ \E a \in Answers : StartAnswer(c, v, a)
          \/ \E what \in {"member", "invitation"} : CheckInvite(c, what)
          \/ UpsertInvitation(c) \/ RecordAnswer(c) \/ AnswerTooLate(c)
          \/ AddMember(c) \/ AddMemberFails(c) \/ UndoAnswer(c)
          \/ Reconcile(c) \/ Expire(c) \/ Remind(c) \/ CallDies(c)
    \/ RemoveMember \/ TimePasses

InvitationsSpec == InvitationsInit /\ [][InvitationsNext]_invitationVars

-----------------------------------------------------------------------------
(* Properties *)

(* The types. *)
InvitationsTypeOK ==
    /\ invitation \in InvitationRow
    /\ member \in BOOLEAN /\ agreed \in BOOLEAN /\ crossed \in BOOLEAN
    /\ call \in [Calls -> CallRecord]
    /\ round \in 0 .. MaxRounds
    /\ reminders \in Nat
    /\ refusals \in 0 .. MaxRefusals

(* Nobody becomes a member whose acceptance was not recorded on the row, unless
   the row was decided or renewed under an answer of the dashboard, which joins
   whatever became of its update. *)
JoinedByAcceptance == member => agreed \/ crossed

(* "Invitation has already been resolved": an answer, an expiry or a cancellation
   stands until the agent is invited again, whoever raced for the row.  What a
   failed insert undoes is excepted. *)
AnswersStand ==
    [][refusals = 0 /\ invitation.status \notin {"absent", "pending"}
         => invitation'.status = invitation.status \/ round' = round + 1]_invitationVars

(* Reading and sweeping at the same time send one reminder per invitation. *)
OneReminder == reminders <= 1
=============================================================================
