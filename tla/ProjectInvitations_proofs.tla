----------------------- MODULE ProjectInvitations_proofs -----------------------
(***************************************************************************)
(* What the row of an invitation and the membership keep, for any number   *)
(* of requests, sweeps, invitations and failures.                          *)
(***************************************************************************)
EXTENDS ProjectInvitations, TLAPS

(* Who is about to join has accepted, or the dashboard did not look. *)
JoiningByAcceptance == \A c \in Calls : On(c, "join") => agreed \/ crossed

(* An answer of the dashboard that finds the row closed was crossed. *)
ClosedUnderAnAnswer == \A c \in Calls : Answering(c) /\ ~Open => crossed

(* An acceptance is undone only after an insert failed. *)
UndoneAfterFailure == \A c \in Calls : On(c, "undo") => refusals > 0

(* reminder_sent_at and the reminders sent go together. *)
RemindedOnce == reminders = (IF invitation.reminded THEN 1 ELSE 0)

InvitationsInv == /\ InvitationsTypeOK
                  /\ JoinedByAcceptance /\ JoiningByAcceptance /\ ClosedUnderAnAnswer
                  /\ UndoneAfterFailure /\ RemindedOnce

USE DEF On, Rest, Open, Answering, Refused

-----------------------------------------------------------------------------

Steps == {"rest", "invite", "answer", "join", "undo", "expire", "remind"}

LEMMA CallTypes ==
    ASSUME NEW c \in Calls, call \in [Calls -> CallRecord]
    PROVE  /\ Resting \in CallRecord
           /\ [call EXCEPT ![c] = Resting] \in [Calls -> CallRecord]
           /\ \A step \in Steps : [call EXCEPT ![c].step = step] \in [Calls -> CallRecord]
<1>1. Resting \in CallRecord
  BY DEF Resting, CallRecord, Vias, Answers
<1>2. ASSUME NEW step \in Steps
      PROVE  [call[c] EXCEPT !.step = step] \in CallRecord
  BY <1>2 DEF CallRecord, Steps
<1> QED
  BY <1>1, <1>2

(* A call that rests or goes on to another step keeps its type. *)
Moves(c) == Rest(c) \/ \E step \in Steps : call' = [call EXCEPT ![c].step = step]

LEMMA MovesTyped ==
    ASSUME NEW c \in Calls, call \in [Calls -> CallRecord], Moves(c)
    PROVE  call' \in [Calls -> CallRecord]
  BY CallTypes DEF Moves

LEMMA StepsMove ==
    ASSUME NEW c \in Calls,
           \/ UpsertInvitation(c) \/ RecordAnswer(c) \/ AnswerTooLate(c)
           \/ AddMember(c) \/ AddMemberFails(c) \/ UndoAnswer(c)
           \/ Reconcile(c) \/ Expire(c) \/ Remind(c) \/ CallDies(c)
    PROVE  Moves(c)
<1> DEFINE To(step) == call' = [call EXCEPT ![c].step = step]
<1>1. Rest(c) => Moves(c)
  BY DEF Moves
<1>2. /\ To("join") => Moves(c)
      /\ To("undo") => Moves(c)
      /\ To("expire") => Moves(c)
      /\ To("remind") => Moves(c)
  BY DEF Moves, Steps
<1>3. \/ Rest(c) \/ To("join") \/ To("undo") \/ To("expire") \/ To("remind")
  BY DEF UpsertInvitation, RecordAnswer, AnswerTooLate, AddMember, AddMemberFails,
         UndoAnswer, Reconcile, Expire, Remind, CallDies
<1> QED
  BY ONLY <1>1, <1>2, <1>3

LEMMA RowTypes ==
    ASSUME invitation \in InvitationRow
    PROVE  /\ \A s \in Answers \cup {"pending", "expired"} :
                 [invitation EXCEPT !.status = s] \in InvitationRow
           /\ [invitation EXCEPT !.reminded = TRUE] \in InvitationRow
           /\ [invitation EXCEPT !.overdue = TRUE] \in InvitationRow
           /\ [invitation EXCEPT !.due = TRUE] \in InvitationRow
  BY DEF InvitationRow

LEMMA InvitationsInitInv == InvitationsInit => InvitationsInv
<1> SUFFICES ASSUME InvitationsInit PROVE InvitationsInv
  OBVIOUS
<1>1. InvitationsTypeOK
  <2>1. Resting \in CallRecord
    BY DEF Resting, CallRecord, Vias, Answers
  <2>2. invitation \in InvitationRow
    BY DEF InvitationsInit, InvitationRow
  <2>3. call \in [Calls -> CallRecord]
    BY <2>1 DEF InvitationsInit
  <2>4. round \in 0 .. MaxRounds
    BY <2>2, InvitationsAssumption DEF InvitationsInit
  <2>5. member \in BOOLEAN /\ agreed \in BOOLEAN /\ crossed \in BOOLEAN
    BY Zenon DEF InvitationsInit
  <2>6. reminders \in Nat /\ refusals \in 0 .. MaxRefusals
    BY InvitationsAssumption DEF InvitationsInit
  <2> QED
    BY <2>2, <2>3, <2>4, <2>5, <2>6 DEF InvitationsTypeOK
<1>2. /\ JoinedByAcceptance /\ JoiningByAcceptance /\ ClosedUnderAnAnswer
      /\ UndoneAfterFailure /\ RemindedOnce
  BY DEF InvitationsInit, JoinedByAcceptance, JoiningByAcceptance, ClosedUnderAnAnswer,
     UndoneAfterFailure, RemindedOnce, Resting
<1> QED
  BY <1>1, <1>2 DEF InvitationsInv

LEMMA InvitationsTypeStep ==
    InvitationsTypeOK /\ [InvitationsNext]_invitationVars => InvitationsTypeOK'
<1> SUFFICES ASSUME InvitationsTypeOK, [InvitationsNext]_invitationVars
             PROVE  InvitationsTypeOK'
  OBVIOUS
<1>0. /\ invitation \in InvitationRow
      /\ call \in [Calls -> CallRecord]
  BY DEF InvitationsTypeOK, InvitationRow, Answers
<1> USE DEF InvitationsTypeOK
<1>1. ASSUME NEW c \in Calls, NEW v \in Vias, StartInvite(c, v) PROVE InvitationsTypeOK'
  <2>1. [Resting EXCEPT !.step = "invite", !.via = v, !.unread = {"member", "invitation"}]
           \in CallRecord
    BY DEF Resting, CallRecord, Answers
  <2> QED
    BY <1>0, <1>1, <2>1 DEF StartInvite
<1>2. ASSUME NEW c \in Calls, NEW v \in Vias, NEW a \in Answers, StartAnswer(c, v, a)
      PROVE  InvitationsTypeOK'
  <2>1. [Resting EXCEPT !.step = "answer", !.via = v, !.answer = a] \in CallRecord
    BY DEF Resting, CallRecord
  <2> QED
    BY <1>0, <1>2, <2>1 DEF StartAnswer
<1>3. ASSUME NEW c \in Calls, NEW what \in {"member", "invitation"}, CheckInvite(c, what)
      PROVE  InvitationsTypeOK'
  <2>1. [call[c] EXCEPT !.unread = @ \ {what}] \in CallRecord
    BY <1>0 DEF CallRecord
  <2> QED
    BY <1>0, <1>3, <2>1, CallTypes DEF CheckInvite
<1>4. ASSUME NEW c \in Calls, UpsertInvitation(c) PROVE InvitationsTypeOK'
  <2>1. invitation' \in InvitationRow
    <3>1. invitation' = [status |-> "pending", overdue |-> FALSE, reminded |-> FALSE,
                         due |-> call[c].via = "dashboard" /\ invitation.due]
      BY <1>4 DEF UpsertInvitation
    <3>2. (call[c].via = "dashboard" /\ invitation.due) \in BOOLEAN
      OBVIOUS
    <3> QED
      BY ONLY <3>1, <3>2 DEF InvitationRow
  <2>2. call' \in [Calls -> CallRecord]
    BY <1>0, <1>4, StepsMove, MovesTyped
  <2>3. round' \in 0 .. MaxRounds
    BY <1>4, InvitationsAssumption DEF UpsertInvitation
  <2>4. crossed' \in BOOLEAN
    BY <1>4 DEF UpsertInvitation, Crossing
  <2>5. reminders' \in Nat /\ UNCHANGED <<member, agreed, refusals>>
    BY <1>4 DEF UpsertInvitation
  <2> QED
    BY <2>1, <2>2, <2>3, <2>4, <2>5
<1>5. ASSUME NEW c \in Calls, RecordAnswer(c) PROVE InvitationsTypeOK'
  <2>1. call[c].answer \in Answers
    BY <1>0 DEF CallRecord
  <2>2. invitation' \in InvitationRow
    <3>1. invitation' = [invitation EXCEPT !.status = call[c].answer]
      BY <1>5 DEF RecordAnswer
    <3>2. [invitation EXCEPT !.status = call[c].answer] \in InvitationRow
      BY ONLY <1>0, <2>1 DEF InvitationRow
    <3> QED
      BY <3>1, <3>2
  <2>3. call' \in [Calls -> CallRecord]
    BY <1>0, <1>5, StepsMove, MovesTyped
  <2>4. agreed' \in BOOLEAN /\ crossed' \in BOOLEAN
    BY <1>5 DEF RecordAnswer, Crossing
  <2>5. UNCHANGED <<member, round, reminders, refusals>>
    BY <1>5 DEF RecordAnswer
  <2> QED
    BY <2>2, <2>3, <2>4, <2>5
<1>6. ASSUME NEW c \in Calls, AnswerTooLate(c) \/ AddMember(c) PROVE InvitationsTypeOK'
  <2>1. call' \in [Calls -> CallRecord]
    BY <1>0, <1>6, StepsMove, MovesTyped
  <2> QED
    BY <1>6, <2>1 DEF AnswerTooLate, AddMember
<1>7. ASSUME NEW c \in Calls, AddMemberFails(c) \/ CallDies(c) PROVE InvitationsTypeOK'
  <2>1. call' \in [Calls -> CallRecord]
    BY <1>0, <1>7, StepsMove, MovesTyped
  <2> QED
    BY <1>7, <2>1, InvitationsAssumption DEF AddMemberFails, CallDies
<1>8. ASSUME NEW c \in Calls, UndoAnswer(c) PROVE InvitationsTypeOK'
  <2>1. invitation' \in InvitationRow
    <3>1. invitation' = [invitation EXCEPT !.status = "pending"]
      BY <1>8 DEF UndoAnswer
    <3>2. [invitation EXCEPT !.status = "pending"] \in InvitationRow
      BY ONLY <1>0 DEF InvitationRow
    <3> QED
      BY <3>1, <3>2
  <2>2. call' \in [Calls -> CallRecord]
    BY <1>0, <1>8, StepsMove, MovesTyped
  <2>3. crossed' \in BOOLEAN
    BY <1>8 DEF UndoAnswer, Crossing
  <2> QED
    BY <1>8, <2>1, <2>2, <2>3 DEF UndoAnswer
<1>9. ASSUME NEW c \in Calls, Reconcile(c) PROVE InvitationsTypeOK'
  <2>1. call' \in [Calls -> CallRecord]
    BY <1>0, <1>9, StepsMove, MovesTyped
  <2> QED
    BY <1>9, <2>1 DEF Reconcile
<1>10. ASSUME NEW c \in Calls, Expire(c) \/ Remind(c) PROVE InvitationsTypeOK'
  <2>1. invitation' \in InvitationRow
    BY <1>0, <1>10, RowTypes DEF Expire, MayExpire, Remind, MayRemind, InvitationRow
  <2>2. call' \in [Calls -> CallRecord]
    BY <1>0, <1>10, StepsMove, MovesTyped
  <2>3. reminders' \in Nat
    BY <1>10 DEF Expire, Remind
  <2>4. crossed' \in BOOLEAN
    BY <1>10 DEF Expire, Remind, Crossing
  <2> QED
    BY <1>10, <2>1, <2>2, <2>3, <2>4 DEF Expire, Remind
<1>11. ASSUME RemoveMember \/ TimePasses PROVE InvitationsTypeOK'
  <2>1. invitation' \in InvitationRow
    BY <1>0, <1>11, RowTypes DEF RemoveMember, TimePasses, InvitationRow
  <2> QED
    BY <1>11, <2>1 DEF RemoveMember, TimePasses
<1>12. CASE UNCHANGED invitationVars
  BY <1>12 DEF invitationVars
<1> QED
  BY <1>1, <1>2, <1>3, <1>4, <1>5, <1>6, <1>7, <1>8, <1>9, <1>10, <1>11, <1>12
  DEF InvitationsNext

LEMMA InvitationsInvStep ==
    InvitationsInv /\ [InvitationsNext]_invitationVars => InvitationsInv'
<1> SUFFICES ASSUME InvitationsInv, [InvitationsNext]_invitationVars
             PROVE  InvitationsInv'
  OBVIOUS
<1> DEFINE Kept == /\ JoinedByAcceptance' /\ JoiningByAcceptance' /\ ClosedUnderAnAnswer'
                   /\ UndoneAfterFailure' /\ RemindedOnce'
<1>0. InvitationsTypeOK /\ InvitationsTypeOK'
  BY InvitationsTypeStep DEF InvitationsInv
<1>a. /\ invitation \in InvitationRow /\ call \in [Calls -> CallRecord]
      /\ refusals \in Nat /\ reminders \in Nat
      /\ member \in BOOLEAN /\ agreed \in BOOLEAN /\ crossed \in BOOLEAN
      /\ member' \in BOOLEAN /\ agreed' \in BOOLEAN /\ crossed' \in BOOLEAN
  BY <1>0, InvitationsAssumption DEF InvitationsTypeOK
<1>b. SUFFICES Kept
  BY <1>0 DEF InvitationsInv
<1> USE DEF JoinedByAcceptance, JoiningByAcceptance, ClosedUnderAnAnswer,
            UndoneAfterFailure, RemindedOnce, Resting, InvitationsInv
<1>1. ASSUME NEW c \in Calls, NEW v \in Vias, StartInvite(c, v) PROVE Kept
  BY <1>1, <1>a DEF StartInvite
<1>2. ASSUME NEW c \in Calls, NEW v \in Vias, NEW a \in Answers, StartAnswer(c, v, a)
      PROVE  Kept
  BY <1>2, <1>a DEF StartAnswer
<1>3. ASSUME NEW c \in Calls, NEW what \in {"member", "invitation"}, CheckInvite(c, what)
      PROVE  Kept
  BY <1>3, <1>a DEF CheckInvite, CallRecord
<1>4. ASSUME NEW c \in Calls, UpsertInvitation(c) PROVE Kept
  BY <1>4, <1>a DEF UpsertInvitation, Crossing
<1>5. ASSUME NEW c \in Calls, RecordAnswer(c) PROVE Kept
  <2> USE <1>5, <1>a DEF RecordAnswer
  <2>1. /\ invitation'.status = call[c].answer
        /\ invitation'.reminded = invitation.reminded
        /\ UNCHANGED <<member, reminders, refusals>>
    BY DEF InvitationRow
  <2>2. \A d \in Calls \ {c} : call'[d] = call[d]
    OBVIOUS
  <2>3. \/ call'[c].step = "join" /\ agreed'
        \/ call'[c].step = "rest" /\ agreed' = agreed
    <3>1. CASE call[c].answer = "accepted"
      <4>1. call' = [call EXCEPT ![c].step = "join"] /\ agreed' = TRUE
        BY <3>1
      <4>2. call'[c].step = "join"
        BY <4>1 DEF CallRecord
      <4> QED
        BY <4>1, <4>2
    <3>2. CASE call[c].answer # "accepted"
      BY <3>2
    <3> QED
      BY <3>1, <3>2
  <2>4. (\E d \in Calls \ {c} : Answering(d)) => crossed'
    BY DEF Crossing
  <2>5. (agreed => agreed') /\ (crossed => crossed')
    BY <2>3 DEF Crossing
  <2>6. JoinedByAcceptance' /\ JoiningByAcceptance'
    BY <2>1, <2>2, <2>3, <2>5
  <2>7. ClosedUnderAnAnswer'
    BY <2>2, <2>3, <2>4
  <2>8. UndoneAfterFailure' /\ RemindedOnce'
    BY <2>1, <2>2, <2>3
  <2> QED
    BY <2>6, <2>7, <2>8
<1>6. ASSUME NEW c \in Calls, AnswerTooLate(c) PROVE Kept
  <2>1. UNCHANGED <<invitation, member, reminders, agreed, crossed, refusals>>
    BY <1>6 DEF AnswerTooLate
  <2>2. \A d \in Calls \ {c} : call'[d] = call[d]
    BY <1>6, <1>a DEF AnswerTooLate
  <2>3. \/ call'[c].step = "rest"
        \/ call'[c].step = "join" /\ crossed
    <3>1. CASE GoesOn(c)
      <4>1. call' = [call EXCEPT ![c].step = "join"]
        BY <1>6, <3>1 DEF AnswerTooLate
      <4>2. call'[c].step = "join"
        BY <1>a, <4>1 DEF CallRecord
      <4>3. crossed
        BY <1>6, <3>1 DEF AnswerTooLate, GoesOn
      <4> QED
        BY <4>2, <4>3
    <3>2. CASE ~GoesOn(c)
      BY <1>6, <1>a, <3>2 DEF AnswerTooLate
    <3> QED
      BY <3>1, <3>2
  <2>4. JoinedByAcceptance' /\ JoiningByAcceptance'
    BY <2>1, <2>2, <2>3
  <2>5. ClosedUnderAnAnswer'
    BY <2>1, <2>2, <2>3
  <2>6. UndoneAfterFailure' /\ RemindedOnce'
    BY <2>1, <2>2, <2>3
  <2> QED
    BY <2>4, <2>5, <2>6
<1>7. ASSUME NEW c \in Calls, AddMember(c) PROVE Kept
  BY <1>7, <1>a DEF AddMember
<1>8. ASSUME NEW c \in Calls, AddMemberFails(c) PROVE Kept
  <2>1. /\ UNCHANGED <<invitation, member, reminders, agreed, crossed>>
        /\ refusals' = refusals + 1
    BY <1>8 DEF AddMemberFails
  <2>2. \A d \in Calls \ {c} : call'[d] = call[d]
    BY <1>8, <1>a DEF AddMemberFails
  <2>3. call'[c].step \in {"undo", "rest"}
    BY <1>8, <1>a DEF AddMemberFails, CallRecord
  <2>4. JoinedByAcceptance' /\ JoiningByAcceptance' /\ ClosedUnderAnAnswer'
    BY <2>1, <2>2, <2>3
  <2>5. refusals' > 0
    BY <2>1, <1>a
  <2>6. UndoneAfterFailure' /\ RemindedOnce'
    BY <2>1, <2>5
  <2> QED
    BY <2>4, <2>6
<1>9. ASSUME NEW c \in Calls, UndoAnswer(c) PROVE Kept
  BY <1>9, <1>a DEF UndoAnswer, Crossing, InvitationRow
<1>10. ASSUME NEW c \in Calls, Reconcile(c) PROVE Kept
  BY <1>10, <1>a DEF Reconcile, CallRecord
<1>11. ASSUME NEW c \in Calls, Expire(c) PROVE Kept
  BY <1>11, <1>a DEF Expire, MayExpire, Crossing, InvitationRow
<1>12. ASSUME NEW c \in Calls, Remind(c) PROVE Kept
  BY <1>12, <1>a DEF Remind, MayRemind, InvitationRow
<1>13. CASE RemoveMember
  BY <1>13, <1>a DEF RemoveMember
<1>14. CASE TimePasses
  BY <1>14, <1>a DEF TimePasses, InvitationRow
<1>15. ASSUME NEW c \in Calls, CallDies(c) PROVE Kept
  BY <1>15, <1>a DEF CallDies
<1>16. CASE UNCHANGED invitationVars
  BY <1>16 DEF invitationVars
<1> QED
  BY <1>1, <1>2, <1>3, <1>4, <1>5, <1>6, <1>7, <1>8, <1>9, <1>10, <1>11, <1>12,
     <1>13, <1>14, <1>15, <1>16 DEF InvitationsNext

-----------------------------------------------------------------------------
(* The theorems *)

(* The conjuncts of the invariant hold together in every reachable state. *)
THEOREM InvitationsInvariant == InvitationsSpec => []InvitationsInv
<1> QED
  BY InvitationsInitInv, InvitationsInvStep, PTL DEF InvitationsSpec

(* What the requests and the sweep write is of the declared types. *)
THEOREM InvitationsTypes == InvitationsSpec => []InvitationsTypeOK
<1>1. InvitationsInv => InvitationsTypeOK
  BY DEF InvitationsInv
<1> QED
  BY <1>1, InvitationsInvariant, PTL

(* A member joined because an acceptance was recorded, or the row was decided
   under an answer of the dashboard. *)
THEOREM MembersAccepted == InvitationsSpec => []JoinedByAcceptance
<1>1. InvitationsInv => JoinedByAcceptance
  BY DEF InvitationsInv
<1> QED
  BY <1>1, InvitationsInvariant, PTL

(* However many readers and sweeps find it due, a reminder is sent once. *)
THEOREM RemindersOnce == InvitationsSpec => []OneReminder
<1>1. InvitationsInv => OneReminder
  BY DEF InvitationsInv, OneReminder, RemindedOnce
<1> QED
  BY <1>1, InvitationsInvariant, PTL

(* Without failures a resolved invitation stays so until the next one. *)
THEOREM ResolvedStands == InvitationsSpec => AnswersStand
<1> DEFINE Stands == refusals = 0 /\ invitation.status \notin {"absent", "pending"}
                     => invitation'.status = invitation.status \/ round' = round + 1
<1>1. InvitationsInv /\ [InvitationsNext]_invitationVars => [Stands]_invitationVars
  <2> SUFFICES ASSUME InvitationsInv, InvitationsNext, refusals = 0,
                      invitation.status \notin {"absent", "pending"}
               PROVE  invitation'.status = invitation.status \/ round' = round + 1
    OBVIOUS
  <2>1. /\ invitation \in InvitationRow
        /\ \A c \in Calls : ~On(c, "undo")
    BY DEF InvitationsInv, InvitationsTypeOK, UndoneAfterFailure
  <2> QED
    BY <2>1 DEF InvitationsNext, StartInvite, StartAnswer, CheckInvite, UpsertInvitation,
       RecordAnswer, AnswerTooLate, AddMember, AddMemberFails, UndoAnswer, Reconcile,
       Expire, MayExpire, Remind, MayRemind, CallDies, RemoveMember, TimePasses,
       InvitationRow
<1> QED
  BY <1>1, InvitationsInvariant, PTL DEF InvitationsSpec, AnswersStand
=============================================================================
