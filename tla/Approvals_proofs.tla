------------------------- MODULE Approvals_proofs -------------------------
(***************************************************************************)
(* What approvals and keys keep, for any number of requests, reviewers,    *)
(* handlers, keys and failures.                                            *)
(***************************************************************************)
EXTENDS Approvals, TLAPS

(* A review has a reviewer, and who is at an approval has one. *)
Holding ==
    \A h \in Handlers :
       /\ handler[h].pc \in {"approve", "deny", "claim", "consume", "keys", "expire", "spend"}
             => handler[h].approval \in Approvals
       /\ handler[h].pc \in {"approve", "deny"} => handler[h].by \in Reviewers

(* Where a handler stands. *)
PCs == {"idle", "approve", "deny", "claim", "consume", "keys", "expire",
        "retire", "replace", "undo", "arm", "find", "spend", "freeze"}

LEMMA JobTypes ==
    ASSUME NEW h \in Handlers, handler \in [Handlers -> Job]
    PROVE  /\ Waiting \in Job
           /\ [handler EXCEPT ![h] = Waiting] \in [Handlers -> Job]
           /\ \A pc \in PCs : [handler EXCEPT ![h].pc = pc] \in [Handlers -> Job]
<1>1. Waiting \in Job
  BY DEF Waiting, Job
<1>2. ASSUME NEW pc \in PCs PROVE [handler[h] EXCEPT !.pc = pc] \in Job
  BY <1>2 DEF Job, PCs
<1> QED
  BY <1>1, <1>2

LEMMA RowTypes ==
    ASSUME NEW a \in Approvals, approval \in [Approvals -> ApprovalRow]
    PROVE  /\ [approval EXCEPT ![a].status = "consumed"] \in [Approvals -> ApprovalRow]
           /\ \A r \in Reviewers, s \in {"approved", "denied"} :
                 [approval EXCEPT ![a].status = s, ![a].reviewed_by = r]
                     \in [Approvals -> ApprovalRow]
<1>1. [approval[a] EXCEPT !.status = "consumed"] \in ApprovalRow
  BY DEF ApprovalRow
<1>2. ASSUME NEW r \in Reviewers, NEW s \in {"approved", "denied"}
      PROVE  [approval[a] EXCEPT !.status = s, !.reviewed_by = r] \in ApprovalRow
  BY <1>2 DEF ApprovalRow
<1> QED
  BY <1>1, <1>2

-----------------------------------------------------------------------------
(* Who writes what *)

(* What a handler does: it reviews, it claims an approval, it rotates keys or it
   switches. *)
Reviews(h) ==
    \/ \E r \in Reviewers, a \in Approvals, v \in {"approve", "deny"} : Review(h, r, a, v)
    \/ Approve(h) \/ Deny(h) \/ AlreadyDecided(h)

Claims(h) ==
    \/ \E a \in Approvals : ClaimRotation(h, a) \/ FindApproval(h, a)
    \/ ClaimInline(h) \/ ConsumeForRotation(h) \/ AlreadyConsumed(h)

Rotates(h) ==
    \/ ReadKeys(h) \/ InsertRotated(h)
    \/ \E k \in Keys : ExpireKey(h, k) \/ RotateOwnKey(h, k)
    \/ RetireKey(h) \/ ReplaceKey(h) \/ UndoRetire(h)

Switches(h) == SetKillSwitch(h) \/ FindAgain(h) \/ ConsumeForSwitch(h) \/ FreezeContracts(h)

(* What happens beside the handlers. *)
Beside ==
    \/ \E u \in Users, a \in Approvals, action \in Actions : RequestApproval(u, a, action)
    \/ \E k \in Keys : GraceEnds(k)
    \/ DeactivateAgent \/ DeactivateKillSwitch

(* There is nothing else. *)
LEMMA KindsOfSteps ==
    ApprovalsNext =>
       \/ \E h \in Handlers : Reviews(h) \/ Claims(h) \/ Rotates(h) \/ Switches(h) \/ Die(h)
       \/ Beside
  BY DEF ApprovalsNext, Reviews, Claims, Rotates, Switches, Beside

(* Who writes the rows of the approvals. *)
LEMMA RowWriters == ApprovalsNext =>
       \/ \E u \in Users, a \in Approvals, action \in Actions : RequestApproval(u, a, action)
       \/ \E h \in Handlers : \/ Approve(h) \/ Deny(h)
                             \/ ConsumeForRotation(h) \/ ConsumeForSwitch(h)
       \/ UNCHANGED rowVars
<1> DEFINE Says ==
       \/ \E u \in Users, a \in Approvals, action \in Actions : RequestApproval(u, a, action)
       \/ \E h \in Handlers : \/ Approve(h) \/ Deny(h)
                             \/ ConsumeForRotation(h) \/ ConsumeForSwitch(h)
       \/ UNCHANGED rowVars
<1>1. SUFFICES ASSUME ApprovalsNext PROVE Says
  OBVIOUS
<1>2. ASSUME NEW h \in Handlers, Reviews(h) PROVE Says
  BY <1>2 DEF Reviews, Review, Approve, Deny, AlreadyDecided, rowVars
<1>3. ASSUME NEW h \in Handlers, Claims(h) PROVE Says
  BY <1>3 DEF Claims, ClaimRotation, FindApproval, ClaimInline, ConsumeForRotation,
     AlreadyConsumed, rowVars
<1>4. ASSUME NEW h \in Handlers, Rotates(h) PROVE Says
  BY <1>4 DEF Rotates, ReadKeys, InsertRotated, ExpireKey, RotateOwnKey, RetireKey,
     ReplaceKey, UndoRetire, rowVars
<1>5. ASSUME NEW h \in Handlers, Switches(h) PROVE Says
  BY <1>5 DEF Switches, SetKillSwitch, FindAgain, ConsumeForSwitch, FreezeContracts,
     rowVars
<1>6. ASSUME NEW h \in Handlers, Die(h) PROVE Says
  BY <1>6 DEF Die, rowVars
<1>7. CASE Beside
  BY <1>7 DEF Beside, RequestApproval, GraceEnds, DeactivateAgent,
     DeactivateKillSwitch, rowVars
<1> HIDE DEF Says
<1> QED
  BY <1>1, <1>2, <1>3, <1>4, <1>5, <1>6, <1>7, KindsOfSteps

(* Who writes the keys. *)
LEMMA KeyWriters == ApprovalsNext =>
       \/ \E h \in Handlers :
             \/ InsertRotated(h) \/ RetireKey(h) \/ ReplaceKey(h) \/ UndoRetire(h)
             \/ \E k \in Keys : ExpireKey(h, k)
       \/ \E k \in Keys : GraceEnds(k)
       \/ DeactivateAgent
       \/ UNCHANGED keyVars
<1> DEFINE Says ==
       \/ \E h \in Handlers :
             \/ InsertRotated(h) \/ RetireKey(h) \/ ReplaceKey(h) \/ UndoRetire(h)
             \/ \E k \in Keys : ExpireKey(h, k)
       \/ \E k \in Keys : GraceEnds(k)
       \/ DeactivateAgent
       \/ UNCHANGED keyVars
<1>1. SUFFICES ASSUME ApprovalsNext PROVE Says
  OBVIOUS
<1>2. ASSUME NEW h \in Handlers, Reviews(h) PROVE Says
  BY <1>2 DEF Reviews, Review, Approve, Deny, AlreadyDecided, keyVars
<1>3. ASSUME NEW h \in Handlers, Claims(h) PROVE Says
  BY <1>3 DEF Claims, ClaimRotation, FindApproval, ClaimInline, ConsumeForRotation,
     AlreadyConsumed, keyVars
<1>4. ASSUME NEW h \in Handlers, Rotates(h) PROVE Says
  BY <1>4 DEF Rotates, ReadKeys, InsertRotated, ExpireKey, RotateOwnKey, RetireKey,
     ReplaceKey, UndoRetire, keyVars
<1>5. ASSUME NEW h \in Handlers, Switches(h) PROVE Says
  BY <1>5 DEF Switches, SetKillSwitch, FindAgain, ConsumeForSwitch, FreezeContracts,
     keyVars
<1>6. ASSUME NEW h \in Handlers, Die(h) PROVE Says
  BY <1>6 DEF Die, keyVars
<1>7. CASE Beside
  BY <1>7 DEF Beside, RequestApproval, GraceEnds, DeactivateAgent,
     DeactivateKillSwitch, keyVars
<1> HIDE DEF Says
<1> QED
  BY <1>1, <1>2, <1>3, <1>4, <1>5, <1>6, <1>7, KindsOfSteps

(* Who writes the switch. *)
LEMMA SwitchWriters == ApprovalsNext =>
       \/ \E h \in Handlers : SetKillSwitch(h) \/ FreezeContracts(h)
       \/ DeactivateKillSwitch
       \/ UNCHANGED switchVars
<1> DEFINE Says ==
       \/ \E h \in Handlers : SetKillSwitch(h) \/ FreezeContracts(h)
       \/ DeactivateKillSwitch
       \/ UNCHANGED switchVars
<1>1. SUFFICES ASSUME ApprovalsNext PROVE Says
  OBVIOUS
<1>2. ASSUME NEW h \in Handlers, Reviews(h) PROVE Says
  BY <1>2 DEF Reviews, Review, Approve, Deny, AlreadyDecided, switchVars
<1>3. ASSUME NEW h \in Handlers, Claims(h) PROVE Says
  BY <1>3 DEF Claims, ClaimRotation, FindApproval, ClaimInline, ConsumeForRotation,
     AlreadyConsumed, switchVars
<1>4. ASSUME NEW h \in Handlers, Rotates(h) PROVE Says
  BY <1>4 DEF Rotates, ReadKeys, InsertRotated, ExpireKey, RotateOwnKey, RetireKey,
     ReplaceKey, UndoRetire, switchVars
<1>5. ASSUME NEW h \in Handlers, Switches(h) PROVE Says
  BY <1>5 DEF Switches, SetKillSwitch, FindAgain, ConsumeForSwitch, FreezeContracts,
     switchVars
<1>6. ASSUME NEW h \in Handlers, Die(h) PROVE Says
  BY <1>6 DEF Die, switchVars
<1>7. CASE Beside
  BY <1>7 DEF Beside, RequestApproval, GraceEnds, DeactivateAgent,
     DeactivateKillSwitch, switchVars
<1> HIDE DEF Says
<1> QED
  BY <1>1, <1>2, <1>3, <1>4, <1>5, <1>6, <1>7, KindsOfSteps

(* Executions that overlap are only ever added. *)
LEMMA OverlapWriters == ApprovalsNext =>
       \/ UNCHANGED overlapped
       \/ \E h \in Handlers :
             overlapped' = (overlapped \/ \E g \in Handlers \ {h} : ~Reviewing(g))
<1> DEFINE Says ==
       \/ UNCHANGED overlapped
       \/ \E h \in Handlers :
             overlapped' = (overlapped \/ \E g \in Handlers \ {h} : ~Reviewing(g))
<1>1. SUFFICES ASSUME ApprovalsNext PROVE Says
  OBVIOUS
<1>2. ASSUME NEW h \in Handlers, Reviews(h) PROVE Says
  BY <1>2 DEF Reviews, Review, Approve, Deny, AlreadyDecided, Execute
<1>3. ASSUME NEW h \in Handlers, Claims(h) PROVE Says
  BY <1>3 DEF Claims, ClaimRotation, FindApproval, ClaimInline, ConsumeForRotation,
     AlreadyConsumed, Execute
<1>4. ASSUME NEW h \in Handlers, Rotates(h) PROVE Says
  BY <1>4 DEF Rotates, ReadKeys, InsertRotated, ExpireKey, RotateOwnKey, RetireKey,
     ReplaceKey, UndoRetire, Execute
<1>5. ASSUME NEW h \in Handlers, Switches(h) PROVE Says
  BY <1>5 DEF Switches, SetKillSwitch, FindAgain, ConsumeForSwitch, FreezeContracts,
     Execute
<1>6. ASSUME NEW h \in Handlers, Die(h) PROVE Says
  BY <1>6 DEF Die, Execute
<1>7. CASE Beside
  BY <1>7 DEF Beside, RequestApproval, GraceEnds, DeactivateAgent,
     DeactivateKillSwitch, Execute
<1> HIDE DEF Says
<1> QED
  BY <1>1, <1>2, <1>3, <1>4, <1>5, <1>6, <1>7, KindsOfSteps

(* So are the rotations cut short, and the faults. *)
LEMMA MishapWriters == ApprovalsNext =>
       /\ \/ UNCHANGED cutShort
          \/ cutShort' = TRUE
          \/ \E h \in Handlers :
                cutShort' = (cutShort \/ handler[h].pc \in {"expire", "replace", "undo"})
       /\ UNCHANGED faults \/ Fault
<1> DEFINE Says ==
       /\ \/ UNCHANGED cutShort
          \/ cutShort' = TRUE
          \/ \E h \in Handlers :
                cutShort' = (cutShort \/ handler[h].pc \in {"expire", "replace", "undo"})
       /\ UNCHANGED faults \/ Fault
<1>1. SUFFICES ASSUME ApprovalsNext PROVE Says
  OBVIOUS
<1>2. ASSUME NEW h \in Handlers, Reviews(h) PROVE Says
  BY <1>2 DEF Reviews, Review, Approve, Deny, AlreadyDecided, mishaps
<1>3. ASSUME NEW h \in Handlers, Claims(h) PROVE Says
  BY <1>3 DEF Claims, ClaimRotation, FindApproval, ClaimInline, ConsumeForRotation,
     AlreadyConsumed, mishaps
<1>4. ASSUME NEW h \in Handlers, Rotates(h) PROVE Says
  BY <1>4 DEF Rotates, ReadKeys, InsertRotated, ExpireKey, RotateOwnKey, RetireKey,
     ReplaceKey, UndoRetire, mishaps
<1>5. ASSUME NEW h \in Handlers, Switches(h) PROVE Says
  BY <1>5 DEF Switches, SetKillSwitch, FindAgain, ConsumeForSwitch, FreezeContracts,
     mishaps
<1>6. ASSUME NEW h \in Handlers, Die(h) PROVE Says
  BY <1>6 DEF Die, mishaps
<1>7. CASE Beside
  BY <1>7 DEF Beside, RequestApproval, GraceEnds, DeactivateAgent,
     DeactivateKillSwitch, mishaps
<1> HIDE DEF Says
<1> QED
  BY <1>1, <1>2, <1>3, <1>4, <1>5, <1>6, <1>7, KindsOfSteps

(* A step of one handler. *)
HandlerActs(h) ==
    \/ \E r \in Reviewers, a \in Approvals, v \in {"approve", "deny"} : Review(h, r, a, v)
    \/ Approve(h) \/ Deny(h) \/ AlreadyDecided(h)
    \/ \E a \in Approvals : ClaimRotation(h, a) \/ FindApproval(h, a)
    \/ ClaimInline(h) \/ ConsumeForRotation(h) \/ AlreadyConsumed(h)
    \/ ReadKeys(h) \/ InsertRotated(h)
    \/ \E k \in Keys : ExpireKey(h, k) \/ RotateOwnKey(h, k)
    \/ RetireKey(h) \/ ReplaceKey(h) \/ UndoRetire(h)
    \/ SetKillSwitch(h) \/ FindAgain(h) \/ ConsumeForSwitch(h) \/ FreezeContracts(h)
    \/ Die(h)

LEMMA OneHandlerActs ==
    ApprovalsNext => \/ \E h \in Handlers : HandlerActs(h)
                     \/ handler' = handler
  BY DEF ApprovalsNext, HandlerActs, RequestApproval, GraceEnds, DeactivateAgent,
     DeactivateKillSwitch

LEMMA OthersStay ==
    ASSUME ApprovalsTypeOK, NEW h \in Handlers, HandlerActs(h)
    PROVE  \A g \in Handlers \ {h} : handler'[g] = handler[g]
<1>1. handler \in [Handlers -> Job]
  BY DEF ApprovalsTypeOK
<1> QED
  BY <1>1 DEF HandlerActs, Finish, Goto, Execute, Review, Approve, Deny,
     AlreadyDecided, ClaimRotation, FindApproval, ClaimInline,
     ConsumeForRotation, AlreadyConsumed, ReadKeys, InsertRotated, ExpireKey,
     RotateOwnKey, RetireKey, ReplaceKey, UndoRetire, SetKillSwitch, FindAgain,
     ConsumeForSwitch, FreezeContracts, Die

-----------------------------------------------------------------------------
(* Types *)

LEMMA RowTypesStep ==
    ASSUME ApprovalsTypeOK, Holding, ApprovalsNext
    PROVE  approval' \in [Approvals -> ApprovalRow] /\ reviewed' \in Seq(Approvals)
<1>0. approval \in [Approvals -> ApprovalRow] /\ reviewed \in Seq(Approvals)
  BY DEF ApprovalsTypeOK
<1> DEFINE Typed == approval' \in [Approvals -> ApprovalRow] /\ reviewed' \in Seq(Approvals)
<1>1. ASSUME NEW u \in Users, NEW a \in Approvals, NEW action \in Actions,
             RequestApproval(u, a, action)
      PROVE  Typed
  <2> DEFINE filed == [status |-> "pending", action |-> action, actor |-> u, reviewed_by |-> Nothing]
  <2>1. filed \in ApprovalRow
    BY DEF ApprovalRow
  <2>2. approval' = [approval EXCEPT ![a] = filed] /\ reviewed' = reviewed
    BY <1>1 DEF RequestApproval
  <2> HIDE DEF filed
  <2> QED
    BY <1>0, <2>1, <2>2
<1>2. ASSUME NEW h \in Handlers, Approve(h) PROVE Typed
  <2>1. handler[h].approval \in Approvals /\ handler[h].by \in Reviewers
    BY <1>2 DEF Approve, At, Holding
  <2>2. approval' \in [Approvals -> ApprovalRow]
    BY <1>0, <1>2, <2>1, RowTypes DEF Approve
  <2>3. reviewed' \in Seq(Approvals)
    BY <1>0, <1>2, <2>1 DEF Approve
  <2> QED
    BY <2>2, <2>3
<1>3. ASSUME NEW h \in Handlers, Deny(h) PROVE Typed
  <2>1. handler[h].approval \in Approvals /\ handler[h].by \in Reviewers
    BY <1>3 DEF Deny, At, Holding
  <2>2. approval' \in [Approvals -> ApprovalRow]
    BY <1>0, <1>3, <2>1, RowTypes DEF Deny
  <2>3. reviewed' = reviewed
    BY <1>3 DEF Deny
  <2> QED
    BY <1>0, <2>2, <2>3
<1>4. ASSUME NEW h \in Handlers, ConsumeForRotation(h) \/ ConsumeForSwitch(h) PROVE Typed
  <2>1. handler[h].approval \in Approvals
    BY <1>4 DEF ConsumeForRotation, ConsumeForSwitch, At, Holding
  <2>2. /\ approval' = [approval EXCEPT ![handler[h].approval].status = "consumed"]
        /\ reviewed' = reviewed
    BY <1>4 DEF ConsumeForRotation, ConsumeForSwitch
  <2> QED
    BY <1>0, <2>1, <2>2, RowTypes
<1>5. UNCHANGED rowVars => Typed
  BY <1>0 DEF rowVars
<1> HIDE DEF Typed
<1>6. Typed
  BY <1>1, <1>2, <1>3, <1>4, <1>5, RowWriters
<1> QED
  BY <1>6 DEF Typed

LEMMA KeyTypesStep ==
    ASSUME ApprovalsTypeOK, Holding, ApprovalsNext
    PROVE  /\ serviceKey' \in [Keys -> KeyStates]
           /\ origin' \in [Keys -> Approvals \cup {"direct", Nothing}]
           /\ agentActive' \in BOOLEAN
<1>0. /\ serviceKey \in [Keys -> KeyStates]
      /\ origin \in [Keys -> Approvals \cup {"direct", Nothing}]
      /\ agentActive \in BOOLEAN
  BY DEF ApprovalsTypeOK
<1>1. ASSUME NEW h \in Handlers, InsertRotated(h)
      PROVE  /\ serviceKey' \in [Keys -> KeyStates]
             /\ origin' \in [Keys -> Approvals \cup {"direct", Nothing}]
             /\ agentActive' = agentActive
  <2>1. handler[h].approval \in Approvals
    BY <1>1 DEF InsertRotated, At, Holding
  <2> QED
    BY <1>0, <1>1, <2>1 DEF InsertRotated, InsertKey, KeyStates
<1>2. ASSUME NEW h \in Handlers, ReplaceKey(h)
      PROVE  /\ serviceKey' \in [Keys -> KeyStates]
             /\ origin' \in [Keys -> Approvals \cup {"direct", Nothing}]
             /\ agentActive' = agentActive
  BY <1>0, <1>2 DEF ReplaceKey, InsertKey, KeyStates
<1>3. ASSUME NEW h \in Handlers, NEW k \in Keys, ExpireKey(h, k)
      PROVE  serviceKey' \in [Keys -> KeyStates] /\ UNCHANGED <<origin, agentActive>>
  BY <1>0, <1>3 DEF ExpireKey, WithExpiry, KeyStates
<1>4. ASSUME NEW h \in Handlers, RetireKey(h) \/ UndoRetire(h)
      PROVE  serviceKey' \in [Keys -> KeyStates] /\ UNCHANGED <<origin, agentActive>>
  BY <1>0, <1>4 DEF RetireKey, UndoRetire, WithExpiry, WithoutExpiry, KeyStates
<1>5. ASSUME NEW k \in Keys, GraceEnds(k)
      PROVE  serviceKey' \in [Keys -> KeyStates] /\ UNCHANGED <<origin, agentActive>>
  BY <1>0, <1>5 DEF GraceEnds, KeyStates
<1>6. ASSUME DeactivateAgent
      PROVE  serviceKey' \in [Keys -> KeyStates] /\ agentActive' = FALSE /\ origin' = origin
  BY <1>0, <1>6 DEF DeactivateAgent, KeyStates
<1> QED
  BY <1>0, <1>1, <1>2, <1>3, <1>4, <1>5, <1>6, KeyWriters DEF keyVars

(* A handler goes on with a job that has what it needs. *)
GoodJob(job) ==
    /\ job \in Job
    /\ job.pc \in {"approve", "deny", "claim", "consume", "keys", "expire", "spend"}
          => job.approval \in Approvals
    /\ job.pc \in {"approve", "deny"} => job.by \in Reviewers

Onward(h) == \E job : GoodJob(job) /\ handler' = [handler EXCEPT ![h] = job]

LEMMA HandlerStep ==
    ASSUME ApprovalsTypeOK, Holding, ApprovalsNext
    PROVE  handler' \in [Handlers -> Job] /\ Holding'
<1>0. handler \in [Handlers -> Job] /\ \A h \in Handlers : GoodJob(handler[h])
  BY DEF ApprovalsTypeOK, Holding, GoodJob
<1>1. ASSUME NEW h \in Handlers, Onward(h)
      PROVE  handler' \in [Handlers -> Job] /\ Holding'
  BY <1>0, <1>1 DEF Onward, GoodJob, Holding
<1>2. CASE handler' = handler
  BY <1>0, <1>2 DEF GoodJob, Holding
<1>3. ASSUME NEW h \in Handlers, Finish(h) PROVE Onward(h)
  <2>1. GoodJob(Waiting)
    BY DEF Waiting, Job, GoodJob
  <2> QED
    BY <1>3, <2>1 DEF Finish, Onward
<1>4. ASSUME NEW h \in Handlers, NEW pc \in PCs \ {"approve", "deny"},
             handler[h].approval \in Approvals, handler' = [handler EXCEPT ![h].pc = pc]
      PROVE  Onward(h)
  <2>1. GoodJob([handler[h] EXCEPT !.pc = pc])
    BY <1>0, <1>4 DEF GoodJob, Job, PCs
  <2> QED
    BY <1>0, <1>4, <2>1 DEF Onward
<1>5. ASSUME NEW h \in Handlers, NEW pc \in {"find", "replace", "undo", "freeze"},
             handler' = [handler EXCEPT ![h].pc = pc]
      PROVE  Onward(h)
  <2>1. GoodJob([handler[h] EXCEPT !.pc = pc])
    BY <1>0, <1>5 DEF GoodJob, Job
  <2> QED
    BY <1>0, <1>5, <2>1 DEF Onward
<1>6. ASSUME NEW h \in Handlers, NEW r \in Reviewers, NEW a \in Approvals,
             NEW v \in {"approve", "deny"}, Review(h, r, a, v)
      PROVE  Onward(h)
  <2>1. GoodJob([Waiting EXCEPT !.pc = v, !.approval = a, !.by = r])
    BY DEF Waiting, Job, GoodJob
  <2> QED
    BY <1>6, <2>1 DEF Review, Onward
<1>7. ASSUME NEW h \in Handlers, Approve(h) PROVE Onward(h)
  <2>1. CASE Finish(h)
    BY <1>3, <2>1
  <2>2. CASE Execute(h, [handler[h] EXCEPT !.pc = "claim"])
    <3>1. GoodJob([handler[h] EXCEPT !.pc = "claim"])
      BY <1>0, <1>7 DEF GoodJob, Job, Approve, At
    <3> QED
      BY <2>2, <3>1 DEF Execute, Onward
  <2> QED
    BY <1>7, <2>1, <2>2 DEF Approve
<1>8. ASSUME NEW h \in Handlers, Deny(h) \/ AlreadyDecided(h) \/ AlreadyConsumed(h) \/ Die(h)
      PROVE  Onward(h)
  BY <1>3, <1>8 DEF Deny, AlreadyDecided, AlreadyConsumed, Die
<1>9. ASSUME NEW h \in Handlers, NEW a \in Approvals, ClaimRotation(h, a) PROVE Onward(h)
  <2>1. GoodJob([Waiting EXCEPT !.pc = "consume", !.approval = a])
    BY DEF Waiting, Job, GoodJob
  <2> QED
    BY <1>9, <2>1 DEF ClaimRotation, Execute, Onward
<1>10. ASSUME NEW h \in Handlers, NEW a \in Approvals, FindApproval(h, a) PROVE Onward(h)
  <2>1. GoodJob([Waiting EXCEPT !.pc = "arm"])
    BY DEF Waiting, Job, GoodJob
  <2> QED
    BY <1>10, <2>1 DEF FindApproval, Execute, Onward
<1>11. ASSUME NEW h \in Handlers, ClaimInline(h) \/ ConsumeForRotation(h) PROVE Onward(h)
  <2>1. handler[h].approval \in Approvals
    BY <1>0, <1>11 DEF ClaimInline, ConsumeForRotation, At, GoodJob
  <2>2. Finish(h) \/ Goto(h, "consume") \/ Goto(h, "keys")
    BY <1>11 DEF ClaimInline, ConsumeForRotation
  <2> QED
    BY <1>3, <1>4, <2>1, <2>2 DEF Goto, PCs
<1>12. ASSUME NEW h \in Handlers, ReadKeys(h) PROVE Onward(h)
  <2>1. GoodJob([handler[h] EXCEPT !.pc = "expire", !.old = ActiveKeys])
    BY <1>0, <1>12 DEF GoodJob, Job, ReadKeys, At, ActiveKeys
  <2> QED
    BY <1>0, <1>12, <2>1 DEF ReadKeys, Onward
<1>13. ASSUME NEW h \in Handlers, NEW k \in Keys, ExpireKey(h, k) PROVE Onward(h)
  <2>1. GoodJob([handler[h] EXCEPT !.old = @ \ {k}])
    BY <1>0, <1>13 DEF GoodJob, Job
  <2> QED
    BY <1>0, <1>13, <2>1 DEF ExpireKey, Onward
<1>14. ASSUME NEW h \in Handlers, NEW k \in Keys, RotateOwnKey(h, k) PROVE Onward(h)
  <2>1. GoodJob([Waiting EXCEPT !.pc = "retire", !.old = {k}])
    BY DEF Waiting, Job, GoodJob
  <2> QED
    BY <1>14, <2>1 DEF RotateOwnKey, Onward
<1>15. ASSUME NEW h \in Handlers,
              \/ InsertRotated(h) \/ RetireKey(h) \/ ReplaceKey(h) \/ UndoRetire(h)
              \/ SetKillSwitch(h) \/ ConsumeForSwitch(h) \/ FreezeContracts(h)
       PROVE  Onward(h)
  <2>1. Finish(h) \/ \E pc \in {"find", "replace", "undo", "freeze"} : Goto(h, pc)
    BY <1>15 DEF InsertRotated, RetireKey, ReplaceKey, UndoRetire, SetKillSwitch,
       ConsumeForSwitch, FreezeContracts
  <2> QED
    BY <1>3, <1>5, <2>1 DEF Goto
<1>16. ASSUME NEW h \in Handlers, FindAgain(h) PROVE Onward(h)
  <2>1. ASSUME NEW a \in Approvals,
               handler' = [handler EXCEPT ![h].pc = "spend", ![h].approval = a]
        PROVE  Onward(h)
    <3>1. GoodJob([handler[h] EXCEPT !.pc = "spend", !.approval = a])
      BY <1>0 DEF GoodJob, Job
    <3> QED
      BY <1>0, <2>1, <3>1 DEF Onward
  <2> QED
    BY <1>3, <1>16, <2>1 DEF FindAgain
<1>17. \/ \E u \in Users, a \in Approvals, action \in Actions : RequestApproval(u, a, action)
       \/ \E k \in Keys : GraceEnds(k)
       \/ DeactivateAgent \/ DeactivateKillSwitch
       => handler' = handler
  BY DEF RequestApproval, GraceEnds, DeactivateAgent, DeactivateKillSwitch
<1> QED
  BY <1>1, <1>2, <1>6, <1>7, <1>8, <1>9, <1>10, <1>11, <1>12, <1>13, <1>14, <1>15,
     <1>16, <1>17 DEF ApprovalsNext

LEMMA FlagTypesStep ==
    ASSUME ApprovalsTypeOK, ApprovalsNext
    PROVE  /\ killSwitch' \in BOOLEAN /\ frozen' \in BOOLEAN
           /\ overlapped' \in BOOLEAN /\ cutShort' \in BOOLEAN
           /\ faults' \in 0 .. MaxFaults
<1>1. killSwitch' \in BOOLEAN /\ frozen' \in BOOLEAN
  BY SwitchWriters DEF ApprovalsTypeOK, SetKillSwitch, FreezeContracts,
     DeactivateKillSwitch, switchVars
<1>2. overlapped' \in BOOLEAN
  BY OverlapWriters DEF ApprovalsTypeOK
<1>3. cutShort' \in BOOLEAN
  BY MishapWriters DEF ApprovalsTypeOK
<1>4. faults' \in 0 .. MaxFaults
  <2>1. UNCHANGED faults \/ Fault
    BY MishapWriters
  <2> QED
    BY <2>1, ApprovalsAssumption DEF ApprovalsTypeOK, Fault
<1> QED
  BY <1>1, <1>2, <1>3, <1>4

LEMMA ApprovalsTypeStep ==
    ApprovalsTypeOK /\ Holding /\ [ApprovalsNext]_approvalVars => ApprovalsTypeOK' /\ Holding'
<1>1. CASE UNCHANGED approvalVars
  BY <1>1 DEF approvalVars, ApprovalsTypeOK, Holding
<1>2. ASSUME ApprovalsTypeOK, Holding, ApprovalsNext PROVE ApprovalsTypeOK' /\ Holding'
  BY <1>2, RowTypesStep, KeyTypesStep, HandlerStep, FlagTypesStep DEF ApprovalsTypeOK
<1> QED
  BY <1>1, <1>2

-----------------------------------------------------------------------------
(* One key for an approval *)

Spent(a) == approval[a].status = "consumed" /\ approval[a].action = "key.rotate"

(* A handler that may still insert the key of its approval. *)
Owes(h) == handler[h].pc \in {"keys", "expire"}

OnlyOneOwes ==
    \A h \in Handlers : Owes(h) =>
       /\ Spent(handler[h].approval)
       /\ \A k \in Keys : origin[k] # handler[h].approval
       /\ \A g \in Handlers \ {h} : Owes(g) => handler[g].approval # handler[h].approval

LEMMA SpentForGood ==
    ASSUME ApprovalsTypeOK, Holding, ApprovalsNext, NEW a \in Approvals, Spent(a)
    PROVE  Spent(a)'
<1>0. approval \in [Approvals -> ApprovalRow]
  BY DEF ApprovalsTypeOK
<1>1. ASSUME NEW u \in Users, NEW b \in Approvals, NEW action \in Actions,
             RequestApproval(u, b, action)
      PROVE  Spent(a)'
  BY <1>0, <1>1 DEF RequestApproval, Spent
<1>2. ASSUME NEW h \in Handlers, Approve(h) \/ Deny(h)
      PROVE  Spent(a)'
  <2>1. handler[h].approval \in Approvals /\ approval[handler[h].approval].status = "pending"
    BY <1>2 DEF Approve, Deny, StillPending, At, Holding
  <2> QED
    BY <1>0, <1>2, <2>1 DEF Approve, Deny, Spent
<1>3. ASSUME NEW h \in Handlers, ConsumeForRotation(h) \/ ConsumeForSwitch(h)
      PROVE  Spent(a)'
  <2>1. handler[h].approval \in Approvals /\ approval[handler[h].approval].status = "approved"
    BY <1>3 DEF ConsumeForRotation, ConsumeForSwitch, StillApproved, At, Holding
  <2> QED
    BY <1>0, <1>3, <2>1 DEF ConsumeForRotation, ConsumeForSwitch, Spent
<1> QED
  BY <1>1, <1>2, <1>3, RowWriters DEF rowVars, Spent

(* A handler comes to owe a key by spending an approval. *)
LEMMA ComesToOwe ==
    ASSUME ApprovalsTypeOK, Holding, NEW h \in Handlers, HandlerActs(h), Owes(h)'
    PROVE  /\ handler'[h].approval = handler[h].approval
           /\ \/ Owes(h) /\ UNCHANGED approval
              \/ ConsumeForRotation(h) /\ Spent(handler[h].approval)'
<1>0. handler \in [Handlers -> Job] /\ approval \in [Approvals -> ApprovalRow]
  BY DEF ApprovalsTypeOK
<1>1. CASE ConsumeForRotation(h)
  <2>1. handler[h].approval \in Approvals
    BY <1>1 DEF ConsumeForRotation, At, Holding
  <2>2. approval[handler[h].approval].action = "key.rotate" /\ Goto(h, "keys")
    BY <1>0, <1>1 DEF ConsumeForRotation, Owes, Finish, Waiting
  <2> QED
    BY <1>0, <1>1, <2>1, <2>2 DEF ConsumeForRotation, StillApproved, Goto, Spent, Job
<1>2. CASE ReadKeys(h) \/ \E k \in Keys : ExpireKey(h, k)
  BY <1>0, <1>2 DEF ReadKeys, ExpireKey, Owes, At, Job, rowVars
<1>3. CASE Finish(h)
  BY <1>0, <1>3 DEF Finish, Waiting, Owes
<1>4. ASSUME NEW pc, pc \notin {"keys", "expire"}, handler' = [handler EXCEPT ![h].pc = pc]
      PROVE  FALSE
  BY <1>0, <1>4 DEF Owes, Job
<1>5. ASSUME NEW job, job.pc \notin {"keys", "expire"}, handler' = [handler EXCEPT ![h] = job]
      PROVE  FALSE
  BY <1>0, <1>5 DEF Owes
<1>6. CASE \/ Deny(h) \/ AlreadyDecided(h) \/ AlreadyConsumed(h) \/ InsertRotated(h)
           \/ UndoRetire(h) \/ FreezeContracts(h) \/ Die(h)
  BY <1>3, <1>6 DEF Deny, AlreadyDecided, AlreadyConsumed, InsertRotated, UndoRetire,
     FreezeContracts, Die
<1>7. CASE \/ ClaimInline(h) \/ RetireKey(h) \/ ReplaceKey(h) \/ SetKillSwitch(h)
           \/ ConsumeForSwitch(h)
  BY <1>3, <1>4, <1>7 DEF ClaimInline, RetireKey, ReplaceKey, SetKillSwitch,
     ConsumeForSwitch, Goto
<1>8. CASE Approve(h)
  <2>1. CASE Finish(h)
    BY <1>3, <2>1
  <2>2. CASE Execute(h, [handler[h] EXCEPT !.pc = "claim"])
    BY <1>0, <2>2 DEF Execute, Owes, Job
  <2> QED
    BY <1>8, <2>1, <2>2 DEF Approve
<1>9. CASE \E r \in Reviewers, a \in Approvals, v \in {"approve", "deny"} : Review(h, r, a, v)
  BY <1>5, <1>9 DEF Review, Waiting
<1>10. CASE \E a \in Approvals : ClaimRotation(h, a) \/ FindApproval(h, a)
  BY <1>5, <1>10 DEF ClaimRotation, FindApproval, Execute, Waiting
<1>11. CASE \E k \in Keys : RotateOwnKey(h, k)
  BY <1>5, <1>11 DEF RotateOwnKey, Waiting
<1>12. CASE FindAgain(h)
  BY <1>0, <1>3, <1>12 DEF FindAgain, Owes, Job
<1> QED
  BY <1>1, <1>2, <1>6, <1>7, <1>8, <1>9, <1>10, <1>11, <1>12 DEF HandlerActs

(* An origin is written with the key it is the origin of. *)
LEMMA OriginStep ==
    ASSUME ApprovalsTypeOK, ApprovalsNext
    PROVE  \/ origin' = origin
           \/ \E k \in Keys : origin' = [origin EXCEPT ![k] = "direct"]
           \/ \E h \in Handlers, k \in Keys :
                 /\ Owes(h) /\ InsertRotated(h)
                 /\ origin' = [origin EXCEPT ![k] = handler[h].approval]
<1>1. ASSUME NEW h \in Handlers, InsertRotated(h)
      PROVE  \/ origin' = origin
             \/ \E k \in Keys : Owes(h) /\ origin' = [origin EXCEPT ![k] = handler[h].approval]
  BY <1>1 DEF InsertRotated, InsertKey, Owes, At
<1>2. ASSUME NEW h \in Handlers, ReplaceKey(h)
      PROVE  \/ origin' = origin
             \/ \E k \in Keys : origin' = [origin EXCEPT ![k] = "direct"]
  BY <1>2 DEF ReplaceKey, InsertKey
<1> QED
  BY <1>1, <1>2, KeyWriters DEF keyVars, RetireKey, UndoRetire, ExpireKey, GraceEnds,
     DeactivateAgent

LEMMA OneKeyStep ==
    ASSUME ApprovalsTypeOK, Holding, OneKeyPerApproval, OnlyOneOwes, ApprovalsNext
    PROVE  OneKeyPerApproval' /\ OnlyOneOwes'
<1>0. /\ origin \in [Keys -> Approvals \cup {"direct", Nothing}]
      /\ "direct" \notin Approvals /\ Nothing \notin Approvals
      /\ handler \in [Handlers -> Job] /\ approval \in [Approvals -> ApprovalRow]
  BY ApprovalsAssumption DEF ApprovalsTypeOK
<1> DEFINE SpentNext(a) == approval'[a].status = "consumed" /\ approval'[a].action = "key.rotate"
           Accounted == \A k \in Keys : origin'[k] \in Approvals =>
                          /\ SpentNext(origin'[k])
                          /\ \A j \in Keys \ {k} : origin'[j] # origin'[k]
<1>1. \A a \in Approvals : Spent(a) => SpentNext(a)
  BY SpentForGood DEF Spent
<1>2. \A h \in Handlers : Owes(h) => handler[h].approval \in Approvals
  BY DEF Owes, Holding
<1>3. \A k \in Keys : origin[k] \in Approvals =>
         Spent(origin[k]) /\ \A j \in Keys \ {k} : origin[j] # origin[k]
  BY DEF OneKeyPerApproval, Spent
<1>4. Accounted
  <2>1. CASE origin' = origin
    BY <1>1, <1>3, <2>1
  <2>2. ASSUME NEW k \in Keys, origin' = [origin EXCEPT ![k] = "direct"]
        PROVE  Accounted
    BY <1>0, <1>1, <1>3, <2>2
  <2>3. ASSUME NEW h \in Handlers, NEW k \in Keys, Owes(h),
               origin' = [origin EXCEPT ![k] = handler[h].approval]
        PROVE  Accounted
    <3>1. /\ handler[h].approval \in Approvals /\ Spent(handler[h].approval)
          /\ \A j \in Keys : origin[j] # handler[h].approval
      BY <1>2, <2>3 DEF OnlyOneOwes
    <3> QED
      BY <1>0, <1>1, <1>3, <2>3, <3>1
  <2> QED
    BY <2>1, <2>2, <2>3, OriginStep
<1>5. OneKeyPerApproval'
  BY <1>4 DEF OneKeyPerApproval
<1>6. ASSUME NEW h \in Handlers, Owes(h)'
      PROVE  /\ handler'[h].approval = handler[h].approval
             /\ handler[h].approval \in Approvals
             /\ Spent(handler[h].approval)'
             /\ \/ Owes(h)
                \/ ConsumeForRotation(h) /\ ~Spent(handler[h].approval)
  <2>1. CASE HandlerActs(h)
    <3>1. CASE Owes(h)
      BY <1>1, <1>2, <1>6, <2>1, <3>1, ComesToOwe DEF OnlyOneOwes, Spent
    <3>2. CASE ConsumeForRotation(h)
      BY <1>6, <2>1, <3>2, ComesToOwe
      DEF ConsumeForRotation, At, StillApproved, Holding, Spent, Owes
    <3> QED
      BY <1>6, <2>1, <3>1, <3>2, ComesToOwe
  <2>2. CASE handler'[h] = handler[h]
    BY <1>1, <1>2, <1>6, <2>2 DEF OnlyOneOwes, Owes, Spent
  <2> QED
    BY <2>1, <2>2, OneHandlerActs, OthersStay
<1>7. ASSUME NEW h \in Handlers, Owes(h)', NEW k \in Keys
      PROVE  origin'[k] # handler'[h].approval
  <2>1. origin[k] # handler[h].approval
    BY <1>3, <1>6, <1>7 DEF OnlyOneOwes
  <2>2. ASSUME NEW g \in Handlers, Owes(g), InsertRotated(g)
        PROVE  handler[g].approval # handler'[h].approval
    <3>1. g # h
      BY <1>0, <1>7, <2>2 DEF InsertRotated, Finish, Waiting, Owes
    <3>2. Spent(handler[g].approval)
      BY <2>2 DEF OnlyOneOwes
    <3> QED
      BY <1>6, <1>7, <2>2, <3>1, <3>2 DEF OnlyOneOwes
  <2> QED
    BY <1>0, <1>6, <1>7, <2>1, <2>2, OriginStep
<1>8. ASSUME NEW h \in Handlers, Owes(h)', NEW g \in Handlers \ {h}, Owes(g)'
      PROVE  handler'[g].approval # handler'[h].approval
  <2>1. CASE Owes(h) /\ Owes(g)
    BY <1>6, <1>8, <2>1 DEF OnlyOneOwes
  <2>2. CASE ConsumeForRotation(h) /\ Owes(g)
    BY <1>6, <1>8, <2>2 DEF OnlyOneOwes
  <2>3. CASE ConsumeForRotation(g) /\ Owes(h)
    BY <1>6, <1>8, <2>3 DEF OnlyOneOwes
  <2>4. ~(ConsumeForRotation(g) /\ ConsumeForRotation(h))
    <3>1. ~(~Owes(h) /\ ~Owes(g))
      BY <1>6, <1>8, OneHandlerActs, OthersStay DEF Owes
    <3> QED
      BY <3>1 DEF Owes, ConsumeForRotation, At
  <2> QED
    BY <1>6, <1>8, <2>1, <2>2, <2>3, <2>4
<1>9. OnlyOneOwes'
  BY <1>6, <1>7, <1>8 DEF OnlyOneOwes
<1> QED
  BY <1>5, <1>9

-----------------------------------------------------------------------------
(* What stays said *)

LEMMA HistoryStays ==
    ASSUME ApprovalsTypeOK, ApprovalsNext
    PROVE  /\ overlapped => overlapped'
           /\ cutShort => cutShort'
           /\ faults' = 0 => faults = 0
<1>1. overlapped => overlapped'
  BY OverlapWriters
<1>2. cutShort => cutShort'
  BY MishapWriters
<1>3. UNCHANGED faults \/ Fault
  BY MishapWriters
<1> QED
  BY <1>1, <1>2, <1>3, ApprovalsAssumption DEF ApprovalsTypeOK, Fault

-----------------------------------------------------------------------------
(* The agent's keys *)

(* A handler between the old keys and the new one. *)
Between(h) == handler[h].pc \in {"expire", "replace", "undo"}

(* While the old keys run out a rotation is under way. *)
KeyAtHand ==
    agentActive /\ ~cutShort =>
       \/ \E k \in Keys : serviceKey[k] = "current"
       \/ /\ \E k \in Keys : serviceKey[k] = "grace"
          /\ \E h \in Handlers : Between(h)

NoneDeactivated == agentActive => \A k \in Keys : serviceKey[k] # "deactivated"

LEMMA LeavesBetween ==
    ASSUME ApprovalsTypeOK, NEW h \in Handlers, HandlerActs(h), Between(h)
    PROVE  \/ InsertRotated(h) \/ UndoRetire(h) \/ Die(h)
           \/ ReplaceKey(h)
           \/ Between(h)' /\ \E k \in Keys : ExpireKey(h, k)
<1>0. handler \in [Handlers -> Job]
  BY DEF ApprovalsTypeOK
<1>1. \/ InsertRotated(h) \/ UndoRetire(h) \/ Die(h) \/ ReplaceKey(h)
      \/ \E k \in Keys : ExpireKey(h, k)
  BY DEF HandlerActs, Between, At, Owes, Review, Approve, Deny,
     AlreadyDecided, ClaimRotation, FindApproval, ClaimInline,
     ConsumeForRotation, AlreadyConsumed, ReadKeys, RotateOwnKey, RetireKey,
     SetKillSwitch, FindAgain, ConsumeForSwitch, FreezeContracts
<1>2. ASSUME NEW k \in Keys, ExpireKey(h, k) PROVE Between(h)'
  BY <1>0, <1>2 DEF ExpireKey, At, Between, Job
<1> QED
  BY <1>1, <1>2

LEMMA KeyAtHandStep ==
    ASSUME ApprovalsTypeOK, Holding, KeyAtHand, NoneDeactivated, ApprovalsNext
    PROVE  KeyAtHand' /\ NoneDeactivated'
<1>0. /\ handler \in [Handlers -> Job] /\ serviceKey \in [Keys -> KeyStates]
      /\ agentActive \in BOOLEAN /\ cutShort \in BOOLEAN /\ cutShort' \in BOOLEAN
      /\ cutShort => cutShort'
      /\ \A h \in Handlers : handler[h].old \subseteq Keys
  BY HistoryStays, FlagTypesStep DEF ApprovalsTypeOK, Job
<1>1. NoneDeactivated'
  BY <1>0, KeyWriters DEF NoneDeactivated, keyVars, InsertRotated, InsertKey, RetireKey,
     ReplaceKey, UndoRetire, ExpireKey, GraceEnds, DeactivateAgent, WithExpiry, WithoutExpiry
<1>2. ASSUME NEW h \in Handlers, InsertRotated(h) \/ UndoRetire(h)
      PROVE  KeyAtHand'
  <2>1. \/ cutShort'
        \/ InsertKey(handler[h].approval) /\ agentActive' = agentActive
        \/ /\ \E k \in Keys : serviceKey' = WithoutExpiry(k)
           /\ agentActive' = agentActive
    BY <1>0, <1>2 DEF InsertRotated, UndoRetire
  <2> QED
    BY <1>0, <2>1 DEF KeyAtHand, NoneDeactivated, InsertKey, WithoutExpiry
<1>3. ASSUME NEW h \in Handlers, ReplaceKey(h) PROVE KeyAtHand'
  <2>1. CASE InsertKey("direct")
    BY <1>0, <1>3, <2>1 DEF KeyAtHand, InsertKey
  <2>2. CASE Goto(h, "undo") /\ UNCHANGED <<serviceKey, agentActive, cutShort>>
    <3>1. Between(h)'
      BY <1>0, <2>2 DEF Goto, Between, Job
    <3> QED
      BY <2>2, <3>1 DEF KeyAtHand
  <2> QED
    BY <1>3, <2>1, <2>2 DEF ReplaceKey
<1>4. ASSUME NEW h \in Handlers, NEW k \in Keys, serviceKey' = WithExpiry(k),
             agentActive' = agentActive, Between(h)'
      PROVE  KeyAtHand'
  BY <1>0, <1>4 DEF KeyAtHand, NoneDeactivated, WithExpiry
<1>5. ASSUME NEW h \in Handlers, UNCHANGED <<serviceKey, agentActive>>,
             HandlerActs(h), ~Between(h) \/ Between(h)'
      PROVE  KeyAtHand'
  BY <1>0, <1>5, OthersStay DEF KeyAtHand, Between
<1>6. ASSUME NEW h \in Handlers, NEW k \in Keys, ExpireKey(h, k) PROVE KeyAtHand'
  <2>1. Between(h)'
    BY <1>0, <1>6 DEF ExpireKey, At, Between, Job
  <2>2. agentActive' = agentActive /\ (serviceKey' = WithExpiry(k) \/ serviceKey' = serviceKey)
    BY <1>6 DEF ExpireKey
  <2> QED
    BY <1>4, <1>5, <1>6, <2>1, <2>2 DEF HandlerActs
<1>7. ASSUME NEW h \in Handlers, RetireKey(h) PROVE KeyAtHand'
  <2>1. CASE Goto(h, "replace") /\ \E k \in handler[h].old : serviceKey' = WithExpiry(k)
    <3>1. Between(h)' /\ agentActive' = agentActive
      BY <1>0, <1>7, <2>1 DEF Goto, Between, Job, RetireKey
    <3> QED
      BY <1>0, <1>4, <2>1, <3>1
  <2>2. CASE serviceKey' = serviceKey
    BY <1>5, <1>7, <2>2 DEF RetireKey, At, Between, HandlerActs
  <2> QED
    BY <1>7, <2>1, <2>2 DEF RetireKey
<1>8. ASSUME NEW k \in Keys, GraceEnds(k) PROVE KeyAtHand'
  <2>1. \A h \in Handlers : ~Between(h)
    BY <1>8 DEF GraceEnds, Rotating, Between
  <2> QED
    BY <1>0, <1>8, <2>1 DEF GraceEnds, KeyAtHand
<1>9. ASSUME DeactivateAgent PROVE KeyAtHand'
  BY <1>9 DEF DeactivateAgent, KeyAtHand
<1>10. ASSUME NEW h \in Handlers, Die(h) PROVE KeyAtHand'
  <2>1. CASE Between(h)
    BY <1>10, <2>1 DEF Die, Between, KeyAtHand
  <2>2. CASE ~Between(h)
    BY <1>5, <1>10, <2>2 DEF Die, keyVars, HandlerActs
  <2> QED
    BY <2>1, <2>2
<1>11. ASSUME UNCHANGED keyVars PROVE KeyAtHand'
  <2>1. CASE handler' = handler
    BY <1>0, <1>11, <2>1 DEF keyVars, KeyAtHand, Between
  <2>2. ASSUME NEW h \in Handlers, HandlerActs(h) PROVE KeyAtHand'
    <3>1. CASE ~Between(h) \/ Between(h)'
      BY <1>5, <1>11, <2>2, <3>1 DEF keyVars
    <3>2. CASE Between(h) /\ ~Between(h)'
      BY <1>2, <1>3, <1>10, <2>2, <3>2, LeavesBetween
    <3> QED
      BY <3>1, <3>2
  <2> QED
    BY <2>1, <2>2, OneHandlerActs
<1>12. KeyAtHand'
  BY <1>2, <1>3, <1>6, <1>7, <1>8, <1>9, <1>11, KeyWriters
<1> QED
  BY <1>1, <1>12

-----------------------------------------------------------------------------
(* The kill switch *)

(* Where a handler may spend an approval, or has spent one. *)
Spending(h) ==
    handler[h].pc \in {"claim", "consume", "keys", "expire", "arm", "find", "spend", "freeze"}

Alone ==
    ~overlapped => \A h, g \in Handlers : Spending(h) /\ Spending(g) => g = h

(* What a handler alone has found is still there when it spends it. *)
StillThere ==
    ~overlapped => \A h \in Handlers :
       /\ handler[h].pc \in {"arm", "find"} => \E a \in Approvals : LatestApproved(a)
       /\ handler[h].pc = "spend" => StillApproved(handler[h].approval)

(* A handler starts to spend when it executes. *)
LEMMA StartsSpending ==
    ASSUME ApprovalsTypeOK, NEW h \in Handlers, HandlerActs(h), Spending(h)', ~Spending(h)
    PROVE  overlapped' \/ \A g \in Handlers \ {h} : Reviewing(g)
<1>0. handler \in [Handlers -> Job]
  BY DEF ApprovalsTypeOK
<1>1. ASSUME Finish(h) PROVE FALSE
  BY <1>0, <1>1 DEF Finish, Waiting, Spending
<1>2. CASE \/ Deny(h) \/ AlreadyDecided(h) \/ AlreadyConsumed(h) \/ InsertRotated(h)
           \/ UndoRetire(h) \/ FreezeContracts(h) \/ Die(h)
  BY <1>1, <1>2 DEF Deny, AlreadyDecided, AlreadyConsumed, InsertRotated, UndoRetire,
     FreezeContracts, Die
<1>3. CASE \/ ClaimInline(h) \/ ConsumeForRotation(h) \/ ReadKeys(h)
           \/ SetKillSwitch(h) \/ FindAgain(h) \/ ConsumeForSwitch(h)
           \/ \E k \in Keys : ExpireKey(h, k)
  BY <1>3 DEF ClaimInline, ConsumeForRotation, ReadKeys, SetKillSwitch, FindAgain,
     ConsumeForSwitch, ExpireKey, At, Spending
<1>4. ASSUME NEW pc \in {"replace", "undo"}, Goto(h, pc) PROVE FALSE
  BY <1>0, <1>4 DEF Goto, Job, Spending
<1>7. CASE RetireKey(h) \/ ReplaceKey(h)
  BY <1>1, <1>4, <1>7 DEF RetireKey, ReplaceKey
<1>8. ASSUME NEW k \in Keys, RotateOwnKey(h, k) PROVE FALSE
  <2>1. [Waiting EXCEPT !.pc = "retire", !.old = {k}].pc = "retire"
    BY DEF Waiting
  <2> QED
    BY <1>0, <1>8, <2>1 DEF RotateOwnKey, Spending
<1>9. ASSUME NEW r \in Reviewers, NEW a \in Approvals, NEW v \in {"approve", "deny"},
             Review(h, r, a, v)
      PROVE  FALSE
  <2>1. [Waiting EXCEPT !.pc = v, !.approval = a, !.by = r].pc = v
    BY DEF Waiting
  <2> QED
    BY <1>0, <1>9, <2>1 DEF Review, Spending
<1>5. CASE Approve(h)
  BY <1>1, <1>5 DEF Approve, Execute
<1>6. CASE \E a \in Approvals : ClaimRotation(h, a) \/ FindApproval(h, a)
  BY <1>6 DEF ClaimRotation, FindApproval, Execute
<1> QED
  BY <1>2, <1>3, <1>5, <1>6, <1>7, <1>8, <1>9 DEF HandlerActs

LEMMA AloneStep ==
    ASSUME ApprovalsTypeOK, Alone, ApprovalsNext
    PROVE  Alone'
<1>1. CASE handler' = handler
  BY <1>1, HistoryStays DEF Alone, Spending
<1>2. ASSUME NEW h \in Handlers, HandlerActs(h), ~overlapped'
      PROVE  \A g, f \in Handlers : Spending(g)' /\ Spending(f)' => f = g
  <2>1. ~overlapped
    BY <1>2, HistoryStays
  <2>2. \A g \in Handlers \ {h} : Spending(g)' <=> Spending(g)
    BY <1>2, OthersStay DEF Spending
  <2>3. CASE Spending(h)
    BY <2>1, <2>2, <2>3 DEF Alone
  <2>4. CASE ~Spending(h) /\ Spending(h)'
    <3>1. \A g \in Handlers \ {h} : ~Spending(g)
      BY <1>2, <2>4, StartsSpending DEF Reviewing, Spending
    <3> QED
      BY <2>2, <3>1
  <2>5. CASE ~Spending(h) /\ ~Spending(h)'
    BY <2>1, <2>2, <2>5 DEF Alone
  <2> QED
    BY <2>3, <2>4, <2>5
<1> QED
  BY <1>1, <1>2, OneHandlerActs DEF Alone

(* An approval of the switch that nobody has spent. *)
Arming(a) == approval[a].action = "killswitch.activate" /\ approval[a].status = "approved"

LEMMA LatestArms ==
    ASSUME NEW a
    PROVE  LatestApproved(a) <=>
             \E i \in 1 .. Len(reviewed) :
                /\ reviewed[i] = a /\ Arming(a)
                /\ \A j \in i + 1 .. Len(reviewed) : ~Arming(reviewed[j])
  BY DEF LatestApproved, Spendable, Arming

(* Unless something is spent, an approval can be found as before. *)
LEMMA LatestStands ==
    ASSUME ApprovalsTypeOK, Holding, ApprovalsNext,
           \A h \in Handlers : ~ConsumeForRotation(h) /\ ~ConsumeForSwitch(h),
           NEW a \in Approvals, LatestApproved(a)
    PROVE  \E b \in Approvals : LatestApproved(b)'
<1>0. approval \in [Approvals -> ApprovalRow] /\ reviewed \in Seq(Approvals)
  BY DEF ApprovalsTypeOK
<1>1. PICK i \in 1 .. Len(reviewed) :
         /\ reviewed[i] = a /\ Arming(a)
         /\ \A j \in i + 1 .. Len(reviewed) : ~Arming(reviewed[j])
  BY LatestArms
<1>2. ASSUME reviewed' = reviewed, \A b \in Approvals : Arming(b)' <=> Arming(b)
      PROVE  LatestApproved(a)'
  <2>1. \A j \in 1 .. Len(reviewed) : reviewed[j] \in Approvals
    BY <1>0
  <2>2. \A j \in i + 1 .. Len(reviewed) : reviewed[j] \in Approvals
    BY <1>0, <2>1
  <2>3. \A j \in i + 1 .. Len(reviewed') : ~Arming(reviewed[j])'
    BY <1>1, <1>2, <2>2 DEF Arming
  <2>4. Arming(a)' /\ reviewed'[i] = a /\ i \in 1 .. Len(reviewed')
    BY <1>1, <1>2
  <2> QED
    BY <2>3, <2>4 DEF LatestApproved, Spendable, Arming
<1>3. ASSUME NEW u \in Users, NEW b \in Approvals, NEW action \in Actions,
             RequestApproval(u, b, action)
      PROVE  LatestApproved(a)'
  <2>1. \A c \in Approvals : Arming(c)' <=> Arming(c)
    BY <1>0, <1>3 DEF RequestApproval, Arming
  <2> QED
    BY <1>2, <1>3, <2>1 DEF RequestApproval
<1>4. ASSUME NEW h \in Handlers, Deny(h) PROVE LatestApproved(a)'
  <2>1. \A c \in Approvals : Arming(c)' <=> Arming(c)
    BY <1>0, <1>4 DEF Deny, StillPending, Arming
  <2> QED
    BY <1>2, <1>4, <2>1 DEF Deny
<1>5. ASSUME NEW h \in Handlers, Approve(h) PROVE \E b \in Approvals : LatestApproved(b)'
  <2>1. PICK b \in Approvals :
        /\ approval[b].status = "pending"
        /\ reviewed' = Append(reviewed, b)
        /\ approval' = [approval EXCEPT ![b].status = "approved",
                                        ![b].reviewed_by = handler[h].by]
    BY <1>5 DEF Approve, StillPending, At, Holding
  <2>2. PICK n \in Nat : n = Len(reviewed)
    BY <1>0
  <2>3. /\ Len(reviewed') = n + 1 /\ reviewed'[n + 1] = b
        /\ \A j \in 1 .. n : reviewed'[j] = reviewed[j] /\ reviewed[j] \in Approvals
    BY <1>0, <2>1, <2>2
  <2>4. \A c \in Approvals \ {b} : Arming(c)' <=> Arming(c)
    BY <1>0, <2>1 DEF Arming
  <2>5. CASE Arming(b)'
    <3>1. n + 1 \in 1 .. Len(reviewed') /\ n + 1 + 1 .. Len(reviewed') = {}
      BY <2>3
    <3>2. LatestApproved(b)'
      BY <2>3, <2>5, <3>1 DEF LatestApproved, Spendable, Arming
    <3> QED
      BY <3>2
  <2>6. CASE ~Arming(b)'
    <3>1. a # b /\ Arming(a)'
      BY <1>0, <1>1, <2>1, <2>4 DEF Arming
    <3>2. \A j \in i + 1 .. n + 1 : ~Arming(reviewed[j])'
      <4> SUFFICES ASSUME NEW j \in i + 1 .. n + 1 PROVE ~Arming(reviewed[j])'
        OBVIOUS
      <4>1. CASE j = n + 1
        BY <2>3, <2>6, <4>1 DEF Arming
      <4>2. CASE j \in i + 1 .. n
        <5>1. reviewed'[j] = reviewed[j] /\ reviewed[j] \in Approvals /\ ~Arming(reviewed[j])
          BY <1>1, <2>2, <2>3, <4>2
        <5>2. PICK c \in Approvals : c = reviewed[j]
          BY <5>1
        <5>3. ~Arming(c)'
          BY <2>4, <2>6, <5>1, <5>2
        <5> QED
          BY <5>1, <5>2, <5>3 DEF Arming
      <4> QED
        BY <2>2, <4>1, <4>2
    <3>3. reviewed'[i] = a /\ i \in 1 .. Len(reviewed')
      BY <1>1, <2>2, <2>3
    <3>4. LatestApproved(a)'
      BY <2>3, <3>1, <3>2, <3>3 DEF LatestApproved, Spendable, Arming
    <3> QED
      BY <3>4
  <2> QED
    BY <2>5, <2>6
<1>6. CASE UNCHANGED rowVars
  <2>1. reviewed' = reviewed /\ \A c \in Approvals : Arming(c)' <=> Arming(c)
    BY <1>6 DEF rowVars, Arming
  <2> QED
    BY <1>2, <2>1
<1> QED
  BY <1>3, <1>4, <1>5, <1>6, RowWriters

(* How a handler comes to the switch, and to the approval it spends there. *)
LEMMA ComesToTheSwitch ==
    ASSUME ApprovalsTypeOK, NEW h \in Handlers, HandlerActs(h)
    PROVE  /\ handler'[h].pc \in {"arm", "find"} =>
                \/ handler[h].pc \in {"arm", "find"}
                \/ \E a \in Approvals : LatestApproved(a)
           /\ handler'[h].pc = "spend" =>
                \/ handler[h].pc = "spend" /\ handler'[h].approval = handler[h].approval
                \/ \E a \in Approvals : LatestApproved(a) /\ handler'[h].approval = a
<1> DEFINE job == handler'[h]
<1>0. handler \in [Handlers -> Job]
  BY DEF ApprovalsTypeOK
<1>2. Finish(h) => job.pc = "idle"
  BY <1>0 DEF Finish, Waiting
<1>3. ASSUME NEW pc \in PCs, Goto(h, pc) PROVE job.pc = pc
  BY <1>0, <1>3 DEF Goto, Job, PCs
<1>4. CASE \/ Deny(h) \/ AlreadyDecided(h) \/ AlreadyConsumed(h) \/ InsertRotated(h)
           \/ UndoRetire(h) \/ FreezeContracts(h) \/ Die(h)
  BY <1>2, <1>4 DEF Deny, AlreadyDecided, AlreadyConsumed, InsertRotated, UndoRetire,
     FreezeContracts, Die
<1>5. CASE \/ ClaimInline(h) \/ ConsumeForRotation(h) \/ ConsumeForSwitch(h)
           \/ RetireKey(h) \/ ReplaceKey(h)
  <2>1. \/ Finish(h)
        \/ \E pc \in {"consume", "keys", "freeze", "replace", "undo"} : Goto(h, pc)
    BY <1>5 DEF ClaimInline, ConsumeForRotation, ConsumeForSwitch, RetireKey, ReplaceKey
  <2> QED
    BY <1>2, <1>3, <2>1 DEF PCs
<1>6. CASE SetKillSwitch(h)
  <2>1. Finish(h) \/ (Goto(h, "find") /\ handler[h].pc = "arm")
    BY <1>6 DEF SetKillSwitch, At
  <2> QED
    BY <1>2, <1>3, <2>1 DEF PCs
<1>7. CASE FindAgain(h)
  <2>1. CASE Finish(h)
    BY <1>2, <2>1
  <2>2. ASSUME NEW a \in Approvals, LatestApproved(a),
               handler' = [handler EXCEPT ![h].pc = "spend", ![h].approval = a]
        PROVE  job.pc = "spend" /\ job.approval = a
    BY <1>0, <2>2 DEF Job
  <2> QED
    BY <1>7, <2>1, <2>2 DEF FindAgain
<1>8. CASE ReadKeys(h) \/ \E k \in Keys : ExpireKey(h, k)
  <2>1. job.pc = "expire"
    BY <1>0, <1>8 DEF ReadKeys, ExpireKey, At, Job
  <2> QED
    BY <2>1
<1>9. CASE \/ \E k \in Keys : RotateOwnKey(h, k)
           \/ \E r \in Reviewers, a \in Approvals, v \in {"approve", "deny"} : Review(h, r, a, v)
           \/ \E a \in Approvals : ClaimRotation(h, a)
  <2>1. job.pc \in {"retire", "approve", "deny", "consume"}
    BY <1>0, <1>9 DEF RotateOwnKey, Review, ClaimRotation, Execute, Waiting
  <2> QED
    BY <2>1
<1>10. CASE \E a \in Approvals : FindApproval(h, a)
  <2>1. job.pc = "arm"
    BY <1>0, <1>10 DEF FindApproval, Execute, Waiting
  <2> QED
    BY <1>10, <2>1 DEF FindApproval
<1>11. CASE Approve(h)
  <2>1. job.pc \in {"idle", "claim"}
    BY <1>0, <1>2, <1>11 DEF Approve, Execute, Job
  <2> QED
    BY <2>1
<1> QED
  BY <1>4, <1>5, <1>6, <1>7, <1>8, <1>9, <1>10, <1>11 DEF HandlerActs

LEMMA StillThereStep ==
    ASSUME ApprovalsTypeOK, Holding, Alone, StillThere, ApprovalsNext
    PROVE  StillThere'
<1> SUFFICES ASSUME ~overlapped', NEW h \in Handlers
             PROVE  /\ handler'[h].pc \in {"arm", "find"} => \E a \in Approvals : LatestApproved(a)'
                    /\ handler'[h].pc = "spend" => approval'[handler'[h].approval].status = "approved"
  BY DEF StillThere, StillApproved
<1>0. ~overlapped /\ approval \in [Approvals -> ApprovalRow] /\ handler \in [Handlers -> Job]
  BY HistoryStays DEF ApprovalsTypeOK
<1>1. /\ handler'[h].pc \in {"arm", "find"} =>
           \/ handler[h].pc \in {"arm", "find"}
           \/ \E a \in Approvals : LatestApproved(a)
      /\ handler'[h].pc = "spend" =>
           \/ handler[h].pc = "spend" /\ handler'[h].approval = handler[h].approval
           \/ \E a \in Approvals : LatestApproved(a) /\ handler'[h].approval = a
  <2>1. CASE HandlerActs(h)
    BY <2>1, ComesToTheSwitch
  <2>2. CASE handler'[h] = handler[h]
    BY <2>2
  <2> QED
    BY <2>1, <2>2, OneHandlerActs, OthersStay
<1>2. CASE \A g \in Handlers : ~ConsumeForRotation(g) /\ ~ConsumeForSwitch(g)
  <2>1. \A a \in Approvals : approval[a].status = "approved" => approval'[a].status = "approved"
    BY <1>0, <1>2, RowWriters DEF rowVars, RequestApproval, Approve, Deny, StillPending
  <2>2. ASSUME handler'[h].pc \in {"arm", "find"}
        PROVE  \E a \in Approvals : LatestApproved(a)'
    <3>1. PICK a \in Approvals : LatestApproved(a)
      BY <1>0, <1>1, <2>2 DEF StillThere
    <3> QED
      BY <1>2, <3>1, LatestStands
  <2>3. ASSUME handler'[h].pc = "spend"
        PROVE  approval'[handler'[h].approval].status = "approved"
    <3>1. CASE handler[h].pc = "spend" /\ handler'[h].approval = handler[h].approval
      <4>1. handler[h].approval \in Approvals /\ approval[handler[h].approval].status = "approved"
        BY <1>0, <3>1 DEF StillThere, StillApproved, Holding
      <4> QED
        BY <2>1, <3>1, <4>1
    <3>2. ASSUME NEW a \in Approvals, LatestApproved(a), handler'[h].approval = a
          PROVE  approval'[handler'[h].approval].status = "approved"
      <4>1. approval[a].status = "approved"
        BY <3>2 DEF LatestApproved, Spendable
      <4> QED
        BY <2>1, <3>2, <4>1
    <3> QED
      BY <1>1, <2>3, <3>1, <3>2
  <2> QED
    BY <2>2, <2>3
<1>3. ASSUME NEW g \in Handlers, ConsumeForRotation(g) \/ ConsumeForSwitch(g)
      PROVE  handler'[h].pc \notin {"arm", "find", "spend"}
  <2>1. handler[g].pc \in {"consume", "spend"}
    BY <1>3 DEF ConsumeForRotation, ConsumeForSwitch, At
  <2>2. CASE h = g
    BY <1>0, <1>3, <2>2 DEF ConsumeForRotation, ConsumeForSwitch, Goto, Finish, Waiting, Job
  <2>3. CASE h # g
    <3>1. handler'[h] = handler[h] /\ ~Spending(h)
      BY <1>0, <1>3, <2>1, <2>3, OthersStay DEF HandlerActs, Alone, Spending
    <3> QED
      BY <3>1 DEF Spending
  <2> QED
    BY <2>2, <2>3
<1> QED
  BY <1>2, <1>3

(* Once the switch is set, nothing but a failure keeps its handler from the end. *)
LEMMA SwitchStep ==
    ASSUME ApprovalsTypeOK, Holding, StillThere, SwitchIsFollowedThrough, ApprovalsNext
    PROVE  SwitchIsFollowedThrough'
<1> DEFINE on(h) == handler[h].pc \in {"find", "spend", "freeze"}
           onNext(h) == handler'[h].pc \in {"find", "spend", "freeze"}
<1> SUFFICES ASSUME killSwitch', ~frozen', faults' = 0, ~overlapped'
             PROVE  \E h \in Handlers : onNext(h)
  BY DEF SwitchIsFollowedThrough
<1>0. /\ ~overlapped /\ handler \in [Handlers -> Job]
      /\ killSwitch \in BOOLEAN /\ frozen \in BOOLEAN /\ faults \in Nat
  BY HistoryStays DEF ApprovalsTypeOK
<1>1. ~Fault
  BY <1>0 DEF Fault
<1>2. ASSUME NEW h \in Handlers, SetKillSwitch(h) PROVE onNext(h)
  <2>1. Goto(h, "find")
    BY <1>1, <1>2 DEF SetKillSwitch
  <2> QED
    BY <1>0, <2>1 DEF Goto, Job
<1>3. ASSUME NEW h \in Handlers, FreezeContracts(h) PROVE FALSE
  BY <1>1, <1>3 DEF FreezeContracts
<1>4. ASSUME DeactivateKillSwitch PROVE FALSE
  BY <1>4 DEF DeactivateKillSwitch
<1>5. ASSUME UNCHANGED switchVars PROVE \E h \in Handlers : onNext(h)
  <2>1. faults = 0
    BY HistoryStays
  <2>2. PICK h \in Handlers : on(h)
    BY <1>0, <1>5, <2>1 DEF SwitchIsFollowedThrough, switchVars
  <2>3. CASE ~HandlerActs(h)
    BY <2>2, <2>3, OneHandlerActs, OthersStay
  <2>4. CASE HandlerActs(h)
    <3>1. \/ FindAgain(h) \/ ConsumeForSwitch(h) \/ AlreadyConsumed(h) \/ FreezeContracts(h) \/ Die(h)
      BY <2>2, <2>4 DEF HandlerActs, At, Owes, Review, Approve, Deny, AlreadyDecided,
         ClaimRotation, FindApproval, ClaimInline, ConsumeForRotation, ReadKeys, InsertRotated,
         ExpireKey, RotateOwnKey, RetireKey, ReplaceKey, UndoRetire, SetKillSwitch
    <3>2. ~Die(h)
      BY <1>1 DEF Die
    <3>3. ~AlreadyConsumed(h)
      BY <1>0, <2>2 DEF AlreadyConsumed, StillThere
    <3>4. CASE FindAgain(h)
      <4>1. \E a \in Approvals : LatestApproved(a)
        BY <1>0, <3>4 DEF FindAgain, At, StillThere
      <4>2. PICK a \in Approvals :
              handler' = [handler EXCEPT ![h].pc = "spend", ![h].approval = a]
        BY <3>4, <4>1 DEF FindAgain
      <4> QED
        BY <1>0, <4>2 DEF Job
    <3>5. CASE ConsumeForSwitch(h)
      BY <1>0, <3>5 DEF ConsumeForSwitch, Goto, Job
    <3> QED
      BY <1>3, <3>1, <3>2, <3>3, <3>4, <3>5
  <2> QED
    BY <2>3, <2>4
<1> QED
  BY <1>2, <1>3, <1>4, <1>5, SwitchWriters

-----------------------------------------------------------------------------
(* The inductive invariant *)

IInv ==
    /\ ApprovalsTypeOK /\ Holding
    /\ OneKeyPerApproval /\ OnlyOneOwes
    /\ KeyAtHand /\ NoneDeactivated
    /\ Alone /\ StillThere /\ SwitchIsFollowedThrough

LEMMA InvariantInit == ApprovalsInit => IInv
<1> SUFFICES ASSUME ApprovalsInit PROVE IInv
  OBVIOUS
<1>0. 1 \in Keys /\ Nothing \notin Approvals
  BY ApprovalsAssumption DEF Keys
<1>1. ApprovalsTypeOK
  <2>1. NoRow \in ApprovalRow /\ Waiting \in Job
    BY DEF NoRow, ApprovalRow, Waiting, Job
  <2>2. reviewed \in Seq(Approvals)
    BY DEF ApprovalsInit
  <2>3. serviceKey \in [Keys -> KeyStates] /\ origin \in [Keys -> Approvals \cup {"direct", Nothing}]
    BY DEF ApprovalsInit, KeyStates
  <2>4. /\ agentActive \in BOOLEAN /\ killSwitch \in BOOLEAN /\ frozen \in BOOLEAN
        /\ overlapped \in BOOLEAN /\ cutShort \in BOOLEAN
    BY DEF ApprovalsInit
  <2>5. faults \in 0 .. MaxFaults
    BY ApprovalsAssumption DEF ApprovalsInit
  <2>6. approval \in [Approvals -> ApprovalRow] /\ handler \in [Handlers -> Job]
    BY <2>1 DEF ApprovalsInit
  <2> QED
    BY <2>2, <2>3, <2>4, <2>5, <2>6 DEF ApprovalsTypeOK
<1>2. Holding /\ Alone /\ StillThere /\ OnlyOneOwes
  BY DEF ApprovalsInit, Waiting, Holding, Alone, Spending, StillThere, OnlyOneOwes, Owes
<1>3. OneKeyPerApproval
  BY <1>0 DEF ApprovalsInit, OneKeyPerApproval
<1>4. KeyAtHand /\ NoneDeactivated
  BY <1>0 DEF ApprovalsInit, KeyAtHand, NoneDeactivated
<1>5. SwitchIsFollowedThrough
  BY DEF ApprovalsInit, SwitchIsFollowedThrough
<1> QED
  BY <1>1, <1>2, <1>3, <1>4, <1>5 DEF IInv

LEMMA InvariantStep == IInv /\ [ApprovalsNext]_approvalVars => IInv'
<1> SUFFICES ASSUME IInv, [ApprovalsNext]_approvalVars PROVE IInv'
  OBVIOUS
<1>1. CASE ApprovalsNext
  <2>1. ApprovalsTypeOK' /\ Holding'
    BY <1>1, ApprovalsTypeStep DEF IInv
  <2>2. OneKeyPerApproval' /\ OnlyOneOwes'
    BY <1>1, OneKeyStep DEF IInv
  <2>3. KeyAtHand' /\ NoneDeactivated'
    BY <1>1, KeyAtHandStep DEF IInv
  <2>4. Alone' /\ StillThere'
    BY <1>1, AloneStep, StillThereStep DEF IInv
  <2>5. SwitchIsFollowedThrough'
    BY <1>1, SwitchStep DEF IInv
  <2> QED
    BY <2>1, <2>2, <2>3, <2>4, <2>5 DEF IInv
<1>2. CASE UNCHANGED approvalVars
  <2>0. ApprovalsTypeOK'
    <3>1. /\ UNCHANGED <<approval, reviewed, serviceKey, origin, agentActive, killSwitch>>
          /\ UNCHANGED <<frozen, handler, overlapped, cutShort, faults>>
      BY <1>2 DEF approvalVars
    <3>2. ApprovalsTypeOK
      BY DEF IInv
    <3> QED
      BY <3>1, <3>2, Zenon DEF ApprovalsTypeOK
  <2>1. Holding' /\ OneKeyPerApproval' /\ OnlyOneOwes'
    BY <1>2 DEF IInv, approvalVars, Holding, OneKeyPerApproval, OnlyOneOwes, Owes, Spent
  <2>2. KeyAtHand' /\ NoneDeactivated' /\ Alone' /\ SwitchIsFollowedThrough'
    BY <1>2 DEF IInv, approvalVars, KeyAtHand, Between, NoneDeactivated, Alone, Spending,
       SwitchIsFollowedThrough
  <2>3. StillThere'
    BY <1>2 DEF IInv, approvalVars, StillThere, StillApproved, LatestApproved, Spendable
  <2> QED
    BY <2>0, <2>1, <2>2, <2>3 DEF IInv
<1> QED
  BY <1>1, <1>2

(* Everything above holds of every reachable state of the requests, the keys and the
   handlers of approvals.ts and its callers. *)
THEOREM ApprovalsInvariant == ApprovalsSpec => []IInv
BY InvariantInit, InvariantStep, PTL DEF ApprovalsSpec

-----------------------------------------------------------------------------
(* Theorems *)

(* Requests, keys, flags and the jobs of handlers keep their types, for any number
   of each. *)
THEOREM ApprovalsTypes == ApprovalsSpec => []ApprovalsTypeOK
<1>1. IInv => ApprovalsTypeOK
  BY DEF IInv
<1> QED
  BY <1>1, ApprovalsInvariant, PTL

(* However many handlers execute one approval, it gives one key: consumeApproval's
   compare-and-set lets one of them through. *)
THEOREM ApprovalsSpendOnce == ApprovalsSpec => []OneKeyPerApproval
<1>1. IInv => OneKeyPerApproval
  BY DEF IInv
<1> QED
  BY <1>1, ApprovalsInvariant, PTL

(* An agent that was not deactivated keeps a key that works through any overlap of
   rotations, unless one was cut short where nothing undoes it. *)
THEOREM RotationsLeaveAKey == ApprovalsSpec => []NeverLockedOut
<1>1. IInv => NeverLockedOut
  BY DEF IInv, KeyAtHand, NeverLockedOut
<1> QED
  BY <1>1, ApprovalsInvariant, PTL

(* A kill switch that is set is followed by the spent approval and the end of the
   contracts, unless a handler fails or two execute at the same time. *)
THEOREM SwitchCompletes == ApprovalsSpec => []SwitchIsFollowedThrough
<1>1. IInv => SwitchIsFollowedThrough
  BY DEF IInv
<1> QED
  BY <1>1, ApprovalsInvariant, PTL

(* Of two reviewers one decides, and what is decided stands. *)
THEOREM ReviewsStand == ApprovalsSpec => DecisionsStand
<1> DEFINE Stands(a) ==
       LET old == approval[a]
           new == approval'[a]
       IN  /\ old.status \in {"approved", "denied", "consumed"}
                => new.reviewed_by = old.reviewed_by
           /\ old.status \in {"denied", "consumed"} => new.status = old.status
           /\ old.status = "approved" => new.status \in {"approved", "consumed"}
<1>1. ASSUME IInv, ApprovalsNext, NEW a \in Approvals PROVE Stands(a)
  <2>0. approval \in [Approvals -> ApprovalRow]
    BY <1>1 DEF IInv, ApprovalsTypeOK
  <2>1. ASSUME NEW u \in Users, NEW b \in Approvals, NEW action \in Actions,
               RequestApproval(u, b, action)
        PROVE  Stands(a)
    BY <2>0, <2>1 DEF RequestApproval, ApprovalRow
  <2>2. ASSUME NEW h \in Handlers, Approve(h) \/ Deny(h) PROVE Stands(a)
    BY <2>0, <2>2 DEF Approve, Deny, StillPending, ApprovalRow
  <2>3. ASSUME NEW h \in Handlers, ConsumeForRotation(h) \/ ConsumeForSwitch(h)
        PROVE  Stands(a)
    BY <2>0, <2>3 DEF ConsumeForRotation, ConsumeForSwitch, StillApproved, ApprovalRow
  <2>4. CASE UNCHANGED rowVars
    BY <2>4 DEF rowVars
  <2> QED
    BY <1>1, <2>1, <2>2, <2>3, <2>4, RowWriters
<1>2. IInv /\ [ApprovalsNext]_approvalVars => [\A a \in Approvals : Stands(a)]_approval
  BY <1>1 DEF approvalVars
<1> QED
  BY <1>2, ApprovalsInvariant, PTL DEF ApprovalsSpec, DecisionsStand
=============================================================================
