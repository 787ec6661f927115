----------------------------- MODULE Approvals -----------------------------
(***************************************************************************)
(* Sensitive operations that need a second person: requests, their review, *)
(* and the two operations that spend an approval, the rotation of an       *)
(* agent's keys and the kill switch.  Also what else changes those keys:   *)
(* the agent's own rotation and its deactivation.                          *)
(*                                                                         *)
(* One agent's keys, several requests and concurrent handlers.  Everybody  *)
(* here is a super admin: the others are refused and change nothing.       *)
(***************************************************************************)
EXTENDS Naturals, FiniteSets, Sequences

CONSTANTS
    Approvals,     \* the ids of requests
    Users,         \* the people of the dashboard
    Agents,        \* the agents that may review
    NoAgent,
    Owner,         \* the user an agent belongs to
    NamedLike,     \* the agent that has the display name of a user
    TargetOwner,   \* the owner of the agent whose keys are rotated
    Handlers,      \* requests of the server being handled
    Nothing,
    MaxKeys,       \* bound on the keys the agent ever has
    MaxFaults      \* bound on dying handlers and failing statements

Reviewers == Users \cup Agents
Keys == 1 .. MaxKeys
Actions == {"key.rotate", "killswitch.activate"}

ASSUME ApprovalsAssumption ==
    /\ Owner \in [Agents -> Users]
    /\ NamedLike \in [Users -> Agents \cup {NoAgent}]
    /\ NoAgent \notin Agents
    /\ TargetOwner \in Users
    /\ Nothing \notin Approvals \cup Reviewers \cup Actions \cup {"direct"}
    /\ "direct" \notin Approvals
    /\ MaxKeys \in Nat \ {0} /\ MaxFaults \in Nat

VARIABLES
    approval,      \* the rows of pending_approvals
    reviewed,      \* the approved ones in the order of reviewed_at
    serviceKey,    \* the agent's service_keys, by created_at
    origin,        \* history: the approval or the direct rotation behind a key
    agentActive,   \* the agent was not deactivated
    killSwitch,    \* system_config.kill_switch
    frozen,        \* the contracts were ended since the switch was set
    handler,       \* where each handler stands
    overlapped,    \* history: two handlers executed at the same time
    cutShort,      \* history: a rotation ended between the old keys and the new
    faults         \* history: deaths and failures so far

approvalVars == <<approval, reviewed, serviceKey, origin, agentActive,
                  killSwitch, frozen, handler, overlapped, cutShort, faults>>

KeyStates == {"absent", "current", "grace", "expired", "deactivated"}

ApprovalRow == [status : {"absent", "pending", "approved", "denied", "consumed"},
                action : Actions \cup {Nothing},
                actor : Users \cup {Nothing},
                reviewed_by : Reviewers \cup {Nothing}]

NoRow == [status |-> "absent", action |-> Nothing, actor |-> Nothing, reviewed_by |-> Nothing]

(* pc; the approval at hand; the reviewer; the keys read and not yet written. *)
Job == [pc : {"idle", "approve", "deny", "claim", "consume", "keys", "expire",
              "retire", "replace", "undo", "arm", "find", "spend", "freeze"},
        approval : Approvals \cup {Nothing},
        by : Reviewers \cup {Nothing},
        old : SUBSET Keys]

Waiting == [pc |-> "idle", approval |-> Nothing, by |-> Nothing, old |-> {}]

ApprovalsInit ==
    /\ approval = [a \in Approvals |-> NoRow]
    /\ reviewed = <<>>
    /\ serviceKey = [k \in Keys |-> IF k = 1 THEN "current" ELSE "absent"]
    /\ origin = [k \in Keys |-> Nothing]
    /\ agentActive = TRUE
    /\ killSwitch = FALSE /\ frozen = FALSE
    /\ handler = [h \in Handlers |-> Waiting]
    /\ overlapped = FALSE /\ cutShort = FALSE
    /\ faults = 0

At(h, pc) == handler[h].pc = pc
Reviewing(h) == handler[h].pc \in {"idle", "approve", "deny"}
Rotating(h) == handler[h].pc \in {"keys", "expire", "retire", "replace", "undo"}

Goto(h, pc) == handler' = [handler EXCEPT ![h].pc = pc]
Finish(h) == handler' = [handler EXCEPT ![h] = Waiting]

(* What a handler starts to execute, and whether it is alone with it. *)
Execute(h, job) ==
    /\ handler' = [handler EXCEPT ![h] = job]
    /\ overlapped' = (overlapped \/ \E g \in Handlers \ {h} : ~Reviewing(g))

(* A statement that fails, or an error that ends the handler. *)
Fault == faults < MaxFaults /\ faults' = faults + 1

rowVars == <<approval, reviewed>>
keyVars == <<serviceKey, origin, agentActive>>
switchVars == <<killSwitch, frozen>>
mishaps == <<cutShort, faults>>

-----------------------------------------------------------------------------
(* Requests and their review *)

(* requestKeyRotation and requestKillSwitchActivation.  The latter also tries to
   approve its own request, which is refused: the row stays pending. *)
RequestApproval(u, a, action) ==
    /\ approval[a].status = "absent"
    /\ approval' = [approval EXCEPT ![a] =
          [status |-> "pending", action |-> action, actor |-> u, reviewed_by |-> Nothing]]
    /\ UNCHANGED <<reviewed, keyVars, switchVars, handler, overlapped, mishaps>>

(* The actor of every request is a user's display name.  A reviewer has another
   name, and another owner than the agent of that name, if there is one. *)
MayReview(r, u) ==
    LET namesake == NamedLike[u]
        owner == IF r \in Users THEN r ELSE Owner[r]
    IN  /\ r # u /\ r # namesake
        /\ namesake # NoAgent => Owner[namesake] # owner

(* The checks, on the row as it is read. *)
Review(h, r, a, verdict) ==
    /\ At(h, "idle")
    /\ approval[a].status = "pending" /\ MayReview(r, approval[a].actor)
    /\ handler' = [handler EXCEPT ![h] =
          [Waiting EXCEPT !.pc = verdict, !.approval = a, !.by = r]]
    /\ UNCHANGED <<rowVars, keyVars, switchVars, overlapped, mishaps>>

(* Mutant of StillPending: the check on the row that was read is enough. *)
WasPending(a) == approval[a].status # "absent"

(* The compare-and-set of every review. *)
StillPending(a) == approval[a].status = "pending"

(* Who approves a rotation also executes it: an agent always, the dashboard when
   the actor's name is that of an agent of the same owner. *)
RotatesInline(h) ==
    LET a == handler[h].approval
        namesake == NamedLike[approval[a].actor]
    IN  /\ approval[a].action = "key.rotate"
        /\ \/ handler[h].by \in Agents
           \/ namesake # NoAgent /\ Owner[namesake] = TargetOwner

(* approveDashboardRequest and the approve route. *)
Approve(h) ==
    LET a == handler[h].approval
    IN  /\ At(h, "approve") /\ StillPending(a)
        /\ approval' = [approval EXCEPT ![a].status = "approved",
                                        ![a].reviewed_by = handler[h].by]
        /\ reviewed' = Append(reviewed, a)
        /\ IF RotatesInline(h)
           THEN Execute(h, [handler[h] EXCEPT !.pc = "claim"])
           ELSE Finish(h) /\ UNCHANGED overlapped
        /\ UNCHANGED <<keyVars, switchVars, mishaps>>

Deny(h) ==
    LET a == handler[h].approval
    IN  /\ At(h, "deny") /\ StillPending(a)
        /\ approval' = [approval EXCEPT ![a].status = "denied",
                                        ![a].reviewed_by = handler[h].by]
        /\ Finish(h)
        /\ UNCHANGED <<reviewed, keyVars, switchVars, overlapped, mishaps>>

AlreadyDecided(h) ==
    /\ handler[h].pc \in {"approve", "deny"} /\ ~StillPending(handler[h].approval)
    /\ Finish(h)
    /\ UNCHANGED <<rowVars, keyVars, switchVars, overlapped, mishaps>>

-----------------------------------------------------------------------------
(* consumeApproval: a read, then a compare-and-set *)

(* executeKeyRotation starts with it, for any approval it is given. *)
ClaimRotation(h, a) ==
    /\ At(h, "idle") /\ approval[a].status = "approved"
    /\ Execute(h, [Waiting EXCEPT !.pc = "consume", !.approval = a])
    /\ UNCHANGED <<rowVars, keyVars, switchVars, mishaps>>

ClaimInline(h) ==
    /\ At(h, "claim")
    /\ IF approval[handler[h].approval].status = "approved"
       THEN Goto(h, "consume") ELSE Finish(h)
    /\ UNCHANGED <<rowVars, keyVars, switchVars, overlapped, mishaps>>

(* Mutant of StillApproved: the row was approved when it was read. *)
WasApproved(a) == approval[a].status \in {"approved", "consumed"}

StillApproved(a) == approval[a].status = "approved"

(* The approval is spent before anything is known of the rest: one that is not
   for a rotation is spent for nothing. *)
ConsumeForRotation(h) ==
    LET a == handler[h].approval
    IN  /\ At(h, "consume") /\ StillApproved(a)
        /\ approval' = [approval EXCEPT ![a].status = "consumed"]
        /\ IF approval[a].action = "key.rotate" THEN Goto(h, "keys") ELSE Finish(h)
        /\ UNCHANGED <<reviewed, keyVars, switchVars, overlapped, mishaps>>

AlreadyConsumed(h) ==
    /\ handler[h].pc \in {"consume", "spend"} /\ ~StillApproved(handler[h].approval)
    /\ Finish(h)
    /\ UNCHANGED <<rowVars, keyVars, switchVars, overlapped, mishaps>>

-----------------------------------------------------------------------------
(* The rotation behind an approval *)

(* Every key with is_active, the expired ones among them. *)
ActiveKeys == {k \in Keys : serviceKey[k] \in {"current", "grace", "expired"}}

ReadKeys(h) ==
    /\ At(h, "keys")
    /\ handler' = [handler EXCEPT ![h].pc = "expire", ![h].old = ActiveKeys]
    /\ UNCHANGED <<rowVars, keyVars, switchVars, overlapped, mishaps>>

(* An hour of grace.  It makes nothing of a key that was deactivated. *)
WithExpiry(k) ==
    [serviceKey EXCEPT ![k] = IF @ = "deactivated" THEN @ ELSE "grace"]

(* One update per key, by id; its error is not looked at. *)
ExpireKey(h, k) ==
    /\ At(h, "expire") /\ k \in handler[h].old
    /\ handler' = [handler EXCEPT ![h].old = @ \ {k}]
    /\ \/ serviceKey' = WithExpiry(k) /\ UNCHANGED faults
       \/ Fault /\ UNCHANGED serviceKey
    /\ UNCHANGED <<rowVars, origin, agentActive, switchVars, overlapped, cutShort>>

NextKey(k) == /\ serviceKey[k] = "absent"
              /\ \A j \in 1 .. k - 1 : serviceKey[j] # "absent"

(* Within the bound MaxKeys. *)
InsertKey(from) ==
    \E k \in Keys : /\ NextKey(k)
                    /\ serviceKey' = [serviceKey EXCEPT ![k] = "current"]
                    /\ origin' = [origin EXCEPT ![k] = from]

(* If the insert fails nobody is told (or the user of the dashboard is, when the
   approval is spent), and the old keys go on expiring. *)
InsertRotated(h) ==
    /\ At(h, "expire") /\ handler[h].old = {}
    /\ \/ InsertKey(handler[h].approval) /\ UNCHANGED mishaps
       \/ Fault /\ cutShort' = TRUE /\ UNCHANGED <<serviceKey, origin>>
    /\ Finish(h)
    /\ UNCHANGED <<rowVars, agentActive, switchVars, overlapped>>

-----------------------------------------------------------------------------
(* The agent's own rotation, which needs no approval: keys/rotate *)

(* The newest key without an expiry. *)
CurrentKey(k) ==
    /\ serviceKey[k] = "current"
    /\ \A j \in Keys : serviceKey[j] = "current" => j <= k

RotateOwnKey(h, k) ==
    /\ At(h, "idle") /\ CurrentKey(k)
    /\ handler' = [handler EXCEPT ![h] = [Waiting EXCEPT !.pc = "retire", !.old = {k}]]
    /\ UNCHANGED <<rowVars, keyVars, switchVars, overlapped, mishaps>>

RetireKey(h) ==
    /\ At(h, "retire")
    /\ \/ /\ \E k \in handler[h].old : serviceKey' = WithExpiry(k)
          /\ Goto(h, "replace") /\ UNCHANGED faults
       \/ Fault /\ Finish(h) /\ UNCHANGED serviceKey
    /\ UNCHANGED <<rowVars, origin, agentActive, switchVars, overlapped, cutShort>>

ReplaceKey(h) ==
    /\ At(h, "replace")
    /\ \/ InsertKey("direct") /\ Finish(h) /\ UNCHANGED faults
       \/ Fault /\ Goto(h, "undo") /\ UNCHANGED <<serviceKey, origin>>
    /\ UNCHANGED <<rowVars, agentActive, switchVars, overlapped, cutShort>>

(* Mutant of WithoutExpiry: the old key is left to expire. *)
StillExpiring(k) == serviceKey

(* expires_at is null again, whatever another rotation made of the key since. *)
WithoutExpiry(k) ==
    [serviceKey EXCEPT ![k] = IF @ = "deactivated" THEN @ ELSE "current"]

UndoRetire(h) ==
    /\ At(h, "undo")
    /\ \/ /\ \E k \in handler[h].old : serviceKey' = WithoutExpiry(k)
          /\ UNCHANGED mishaps
       \/ Fault /\ cutShort' = TRUE /\ UNCHANGED serviceKey
    /\ Finish(h)
    /\ UNCHANGED <<rowVars, origin, agentActive, switchVars, overlapped>>

(* The hour is over.  No rotation takes that long. *)
GraceEnds(k) ==
    /\ serviceKey[k] = "grace"
    /\ \A h \in Handlers : ~Rotating(h)
    /\ serviceKey' = [serviceKey EXCEPT ![k] = "expired"]
    /\ UNCHANGED <<rowVars, origin, agentActive, switchVars, handler, overlapped, mishaps>>

(* updateAgentLifecycle with `deactivate`: all active keys in one statement. *)
DeactivateAgent ==
    /\ agentActive
    /\ agentActive' = FALSE
    /\ serviceKey' = [k \in Keys |-> IF k \in ActiveKeys THEN "deactivated"
                                                          ELSE serviceKey[k]]
    /\ UNCHANGED <<rowVars, origin, switchVars, handler, overlapped, mishaps>>

-----------------------------------------------------------------------------
(* executeKillSwitchActivation and deactivateKillSwitch *)

(* Mutant of Spendable: an approval that was used once may be used again. *)
SpendableAgain(a) == approval[a].status \in {"approved", "consumed"}

Spendable(a) == approval[a].status = "approved"

(* The approved one that was reviewed last, if there is one. *)
LatestApproved(a) ==
    LET usable(b) == approval[b].action = "killswitch.activate" /\ Spendable(b)
    IN  \E i \in 1 .. Len(reviewed) :
           /\ reviewed[i] = a /\ usable(a)
           /\ \A j \in i + 1 .. Len(reviewed) : ~usable(reviewed[j])

FindApproval(h, a) ==
    /\ At(h, "idle") /\ LatestApproved(a)
    /\ Execute(h, [Waiting EXCEPT !.pc = "arm"])
    /\ UNCHANGED <<rowVars, keyVars, switchVars, mishaps>>

(* The switch is set before the approval is spent. *)
SetKillSwitch(h) ==
    /\ At(h, "arm")
    /\ \/ /\ killSwitch' = TRUE /\ frozen' = (frozen /\ killSwitch)
          /\ Goto(h, "find") /\ UNCHANGED faults
       \/ Fault /\ Finish(h) /\ UNCHANGED switchVars
    /\ UNCHANGED <<rowVars, keyVars, overlapped, cutShort>>

(* consumeApprovalByAction looks again; with nothing left the handler throws. *)
FindAgain(h) ==
    /\ At(h, "find")
    /\ \/ \E a \in Approvals : /\ LatestApproved(a)
                               /\ handler' = [handler EXCEPT ![h].pc = "spend",
                                                             ![h].approval = a]
       \/ (\A a \in Approvals : ~LatestApproved(a)) /\ Finish(h)
    /\ UNCHANGED <<rowVars, keyVars, switchVars, overlapped, mishaps>>

ConsumeForSwitch(h) ==
    LET a == handler[h].approval
    IN  /\ At(h, "spend") /\ StillApproved(a)
        /\ approval' = [approval EXCEPT ![a].status = "consumed"]
        /\ Goto(h, "freeze")
        /\ UNCHANGED <<reviewed, keyVars, switchVars, overlapped, mishaps>>

(* The two updates on contracts; what they meet there is in ContractLifecycle. *)
FreezeContracts(h) ==
    /\ At(h, "freeze")
    /\ \/ frozen' = TRUE /\ UNCHANGED faults
       \/ Fault /\ UNCHANGED frozen
    /\ Finish(h)
    /\ UNCHANGED <<rowVars, keyVars, killSwitch, overlapped, cutShort>>

DeactivateKillSwitch ==
    /\ killSwitch
    /\ killSwitch' = FALSE
    /\ UNCHANGED <<rowVars, keyVars, frozen, handler, overlapped, mishaps>>

-----------------------------------------------------------------------------
(* The server dies in a handler. *)
Die(h) ==
    /\ ~At(h, "idle")
    /\ Fault
    /\ cutShort' = (cutShort \/ handler[h].pc \in {"expire", "replace", "undo"})
    /\ Finish(h)
    /\ UNCHANGED <<rowVars, keyVars, switchVars, overlapped>>

ApprovalsNext ==
    \/ \E u \in Users, a \in Approvals, action \in Actions : RequestApproval(u, a, action)
    \/ \E h \in Handlers :
          \/ \E r \in Reviewers, a \in Approvals, v \in {"approve", "deny"} : Review(h, r, a, v)
          \/ Approve(h) \/ Deny(h) \/ AlreadyDecided(h)
          \/ \E a \in Approvals : ClaimRotation(h, a) \/ FindApproval(h, a)
          \/ ClaimInline(h) \/ ConsumeForRotation(h) \/ AlreadyConsumed(h)
          \/ ReadKeys(h) \/ InsertRotated(h)
          \/ \E k \in Keys : ExpireKey(h, k) \/ RotateOwnKey(h, k)
          \/ RetireKey(h) \/ ReplaceKey(h) \/ UndoRetire(h)
          \/ SetKillSwitch(h) \/ FindAgain(h) \/ ConsumeForSwitch(h) \/ FreezeContracts(h)
          \/ Die(h)
    \/ \E k \in Keys : GraceEnds(k)
    \/ DeactivateAgent \/ DeactivateKillSwitch

ApprovalsSpec == ApprovalsInit /\ [][ApprovalsNext]_approvalVars

-----------------------------------------------------------------------------
(* Properties *)

(* The types. *)
ApprovalsTypeOK ==
    /\ approval \in [Approvals -> ApprovalRow]
    /\ reviewed \in Seq(Approvals)
    /\ serviceKey \in [Keys -> KeyStates]
    /\ origin \in [Keys -> Approvals \cup {"direct", Nothing}]
    /\ handler \in [Handlers -> Job]
    /\ agentActive \in BOOLEAN /\ killSwitch \in BOOLEAN /\ frozen \in BOOLEAN
    /\ overlapped \in BOOLEAN /\ cutShort \in BOOLEAN
    /\ faults \in 0 .. MaxFaults

(* "Request already ...": of two reviewers only one decides, the decision and the
   name stand, and what was denied or spent is never used again. *)
DecisionsStand ==
    [][\A a \in Approvals :
         LET old == approval[a]
             new == approval'[a]
         IN  /\ old.status \in {"approved", "denied", "consumed"}
                  => new.reviewed_by = old.reviewed_by
             /\ old.status \in {"denied", "consumed"} => new.status = old.status
             /\ old.status = "approved" => new.status \in {"approved", "consumed"}
      ]_approval

(* "Atomically consume an approved request so it cannot be replayed": no approval
   gives more than one key, however many handlers execute it, and each key but
   the first comes from an approval that is spent or from the agent itself. *)
OneKeyPerApproval ==
    \A k \in Keys : origin[k] \in Approvals =>
        /\ approval[origin[k]].status = "consumed"
        /\ approval[origin[k]].action = "key.rotate"
        /\ \A j \in Keys \ {k} : origin[j] # origin[k]

(* Rotations never lock an agent out, however many overlap and whichever insert
   fails after the old key got its expiry: it has a key that works, unless one
   rotation was cut short where nothing undoes it. *)
NeverLockedOut ==
    agentActive /\ ~cutShort
        => \E k \in Keys : serviceKey[k] \in {"current", "grace"}

(* The switch is not left set over running contracts: only a handler that fails
   after setting it, or two executions at the same time, can do that. *)
SwitchIsFollowedThrough ==
    /\ killSwitch /\ ~frozen /\ faults = 0 /\ ~overlapped
    => \E h \in Handlers : handler[h].pc \in {"find", "spend", "freeze"}
=============================================================================
