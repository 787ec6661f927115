------------------------------ MODULE Reactor ------------------------------
(***************************************************************************)
(* The reactor of an agent: a webhook receiver that appends events to a    *)
(* queue file, and passes, woken by a webhook or by a periodic sweep, that *)
(* read the file, decide about each event and write back what they could   *)
(* not handle (src/reactor/a2a_reactor).                                   *)
(*                                                                         *)
(* The file is replaced by a rename, so a receiver that opened it before   *)
(* writes to a file that nobody will read.                                 *)
(***************************************************************************)
EXTENDS Naturals, Sequences, Functions

CONSTANTS
    Events,      \* the deliveries
    Undated,     \* those whose timestamp is absent or cannot be parsed
    Messages,    \* semantic keys: one message may come in several deliveries
    NoKey,       \* the semantic key of an event that is not a message
    Contracts,
    Contents,    \* what the deliveries may say
    Reactors,    \* the processes that may run a pass
    Nobody,
    MaxBreaks    \* bound on the passes that are interrupted

(* The end of a contract as its event tells it.  A legacy event has no
   `outcome` field. *)
Closures == [legacy : BOOLEAN,
             closed_by : {"system:completion-approved", "system:max-turns",
                          "system:expiry", "agent"},
             completion_approved_at : BOOLEAN,
             completion_requires_approval : BOOLEAN,
             closed_without_approval : BOOLEAN]

Kinds == {"actionable", "informational", "blocked", "closure"}

Deliveries == [key : Messages \cup {NoKey}, contract : Contracts,
               kind : Kinds, closure : Closures]

(* Deliveries of one message say the same, and only a message has a key. The
   platform closes a contract as approved only with its approval recorded, and
   never approves what was refused (GateHolds, OneVerdict). *)
ASSUME ReactorAssumption ==
    /\ NoKey \notin Messages /\ Nobody \notin Reactors
    /\ Undated \subseteq Events
    /\ Contents \subseteq [Events -> Deliveries]
    /\ \A c \in Contents : \A e, f \in Events :
          /\ c[e].key # NoKey /\ c[f].key = c[e].key
                => c[f] = c[e] /\ c[e].kind # "closure"
          /\ c[e].closure.closed_by = "system:completion-approved"
                => c[e].closure.completion_approved_at
          /\ c[e].closure.completion_approved_at
                => ~c[e].closure.closed_without_approval
    /\ MaxBreaks \in Nat

VARIABLES
    content,     \* what each delivery says
    queue,       \* the lines of the queue file
    delivery,    \* how far the receiver is with each delivery
    stale,       \* the deliveries older than max_age_hours
    lease,       \* who holds the lock file
    pass,        \* each reactor's pass
    tracked,     \* the contracts with an open item in the task tracker
    settled,     \* history: events that were handled, duplicates apart
    dropped,     \* history: events that were dropped as duplicates
    worked,      \* history: events a worker completed
    reworked,    \* history: events a worker completed more than once
    late,        \* history: events written behind the back of a pass
    breaks       \* history: the passes interrupted so far

vars == <<content, queue, delivery, stale, lease, pass, tracked,
          settled, dropped, worked, reworked, late, breaks>>
history == <<settled, dropped, worked, reworked, late, breaks>>

Idle == [pc |-> "idle", events |-> <<>>, seen |-> {}, retained |-> <<>>]

Passes == [pc : {"idle", "read", "drain", "release"}, events : Seq(Events),
           seen : SUBSET Messages, retained : Seq(Events)]

Init ==
    /\ content \in Contents
    /\ queue = <<>>
    /\ delivery = [e \in Events |-> "coming"]
    /\ stale = {}
    /\ lease = Nobody
    /\ pass = [r \in Reactors |-> Idle]
    /\ tracked = Contracts
    /\ settled = {} /\ dropped = {} /\ worked = {} /\ reworked = {} /\ late = {}
    /\ breaks = 0

Queued == Range(queue)
Draining(r) == pass[r].pc = "drain"

-----------------------------------------------------------------------------
(* closure.py *)

(* What the platform declares: resolveCloseOutcome of contract-closure.ts. *)
ResolveCloseOutcome(c) ==
    CASE c.closed_without_approval -> "closed-unapproved"
      [] c.closed_by = "system:completion-approved" -> "completed-approved"
      [] c.closed_by = "system:max-turns" /\ c.completion_approved_at -> "completed-approved"
      [] c.closed_by = "system:max-turns" -> "turns-exhausted"
      [] c.closed_by = "system:expiry" -> "expired"
      [] OTHER -> "closed-by-participant"

(* Mutant of InferredOutcome: it closed, so it was completed. *)
InferredCompleted(c) ==
    IF c.closed_by = "system:expiry" THEN "expired" ELSE "completed-approved"

(* What is inferred for an event from before the field. *)
InferredOutcome(c) ==
    CASE c.closed_by = "system:completion-approved" -> "completed-approved"
      [] c.closed_by = "system:max-turns" /\ c.completion_approved_at -> "completed-approved"
      [] c.closed_by = "system:max-turns" -> "turns-exhausted"
      [] c.closed_by = "system:expiry" -> "expired"
      [] c.completion_requires_approval /\ ~c.completion_approved_at -> "closed-unapproved"
      [] OTHER -> "closed-by-participant"

ReadCloseOutcome(c) ==
    IF c.legacy THEN InferredOutcome(c) ELSE ResolveCloseOutcome(c)

WorkWasAccepted(c) == ReadCloseOutcome(c) = "completed-approved"

-----------------------------------------------------------------------------
(* The receiver: append_event opens, writes and syncs; it takes no lease *)

OpenQueue(e) ==
    /\ delivery[e] = "coming"
    /\ delivery' = [delivery EXCEPT ![e] = "opened"]
    /\ UNCHANGED <<content, queue, stale, lease, pass, tracked, history>>

AppendEvent(e) ==
    /\ delivery[e] \in {"opened", "orphaned"}
    /\ delivery' = [delivery EXCEPT ![e] = "received"]
    /\ queue' = IF delivery[e] = "opened" THEN Append(queue, e) ELSE queue
    /\ late' = IF delivery[e] = "orphaned" \/ \E r \in Reactors : Draining(r)
               THEN late \cup {e} ELSE late
    /\ UNCHANGED <<content, stale, lease, pass, tracked, settled, dropped, worked, reworked, breaks>>

(* max_age_hours go by.  An event that cannot be dated is fresh for ever. *)
Age(e) ==
    /\ e \notin Undated \cup stale
    /\ stale' = stale \cup {e}
    /\ UNCHANGED <<content, queue, delivery, lease, pass, tracked, history>>

-----------------------------------------------------------------------------
(* triage_event *)

(* Mutant of Triage: a missing key is looked up like any other. *)
TriageAnyKey(e, seen) ==
    CASE content[e].key \in seen \cup {NoKey}  -> "duplicate"
      [] e \in stale                          -> "stale"
      [] OTHER                                -> "act"

(* Mutant of Triage: no event is too old. *)
TriageAnyAge(e, seen) == IF content[e].key \in seen THEN "duplicate" ELSE "act"

(* Duplicates first, then age, then what the event asks for. *)
Triage(e, seen) ==
    CASE content[e].key \in seen              -> "duplicate"
      [] e \in stale                          -> "stale"
      [] content[e].kind = "blocked"          -> "escalate"
      [] content[e].kind = "informational"    -> "record"
      [] OTHER                                -> "act"

(* Mutant of SeenAfter: events without a key share one. *)
SeenAfterAny(e, seen) == seen \cup {content[e].key}

(* The key counts as handled from the decision on, however the worker ends. *)
SeenAfter(e, seen) ==
    IF Triage(e, seen) \in {"escalate", "record", "act"} /\ content[e].key # NoKey
    THEN seen \cup {content[e].key} ELSE seen

-----------------------------------------------------------------------------
(* A pass: reactor_lease around drain *)

(* Mutant of LeaseFree: nobody asks for the lease. *)
LeaseUnasked == TRUE

(* LeaseBusy: a second reactor skips, which changes nothing. *)
LeaseFree == lease = Nobody

Wake(r) ==
    /\ pass[r].pc = "idle" /\ LeaseFree
    /\ lease' = r
    /\ pass' = [pass EXCEPT ![r].pc = "read"]
    /\ UNCHANGED <<content, queue, delivery, stale, tracked, history>>

ReadQueue(r) ==
    /\ pass[r].pc = "read"
    /\ pass' = [pass EXCEPT ![r].pc = "drain", ![r].events = queue]
    /\ UNCHANGED <<content, queue, delivery, stale, lease, tracked, history>>

Advance(r, handled) ==
    LET e == Head(pass[r].events)
    IN  pass' = [pass EXCEPT
            ![r].events = Tail(@),
            ![r].seen = SeenAfter(e, @),
            ![r].retained = IF handled THEN @ ELSE Append(@, e)]

(* The next event of the pass, and what triage says of it. *)
Facing(r, e, disposition) ==
    /\ Draining(r) /\ pass[r].events # <<>>
    /\ e = Head(pass[r].events)
    /\ Triage(e, pass[r].seen) = disposition

DropDuplicate(r, e) ==
    /\ Facing(r, e, "duplicate")
    /\ Advance(r, TRUE)
    /\ dropped' = dropped \cup {e}
    /\ UNCHANGED <<content, queue, delivery, stale, lease, tracked, settled, worked, reworked, late, breaks>>

(* Too old, for a person (the alert is sent), or only for the record. *)
SettleUnworked(r, e) ==
    /\ \E d \in {"stale", "escalate", "record"} : Facing(r, e, d)
    /\ Advance(r, TRUE)
    /\ settled' = settled \cup {e}
    /\ UNCHANGED <<content, queue, delivery, stale, lease, tracked, dropped, worked, reworked, late, breaks>>

(* A closure whose item could not be annotated or closed counts as handled. *)
ReconcileClosure(r, e) ==
    /\ Facing(r, e, "act") /\ content[e].kind = "closure"
    /\ Advance(r, TRUE)
    /\ \E annotated, closed \in BOOLEAN :
          tracked' = IF annotated /\ closed /\ WorkWasAccepted(content[e].closure)
                     THEN tracked \ {content[e].contract} ELSE tracked
    /\ settled' = settled \cup {e}
    /\ UNCHANGED <<content, queue, delivery, stale, lease, dropped, worked, reworked, late, breaks>>

(* Mutant of WorkerHandled: a worker that was started is enough. *)
WorkerStarted(outcome) == TRUE

WorkerHandled(outcome) == outcome # "failed"

(* The worker acts (or finds nothing to do), asks a person, or fails. *)
SpawnWorker(r, e) ==
    /\ Facing(r, e, "act") /\ content[e].kind # "closure"
    /\ \E outcome \in {"acted", "needs_human", "failed"} :
          /\ Advance(r, WorkerHandled(outcome))
          /\ settled' = IF outcome # "failed" THEN settled \cup {e} ELSE settled
          /\ worked' = IF outcome = "acted" THEN worked \cup {e} ELSE worked
          /\ reworked' = IF outcome = "acted" THEN reworked \cup (worked \cap {e})
                                              ELSE reworked
    /\ UNCHANGED <<content, queue, delivery, stale, lease, tracked, dropped, late, breaks>>

(* write_queue: the renamed file has no writer yet, the old one no reader. *)
WriteQueue(r) ==
    /\ Draining(r) /\ pass[r].events = <<>>
    /\ queue' = pass[r].retained
    /\ delivery' = [e \in Events |-> IF delivery[e] = "opened" THEN "orphaned"
                                                               ELSE delivery[e]]
    /\ pass' = [pass EXCEPT ![r] = [Idle EXCEPT !.pc = "release"]]
    /\ UNCHANGED <<content, stale, lease, tracked, history>>

Release(r) ==
    /\ pass[r].pc = "release"
    /\ lease' = Nobody
    /\ pass' = [pass EXCEPT ![r] = Idle]
    /\ UNCHANGED <<content, queue, delivery, stale, tracked, history>>

(* The process dies, or a worker, an alert, a tracker or the disk raises: the
   queue is as it was and the lock goes with the process or the with-block. *)
Interrupt(r) ==
    /\ pass[r].pc # "idle"
    /\ breaks < MaxBreaks
    /\ breaks' = breaks + 1
    /\ lease' = Nobody
    /\ pass' = [pass EXCEPT ![r] = Idle]
    /\ UNCHANGED <<content, queue, delivery, stale, tracked, settled, dropped, worked, reworked, late>>

Handle(r) == \E e \in Events : \/ DropDuplicate(r, e) \/ SettleUnworked(r, e)
                               \/ ReconcileClosure(r, e) \/ SpawnWorker(r, e)

Step(r) == Wake(r) \/ ReadQueue(r) \/ Handle(r) \/ WriteQueue(r) \/ Release(r)

Next == \/ \E e \in Events : OpenQueue(e) \/ AppendEvent(e) \/ Age(e)
        \/ \E r \in Reactors : Step(r) \/ Interrupt(r)

Spec == Init /\ [][Next]_vars

(* Time passes, which ages the events that have a date and no other, and something
   wakes the reactor again and again; a pass that is not interrupted goes on.
   Nothing is assumed of workers and receivers. *)
FairSpec ==
    /\ Spec
    /\ \A e \in Events \ Undated : WF_vars(Age(e))
    /\ WF_vars(\E r \in Reactors : Step(r))

-----------------------------------------------------------------------------
(* Properties *)

(* The types; a delivery is in the file only once it was written. *)
TypeOK ==
    /\ content \in Contents
    /\ queue \in Seq(Events)
    /\ delivery \in [Events -> {"coming", "opened", "orphaned", "received"}]
    /\ stale \subseteq Events
    /\ lease \in Reactors \cup {Nobody}
    /\ pass \in [Reactors -> Passes]
    /\ tracked \subseteq Contracts
    /\ settled \subseteq Events /\ dropped \subseteq Events /\ late \subseteq Events
    /\ worked \subseteq Events /\ reworked \subseteq worked
    /\ breaks \in 0 .. MaxBreaks
    /\ \A e \in Queued : delivery[e] = "received"

(* "The event is still here": an event the receiver wrote is handled or in the
   file, through crashes, failing workers and passes that are interrupted.  The
   exception is exact: only an event written while a pass stood between its
   reading and its rewriting can be missing. *)
LostOnlyBehindAPass ==
    \A e \in Events : delivery[e] = "received"
        => e \in settled \cup dropped \cup Queued \cup late

(* Dropping a redelivery never loses its message: a delivery of it was handled
   for good, or is still in the file because its worker failed. *)
MessageKept ==
    \A e \in dropped : \E f \in Events :
        content[f].key = content[e].key /\ (f \in settled \/ f \in Queued)

(* The reason for the lease: a worker that completed an event is not started for
   it again, by a second reactor or a later pass, unless a pass was interrupted
   before it wrote the file. *)
WorkedAgainOnlyAfterBreak == reworked # {} => breaks > 0

(* Only an accepted outcome closes tracked work: the item of a contract is closed
   only when an event said so of it and the approval was recorded. *)
ClosedOnlyWhenApproved ==
    \A c \in Contracts \ tracked : \E e \in settled :
        /\ content[e].contract = c /\ content[e].kind = "closure"
        /\ content[e].closure.completion_approved_at

(* What is_stale gives up for the sake of work it cannot date (events.py:95): an
   undated event for a worker is retried in every pass, for ever if they all fail. *)
RetriedForEver(e) == e \in Undated /\ content[e].kind = "actionable"

(* No other event stays for ever.  A dated one whose worker always fails is retried
   until it is too old, and an undated one that needs no worker is settled. *)
QueueDrains ==
    \A e \in Events : (e \in Queued /\ ~RetriedForEver(e)) ~> (e \notin Queued)
=============================================================================
