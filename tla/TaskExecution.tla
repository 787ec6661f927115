--------------------------- MODULE TaskExecution ---------------------------
(***************************************************************************)
(* One task, its execution runs and their checkpoints, and everything that *)
(* writes them: the run and checkpoint routes, the task's PATCH (handoff,  *)
(* escalation and status change), the acceptance of a handoff or broker    *)
(* contract, and the sweep that reaps silent runs.                         *)
(*                                                                         *)
(* src/src/lib/task-execution.ts writes a run and then copies it onto the  *)
(* task in a second statement.  A handler is a slot (req[r]) that holds    *)
(* where it stands and what it read; between two of its statements any     *)
(* other handler may run.  append_task_checkpoint_atomic and               *)
(* reap_stale_execution_runs lock the rows they write: one step each.      *)
(***************************************************************************)
EXTENDS Naturals, Sequences, FiniteSets

CONSTANTS
    Requests,        \* slots for handlers in flight: a bound on concurrency
    Keys,            \* checkpoint keys: a run takes each one once
    BrokerKey,       \* 'broker-engaged', which an agent may use as well
    BrokerSequence,  \* 999999
    MaxRuns          \* bound on the runs ever inserted

ASSUME ExecutionAssumption ==
    /\ BrokerKey \in Keys
    /\ BrokerSequence \in Nat \ {0}
    /\ MaxRuns \in Nat

VARIABLES
    active_run_id,   \* tasks.active_run_id
    run,             \* task_execution_runs, in the order of their creation
    checkpoints,     \* task_execution_checkpoints
    req              \* the handlers in flight

vars == <<active_run_id, run, checkpoints, req>>

-----------------------------------------------------------------------------
(* Types *)

NoRun == 0
RunIds == 1..Len(run)

(* The eleven statuses as the code tells them apart: 'queued' writes no
   heartbeat, 'succeeded', 'failed' and 'cancelled' end the run, and every
   other status is a running one. *)
RunStatuses == {"queued", "running", "ended"}

(* COALESCE(heartbeat_at, started_at, created_at), the reaper's clock: the
   column it falls on, and whether that is older than the cutoff. *)
ClockColumns == {"created", "started", "heartbeat"}

RunRow == [status : RunStatuses,
           checkpoint_count : Nat,
           summary : BOOLEAN,       \* the run has a summary
           since : ClockColumns,
           silent : BOOLEAN]

(* UNIQUE (run_id, sequence) and UNIQUE (run_id, checkpoint_key) *)
Checkpoint == [run : RunIds, sequence : Nat, key : Keys]

Live(row) == row.status # "ended"

Ops == {"start", "patch", "checkpoint", "handoff", "escalate", "status",
        "claim", "broker"}

(* "choose" stands between the reads of the task and of its runs. *)
Positions == {"idle", "reload", "choose", "update", "sync-updated", "insert",
              "sync-inserted", "append", "reread", "sync-appended",
              "broker-beat", "broker-insert"}

(* The positions at which a handler has the run it works on. *)
OnRun == {"update", "sync-updated", "sync-inserted", "append", "reread",
          "sync-appended", "broker-beat", "broker-insert"}

Request == [pc : Positions, op : Ops,
            run : 0..Len(run),    \* the run it works on
            seen : 0..Len(run),   \* tasks.active_run_id as it last read it
            old : 0..Len(run),    \* as it read it first (oldTask)
            beat : BOOLEAN,       \* the body says heartbeat
            held : 0..Len(run)]   \* what it will write to active_run_id

Idle == [pc |-> "idle", op |-> "start", run |-> NoRun, seen |-> NoRun,
         old |-> NoRun, beat |-> FALSE, held |-> NoRun]

Init ==
    /\ active_run_id = NoRun
    /\ run = <<>>
    /\ checkpoints = {}
    /\ req = [r \in Requests |-> Idle]

-----------------------------------------------------------------------------
(* Rows *)

(* createTaskExecutionRun: heartbeat_at for a running status, started_at for
   any but 'queued'. *)
NewRun(status, summary) ==
    [status |-> status, checkpoint_count |-> 0, summary |-> summary,
     since |-> CASE status = "queued" -> "created"
                 [] status = "running" -> "heartbeat"
                 [] status = "ended" -> "started",
     silent |-> FALSE]

Beaten(row) == [row EXCEPT !.since = "heartbeat", !.silent = FALSE]

(* updateTaskExecutionRun.  There is no guard on the status the run has: a
   write can bring an ended run back.  A first status other than 'queued'
   sets started_at, which moves the clock of a run that never sent a beat. *)
UpdatedRun(row, status, summary, beat) ==
    LET starts == status \in {"running", "ended"} /\ row.since = "created"
        written == [row EXCEPT
            !.status = IF status = "keep" THEN row.status ELSE status,
            !.summary = IF summary = "keep" THEN row.summary
                                            ELSE summary = "set",
            !.since = IF starts THEN "started" ELSE row.since,
            !.silent = row.silent /\ ~starts]
    IN IF beat \/ status = "running" THEN Beaten(written) ELSE written

CheckpointsOf(i) == {c \in checkpoints : c.run = i}

(* Mutant of NextSequence: counted from the rows. *)
SequenceFromRows(i) == Cardinality(CheckpointsOf(i)) + 1

NextSequence(i) == run[i].checkpoint_count + 1

(* Both unique constraints of the table. *)
Fits(c) == \A d \in CheckpointsOf(c.run) :
               d.sequence # c.sequence /\ d.key # c.key

(* Mutant of AcceptsCheckpoint: the route's check on its snapshot is enough. *)
AcceptsAnyTime(i) == i \in RunIds

(* append_task_checkpoint_atomic, under the row lock *)
AcceptsCheckpoint(i) == Live(run[i])

(* The routine writes the summary when p_summary_provided; appendTaskCheckpoint
   computes that as `input.summary !== undefined`, but the route passes
   `parsed.summary ?? null`, so it is always provided. *)
SummaryAfterAppend(i, given) == given

(* Mutant of ReaperClock: silence is judged from heartbeats alone. *)
HeartbeatClock(row) == row.silent /\ row.since = "heartbeat"

ReaperClock(row) == row.silent

LiveRuns == {i \in RunIds : Live(run[i])}
StaleRuns == {i \in LiveRuns : ReaperClock(run[i])}

-----------------------------------------------------------------------------
(* Moving a handler *)

Finish(r) == req' = [req EXCEPT ![r] = Idle]

Go(r, pc) ==
    IF pc = "idle" THEN Finish(r)
    ELSE req' = [req EXCEPT ![r] =
                   [req[r] EXCEPT !.pc = pc, !.beat = FALSE, !.held = NoRun]]

GoOn(r, pc, i) ==
    req' = [req EXCEPT ![r] =
              [req[r] EXCEPT !.pc = pc, !.run = i, !.beat = FALSE,
                             !.held = NoRun]]

AfterUpdate(op) == CASE op = "claim" -> "insert"
                     [] op \in {"handoff", "escalate", "status"} -> "append"
                     [] OTHER -> "idle"

AfterInsert(op) == IF op = "start" THEN "idle" ELSE "append"

(* One PATCH of a task may propose a handoff, then an escalation, then change
   the status; its errors on the way are swallowed. *)
Follow(op) == CASE op = "handoff" -> {"escalate", "status"}
                [] op = "escalate" -> {"status"}
                [] OTHER -> {}

Continue(r) ==
    \/ Finish(r)
    \/ \E op \in Follow(req[r].op) :
         req' = [req EXCEPT ![r] =
                   [req[r] EXCEPT !.pc = "choose", !.op = op, !.run = NoRun,
                                  !.beat = FALSE, !.held = NoRun]]

Begin(r, op, pc, i, seen, beat) ==
    /\ req[r].pc = "idle"
    /\ req' = [req EXCEPT ![r] = [Idle EXCEPT !.op = op, !.pc = pc, !.run = i,
                                              !.seen = seen, !.beat = beat]]
    /\ UNCHANGED <<active_run_id, run, checkpoints>>

-----------------------------------------------------------------------------
(* The first read of each handler, with the checks made on it *)

(* POST runs: refused while the task has an active run. *)
PostRun(r) ==
    /\ active_run_id = NoRun
    /\ Begin(r, "start", "insert", NoRun, NoRun, FALSE)

(* PATCH runs/[rid]: only a heartbeat is refused on an ended run. *)
PatchRun(r) ==
    \E i \in RunIds, beat \in BOOLEAN :
        /\ beat => Live(run[i])
        /\ Begin(r, "patch", "update", i, NoRun, beat)

(* POST checkpoints: refused on an ended run. *)
PostCheckpoint(r) ==
    \E i \in RunIds :
        /\ Live(run[i])
        /\ Begin(r, "checkpoint", "append", i, NoRun, FALSE)

(* PATCH tasks/[tid] reads the task here (oldTask) and again in Reload. *)
PatchTask(r) ==
    /\ req[r].pc = "idle"
    /\ \E op \in {"handoff", "escalate", "status"} :
         req' = [req EXCEPT ![r] = [Idle EXCEPT !.op = op, !.pc = "reload",
                                                !.old = active_run_id]]
    /\ UNCHANGED <<active_run_id, run, checkpoints>>

(* claimAcceptedHandoff: the old run is marked only when it is somebody
   else's; in either case a new one follows. *)
ClaimHandoff(r) ==
    \/ Begin(r, "claim", "insert", NoRun, active_run_id, FALSE)
    \/ /\ active_run_id # NoRun
       /\ Begin(r, "claim", "update", active_run_id, active_run_id, FALSE)

(* The accept route on an escalation contract. *)
EngageBroker(r) ==
    /\ active_run_id # NoRun
    /\ Begin(r, "broker", "broker-beat", active_run_id, NoRun, FALSE)

-----------------------------------------------------------------------------
(* The statements that follow *)

(* The UPDATE of the task returns it. *)
Reload(r) ==
    /\ req[r].pc = "reload"
    /\ req' = [req EXCEPT ![r] =
                 [req[r] EXCEPT !.pc = "choose", !.seen = active_run_id,
                                !.old = IF active_run_id = NoRun
                                          THEN req[r].old ELSE NoRun]]
    /\ UNCHANGED <<active_run_id, run, checkpoints>>

(* The run a proposal is recorded on: `runs[0]` when the task has none, which
   may have ended long ago. *)
ProposalRun(q) == IF q.seen # NoRun THEN q.seen ELSE Len(run)

(* The run a change of the task's status is recorded on: the one the task
   names, or named before, or the latest live one. *)
StatusRuns(q) ==
    IF q.seen # NoRun THEN {q.seen}
    ELSE IF q.old # NoRun THEN {q.old}
    ELSE IF LiveRuns = {} THEN {NoRun}
    ELSE {i \in LiveRuns : \A j \in LiveRuns : j <= i}

(* listTaskExecutionRuns, and what the PATCH of the task does with the run. *)
ChooseProposal(r) ==
    LET i == ProposalRun(req[r]) IN
    /\ req[r].pc = "choose"
    /\ req[r].op \in {"handoff", "escalate"}
    /\ IF i = NoRun THEN Continue(r) ELSE GoOn(r, "update", i)
    /\ UNCHANGED <<active_run_id, run, checkpoints>>

(* Mutant of ChooseForStatus: a checkpoint is appended with no run found. *)
ChooseForStatusUnchecked(r) ==
    /\ req[r].pc = "choose"
    /\ req[r].op = "status"
    /\ \E i \in StatusRuns(req[r]), pc \in {"update", "insert", "append"} :
         GoOn(r, pc, i)
    /\ UNCHANGED <<active_run_id, run, checkpoints>>

ChooseForStatus(r) ==
    /\ req[r].pc = "choose"
    /\ req[r].op = "status"
    /\ \E i \in StatusRuns(req[r]) :
         \/ i # NoRun /\ GoOn(r, "append", i)
         \/ i \in LiveRuns /\ GoOn(r, "update", i)
         \/ GoOn(r, "insert", NoRun)     \* i ended, or the runs were not read
         \/ i = NoRun /\ Finish(r)
    /\ UNCHANGED <<active_run_id, run, checkpoints>>

(* What an update writes: a PATCH of the run whatever its body says, a
   proposal or a claim 'handoff-needed' or 'blocked', a change of the task's
   status the status it maps to. *)
StatusWrites(op) == CASE op = "patch" -> {"keep"} \cup RunStatuses
                      [] op = "status" -> {"running", "ended"}
                      [] OTHER -> {"running"}
SummaryWrites(op) == IF op = "patch" THEN {"keep", "set", "clear"} ELSE {"set"}

(* updateTaskExecutionRun, its UPDATE; the row it returns decides the pointer. *)
UpdateRun(r) ==
    LET q == req[r] IN
    /\ q.pc = "update"
    /\ \E status \in StatusWrites(q.op), summary \in SummaryWrites(q.op) :
         LET row == UpdatedRun(run[q.run], status, summary, q.beat) IN
         /\ run' = [run EXCEPT ![q.run] = row]
         /\ req' = [req EXCEPT ![r] =
                      [q EXCEPT !.pc = "sync-updated", !.beat = FALSE,
                                !.held = IF Live(row) THEN q.run ELSE NoRun]]
    /\ UNCHANGED <<active_run_id, checkpoints>>

SyncUpdated(r) ==
    /\ req[r].pc = "sync-updated"
    /\ active_run_id' = req[r].held
    /\ Go(r, AfterUpdate(req[r].op))
    /\ UNCHANGED <<run, checkpoints>>

(* createTaskExecutionRun, its INSERT *)
InsertRun(r) ==
    /\ req[r].pc = "insert"
    /\ Len(run) < MaxRuns
    /\ \E status \in RunStatuses, summary \in BOOLEAN :
         /\ req[r].op # "start" => status = "running" /\ summary
         /\ run' = Append(run, NewRun(status, summary))
    /\ GoOn(r, "sync-inserted", Len(run) + 1)
    /\ UNCHANGED <<active_run_id, checkpoints>>

(* The new run becomes the active one whatever its status. *)
SyncInserted(r) ==
    /\ req[r].pc = "sync-inserted"
    /\ active_run_id' = req[r].run
    /\ Go(r, AfterInsert(req[r].op))
    /\ UNCHANGED <<run, checkpoints>>

(* appendTaskCheckpoint, its RPC; a refusal is a 409 or a 400 to the agent and
   nothing to the other callers. *)
AppendCheckpoint(r) ==
    LET i == req[r].run IN
    /\ req[r].pc = "append"
    /\ \E key \in Keys, given \in BOOLEAN :
         LET c == [run |-> i, sequence |-> NextSequence(i), key |-> key] IN
         /\ req[r].op # "checkpoint" => given
         /\ AcceptsCheckpoint(i)
         /\ Fits(c)
         /\ checkpoints' = checkpoints \cup {c}
         /\ run' = [run EXCEPT ![i] =
                      [Beaten(run[i]) EXCEPT
                         !.checkpoint_count = c.sequence,
                         !.summary = SummaryAfterAppend(i, given)]]
    /\ Go(r, "reread")
    /\ UNCHANGED active_run_id

AppendRefused(r) ==
    LET i == req[r].run IN
    /\ req[r].pc = "append"
    /\ \/ ~AcceptsCheckpoint(i)
       \/ \E key \in Keys : ~Fits([run |-> i, sequence |-> NextSequence(i),
                                   key |-> key])
    /\ Continue(r)
    /\ UNCHANGED <<active_run_id, run, checkpoints>>

(* appendTaskCheckpoint reads the run again and points the task at it whatever
   its status is by then. *)
RereadRun(r) ==
    /\ req[r].pc = "reread"
    /\ Go(r, "sync-appended")
    /\ UNCHANGED <<active_run_id, run, checkpoints>>

SyncAppended(r) ==
    /\ req[r].pc = "sync-appended"
    /\ active_run_id' = req[r].run
    /\ Continue(r)
    /\ UNCHANGED <<run, checkpoints>>

(* The broker's two writes, outside the locked append; both ignore errors. *)
BrokerBeat(r) ==
    LET i == req[r].run IN
    /\ req[r].pc = "broker-beat"
    /\ run' = [run EXCEPT ![i] = Beaten(run[i])]
    /\ Go(r, "broker-insert")
    /\ UNCHANGED <<active_run_id, checkpoints>>

BrokerInsert(r) ==
    LET c == [run |-> req[r].run, sequence |-> BrokerSequence,
              key |-> BrokerKey]
    IN
    /\ req[r].pc = "broker-insert"
    /\ checkpoints' = IF Fits(c) THEN checkpoints \cup {c} ELSE checkpoints
    /\ Finish(r)
    /\ UNCHANGED <<active_run_id, run>>

(* A statement fails and the caller swallows the error and goes on. *)
FailureSwallowed(r) ==
    LET q == req[r] IN
    /\ \/ /\ q.pc \in {"update", "sync-updated"}
          /\ AfterUpdate(q.op) # "idle"
          /\ Go(r, AfterUpdate(q.op))
       \/ q.pc \in {"choose", "append", "reread", "sync-appended"} /\ Continue(r)
       \/ q.pc = "broker-beat" /\ Go(r, "broker-insert")
    /\ UNCHANGED <<active_run_id, run, checkpoints>>

(* A handler dies, or an error ends it: what it wrote stays. *)
Abort(r) ==
    /\ req[r].pc # "idle"
    /\ Finish(r)
    /\ UNCHANGED <<active_run_id, run, checkpoints>>

-----------------------------------------------------------------------------
(* The reaper *)

(* Fifteen minutes without a write to the columns of the clock. *)
Silence(i) ==
    /\ ~run[i].silent
    /\ run' = [run EXCEPT ![i].silent = TRUE]
    /\ UNCHANGED <<active_run_id, checkpoints, req>>

(* reap_stale_execution_runs: rows that are locked just then are skipped until
   the next sweep.  Both updates are one transaction. *)
ReapRuns(stale) ==
    /\ stale # {}
    /\ run' = [i \in RunIds |->
                 IF i \in stale THEN [run[i] EXCEPT !.status = "ended"]
                                ELSE run[i]]
    /\ active_run_id' = IF active_run_id \in stale THEN NoRun
                                                   ELSE active_run_id
    /\ UNCHANGED <<checkpoints, req>>

Handle(r) ==
    \/ PostRun(r) \/ PatchRun(r) \/ PostCheckpoint(r) \/ PatchTask(r)
    \/ ClaimHandoff(r) \/ EngageBroker(r)
    \/ Reload(r) \/ ChooseProposal(r) \/ ChooseForStatus(r)
    \/ UpdateRun(r) \/ SyncUpdated(r) \/ InsertRun(r) \/ SyncInserted(r)
    \/ AppendCheckpoint(r) \/ AppendRefused(r) \/ RereadRun(r)
    \/ SyncAppended(r) \/ BrokerBeat(r) \/ BrokerInsert(r)
    \/ FailureSwallowed(r) \/ Abort(r)

Next == \/ \E r \in Requests : Handle(r)
        \/ \E i \in RunIds : Silence(i)
        \/ \E stale \in SUBSET StaleRuns : ReapRuns(stale)

Spec == Init /\ [][Next]_vars

(* The sweep's container runs it in a loop and is restarted when it dies, and
   a row is locked for one statement only: a run that stays stale is reaped.
   No handler is promised anything. *)
FairSpec == Spec /\ WF_vars(ReapRuns(StaleRuns))

-----------------------------------------------------------------------------
(* Properties *)

(* Types; every pointer names a run that exists, and a handler past its reads
   has a run to work on. *)
TypeOK ==
    /\ run \in Seq(RunRow)
    /\ active_run_id \in 0..Len(run)
    /\ checkpoints \subseteq Checkpoint
    /\ req \in [Requests -> Request]
    /\ \A r \in Requests : req[r].pc \in OnRun => req[r].run # NoRun

(* The checkpoints of a run are numbered without gaps up to its counter, apart
   from the broker's: whatever else writes the table, the number the next
   append allocates is free, short of the broker's.  A run whose counter and
   rows disagree could never take a checkpoint again
   (append_task_checkpoint_atomic). *)
CheckpointsNumbered ==
    \A i \in RunIds :
        /\ \A n \in 1..run[i].checkpoint_count :
             \E c \in CheckpointsOf(i) : c.sequence = n
        /\ \A c \in CheckpointsOf(i) :
             c.sequence \in 1..run[i].checkpoint_count \cup {BrokerSequence}

TakesNoCheckpoint ==
    \A c \in checkpoints' \ checkpoints :
        c.sequence # BrokerSequence => run[c.run].status # "ended"

(* A run that ended takes no checkpoint, although every caller of the append
   looked at the run earlier, or not at all (append_task_checkpoint_atomic);
   the broker's is written past the lock and is not covered. *)
EndedRunsTakeNoCheckpoint == [][TakesNoCheckpoint]_vars

(* A run that stays silent, even one that never sent a heartbeat, does not
   stay live: it is reaped again after every write that brought it back
   without a sign of life (reap_stale_execution_runs). *)
SilentRunsEnd ==
    \A i \in 1..MaxRuns :
        <>[](i \in RunIds /\ run[i].silent) =>
            []<>(i \in RunIds /\ ~Live(run[i]))

LosesSummary(i) == i \in RunIds /\ run[i].summary /\ ~run'[i].summary

(* A run loses its summary only to a PATCH of the run; "A checkpoint without a
   summary must not erase the run's"
   (20260917200000_atomic_checkpoint_append.sql:77). *)
SummaryKept ==
    [][\A i \in 1..MaxRuns : LosesSummary(i) =>
          \E r \in Requests : /\ req[r].pc = "update"
                              /\ req[r].op = "patch"
                              /\ req[r].run = i]_vars

(* Once no handler is in flight, a task is held only by a run that is live and
   so can still be ended or reaped (scripts/stale-run-sweep.ts:8, "that task
   could never start another run. This closes both halves."). *)
TaskHeldByLiveRun ==
    (\A r \in Requests : req[r].pc = "idle") =>
        active_run_id = NoRun \/ Live(run[active_run_id])
=============================================================================
