------------------------ MODULE TaskExecution_proofs ------------------------
(***************************************************************************)
(* The checkpoints of TaskExecution, the summaries of its runs and the     *)
(* pointer of its task, for any number of runs, handlers and keys.         *)
(***************************************************************************)
EXTENDS TaskExecution, SequenceTheorems, TLAPS

(* The inductive invariant *)
IInv == TypeOK /\ CheckpointsNumbered

-----------------------------------------------------------------------------
(* Rows *)

(* A heartbeat touches the clock alone. *)
LEMMA BeatenType ==
    ASSUME NEW row \in RunRow
    PROVE  /\ Beaten(row) \in RunRow
           /\ Beaten(row).checkpoint_count = row.checkpoint_count
           /\ Beaten(row).status = row.status
  BY DEF Beaten, RunRow, ClockColumns

(* Every write of a run gives a row of the table. *)
LEMMA RowTypes ==
    ASSUME NEW row \in RunRow, NEW status \in {"keep"} \cup RunStatuses,
           NEW summary \in {"keep", "set", "clear"}, NEW beat \in BOOLEAN
    PROVE  /\ UpdatedRun(row, status, summary, beat) \in RunRow
           /\ UpdatedRun(row, status, summary, beat).checkpoint_count =
                 row.checkpoint_count
<1> DEFINE starts == status \in {"running", "ended"} /\ row.since = "created"
           s == IF status = "keep" THEN row.status ELSE status
           m == IF summary = "keep" THEN row.summary ELSE summary = "set"
           c == IF starts THEN "started" ELSE row.since
           q == row.silent /\ ~starts
           written == [row EXCEPT !.status = s, !.summary = m, !.since = c,
                                  !.silent = q]
<1>2. s \in RunStatuses /\ m \in BOOLEAN /\ c \in ClockColumns /\ q \in BOOLEAN
  BY DEF RunRow, ClockColumns
<1> HIDE DEF s, m, c, q
<1>3. written \in RunRow /\ written.checkpoint_count = row.checkpoint_count
  BY <1>2 DEF RunRow
<1>4. UpdatedRun(row, status, summary, beat) =
        IF beat \/ status = "running" THEN Beaten(written) ELSE written
  BY Zenon DEF UpdatedRun, s, m, c, q
<1> QED
  BY <1>3, <1>4, BeatenType

(* What an append writes is a row with the number it took. *)
LEMMA CountedType ==
    ASSUME NEW row \in RunRow, NEW n \in Nat, NEW given \in BOOLEAN
    PROVE  /\ [row EXCEPT !.checkpoint_count = n, !.summary = given] \in RunRow
           /\ [row EXCEPT !.checkpoint_count = n,
                           !.summary = given].checkpoint_count = n
  BY DEF RunRow

(* A new run is a row of the table and has no checkpoint. *)
LEMMA NewRunType ==
    ASSUME NEW status \in RunStatuses, NEW summary \in BOOLEAN
    PROVE  /\ NewRun(status, summary) \in RunRow
           /\ NewRun(status, summary).checkpoint_count = 0
  BY DEF NewRun, RunRow, RunStatuses, ClockColumns

-----------------------------------------------------------------------------
(* The handlers *)

(* The rows may only become more: what a handler holds stays a run. *)
Grows == Len(run') \in Nat /\ Len(run') >= Len(run)

(* One handler moves and the others keep what they hold. *)
LEMMA OneSlot ==
    ASSUME TypeOK, Grows, NEW r \in Requests, NEW STATE q,
           q \in Request', q.pc \in OnRun => q.run # NoRun,
           req' = [req EXCEPT ![r] = q]
    PROVE  /\ req' \in [Requests -> Request']
           /\ \A s \in Requests : req'[s].pc \in OnRun => req'[s].run # NoRun
<1>1. Len(run) \in Nat
  BY LenProperties DEF TypeOK
<1>2. \A s \in Requests : req[s] \in Request'
  <2>1. 0..Len(run) \subseteq 0..Len(run')
    BY <1>1 DEF Grows
  <2>2. \A s \in Requests : req[s] \in Request
    BY DEF TypeOK
  <2> QED
    BY ONLY <2>1, <2>2 DEF Request
<1>3. /\ req \in [Requests -> Request]
      /\ \A s \in Requests : req[s].pc \in OnRun => req[s].run # NoRun
  BY DEF TypeOK
<1>4. \A s \in Requests : req'[s] = IF s = r THEN q ELSE req[s]
  BY <1>3
<1>5. req' \in [Requests -> Request']
  BY ONLY <1>2, <1>3, q \in Request', req' = [req EXCEPT ![r] = q]
<1> QED
  BY <1>3, <1>4, <1>5

(* The handlers keep their type in every move. *)
SlotsTyped ==
    /\ req' \in [Requests -> Request']
    /\ \A s \in Requests : req'[s].pc \in OnRun => req'[s].run # NoRun

LEMMA FinishTyped ==
    ASSUME TypeOK, Grows, NEW r \in Requests, Finish(r)
    PROVE  SlotsTyped
<1>1. Idle \in Request' /\ Idle.pc \notin OnRun
  BY DEF Idle, Request, Positions, Ops, NoRun, OnRun, Grows
<1> QED
  BY <1>1, OneSlot DEF Finish, SlotsTyped

(* What a handler holds before it moves. *)
HeldFields(q) ==
    /\ q.pc \in Positions /\ q.op \in Ops /\ q.beat \in BOOLEAN
    /\ q.run \in 0..Len(run') /\ q.seen \in 0..Len(run')
    /\ q.old \in 0..Len(run') /\ q.held \in 0..Len(run')

LEMMA SlotFields ==
    ASSUME TypeOK, Grows, NEW r \in Requests
    PROVE  /\ HeldFields(req[r])
           /\ req[r].pc \in OnRun => req[r].run \in RunIds /\ req[r].run # NoRun
           /\ req[r] \in Request'
           /\ req[r].seen \in 0..Len(run)
           /\ req[r].old \in 0..Len(run)
           /\ req[r].held \in 0..Len(run)
<1>1. Len(run) \in Nat
  BY LenProperties DEF TypeOK
<1>2. req[r] \in Request /\ (req[r].pc \in OnRun => req[r].run # NoRun)
  BY DEF TypeOK
<1> QED
  BY <1>1, <1>2 DEF Request, Grows, NoRun, RunIds, HeldFields

(* The type of a handler survives new runs, and it may hold no run. *)
LEMMA SlotKept ==
    ASSUME TypeOK, Grows, NEW r \in Requests
    PROVE  req[r] \in Request' /\ NoRun \in 0..Len(run')
  BY SlotFields DEF NoRun, Grows

(* Go keeps the run of the handler. *)
LEMMA GoTyped ==
    ASSUME TypeOK, Grows, NEW r \in Requests, NEW pc \in Positions, Go(r, pc),
           pc \in OnRun => req[r].pc \in OnRun
    PROVE  SlotsTyped
<1>1. CASE pc = "idle"
  BY <1>1, FinishTyped DEF Go
<1>2. CASE pc # "idle"
  <2> DEFINE w == [req[r] EXCEPT !.pc = pc, !.beat = FALSE, !.held = NoRun]
  <2>1. w \in Request'
    BY SlotKept DEF Request
  <2>2. w.pc \in OnRun => w.run # NoRun
    BY SlotFields DEF Request, TypeOK
  <2>3. req' = [req EXCEPT ![r] = w]
    BY <1>2 DEF Go
  <2> QED
    BY <2>1, <2>2, <2>3, OneSlot DEF SlotsTyped
<1> QED
  BY <1>1, <1>2

(* GoOn gives the handler a run. *)
LEMMA GoOnTyped ==
    ASSUME TypeOK, Grows, NEW r \in Requests, NEW pc \in Positions,
           NEW STATE i, i \in 0..Len(run'), GoOn(r, pc, i), pc \in OnRun => i # NoRun
    PROVE  SlotsTyped
<1> DEFINE w == [req[r] EXCEPT !.pc = pc, !.run = i, !.beat = FALSE,
                               !.held = NoRun]
<1>1. w \in Request'
  BY SlotKept DEF Request
<1>2. w.pc \in OnRun => w.run # NoRun
  BY SlotFields DEF Request, TypeOK
<1>3. req' = [req EXCEPT ![r] = w]
  BY DEF GoOn
<1> QED
  BY <1>1, <1>2, <1>3, OneSlot DEF SlotsTyped

(* Continue ends the handler or sends it to the next part of its PATCH. *)
LEMMA ContinueTyped ==
    ASSUME TypeOK, Grows, NEW r \in Requests, Continue(r)
    PROVE  SlotsTyped
<1>1. CASE Finish(r)
  BY <1>1, FinishTyped
<1>2. ASSUME NEW op \in Follow(req[r].op),
             req' = [req EXCEPT ![r] =
                       [req[r] EXCEPT !.pc = "choose", !.op = op, !.run = NoRun,
                                      !.beat = FALSE, !.held = NoRun]]
      PROVE  SlotsTyped
  <2> DEFINE w == [req[r] EXCEPT !.pc = "choose", !.op = op, !.run = NoRun,
                                 !.beat = FALSE, !.held = NoRun]
  <2>1. op \in Ops
    BY <1>2 DEF Follow, Ops
  <2>2. w \in Request'
    BY <2>1, SlotKept DEF Request, Positions
  <2>3. w.pc \notin OnRun
    BY DEF OnRun, TypeOK, Request
  <2> QED
    BY <1>2, <2>2, <2>3, OneSlot DEF SlotsTyped
<1> QED
  BY <1>1, <1>2 DEF Continue

-----------------------------------------------------------------------------
(* What a step does to the runs *)

(* A step that leaves the runs alone keeps what every handler holds. *)
LEMMA RunsUnchanged ==
    ASSUME TypeOK, run' = run
    PROVE  /\ Grows
           /\ run' \in Seq(RunRow)
           /\ Len(run') = Len(run)
  BY LenProperties DEF TypeOK, Grows

(* One run is written. *)
LEMMA RunWritten ==
    ASSUME TypeOK, NEW STATE i, i \in RunIds, NEW STATE row, row \in RunRow,
           run' = [run EXCEPT ![i] = row]
    PROVE  /\ Grows
           /\ run' \in Seq(RunRow)
           /\ Len(run') = Len(run)
           /\ \A j \in RunIds : run'[j] = IF j = i THEN row ELSE run[j]
<1>1. Len(run) \in Nat
  BY LenProperties DEF TypeOK
<1> QED
  BY <1>1, ExceptSeq DEF TypeOK, Grows, RunIds

(* One run is inserted. *)
LEMMA RunInserted ==
    ASSUME TypeOK, NEW row \in RunRow, run' = Append(run, row)
    PROVE  /\ Grows
           /\ run' \in Seq(RunRow)
           /\ Len(run') = Len(run) + 1
           /\ \A j \in RunIds : run'[j] = run[j]
           /\ run'[Len(run) + 1] = row
<1>1. Len(run) \in Nat
  BY LenProperties DEF TypeOK
<1> QED
  BY <1>1, AppendProperties DEF TypeOK, Grows, RunIds

(* The reaper ends runs and adds none. *)
LEMMA RunsReaped ==
    ASSUME TypeOK, NEW stale \in SUBSET StaleRuns, ReapRuns(stale)
    PROVE  /\ Grows
           /\ run' \in Seq(RunRow)
           /\ Len(run') = Len(run)
           /\ \A j \in RunIds : /\ run'[j] \in RunRow
                                /\ run'[j].checkpoint_count =
                                      run[j].checkpoint_count
<1>1. Len(run) \in Nat /\ \A j \in RunIds : run[j] \in RunRow
  BY LenProperties DEF TypeOK, RunIds
<1> DEFINE e(j) == IF j \in stale THEN [run[j] EXCEPT !.status = "ended"]
                                  ELSE run[j]
<1>2. \A j \in RunIds : e(j) \in RunRow
                        /\ e(j).checkpoint_count = run[j].checkpoint_count
  BY <1>1 DEF RunRow, RunStatuses
<1>3. run' = [j \in 1..Len(run) |-> e(j)]
  BY DEF ReapRuns, RunIds
<1> HIDE DEF e
<1>4. run' \in [1..Len(run) -> RunRow]
  BY <1>2, <1>3 DEF RunIds
<1>5. run' \in Seq(RunRow)
  BY <1>1, <1>4, SeqDef
<1>6. Len(run') = Len(run)
  <2>1. DOMAIN run' = 1..Len(run') /\ DOMAIN run' = 1..Len(run)
        /\ Len(run') \in Nat
    BY <1>4, <1>5, LenProperties
  <2> QED
    BY <1>1, <2>1
<1> QED
  BY <1>1, <1>2, <1>3, <1>5, <1>6 DEF Grows, RunIds

-----------------------------------------------------------------------------
(* Types *)

(* The tables keep their type when the pointer names a run and every
   checkpoint belongs to one. *)
TablesTyped ==
    /\ run' \in Seq(RunRow)
    /\ active_run_id' \in 0..Len(run')
    /\ checkpoints' \subseteq Checkpoint'

(* Checkpoints stay with their runs. *)
LEMMA CheckpointsStay ==
    ASSUME TypeOK, Grows
    PROVE  Checkpoint \subseteq Checkpoint' /\ 0..Len(run) \subseteq 0..Len(run')
<1>1. Len(run) \in Nat
  BY LenProperties DEF TypeOK
<1> QED
  BY <1>1 DEF Checkpoint, RunIds, Grows

(* A step that leaves the tables alone keeps their type. *)
LEMMA TablesUnchanged ==
    ASSUME TypeOK, UNCHANGED <<active_run_id, run, checkpoints>>
    PROVE  Grows /\ TablesTyped
  BY RunsUnchanged, CheckpointsStay DEF TypeOK, TablesTyped

(* The first read of a handler. *)
LEMMA BeginTyped ==
    ASSUME TypeOK, NEW r \in Requests, NEW op \in Ops, NEW pc \in Positions,
           NEW STATE i, i \in 0..Len(run), NEW STATE seen, seen \in 0..Len(run),
           NEW beat \in BOOLEAN, pc \in OnRun => i # NoRun,
           Begin(r, op, pc, i, seen, beat)
    PROVE  TypeOK'
<1>1. Grows /\ TablesTyped
  BY TablesUnchanged DEF Begin
<1> DEFINE w == [Idle EXCEPT !.op = op, !.pc = pc, !.run = i, !.seen = seen,
                             !.beat = beat]
<1>2. NoRun \in 0..Len(run') /\ i \in 0..Len(run') /\ seen \in 0..Len(run')
  BY <1>1, CheckpointsStay DEF NoRun, Grows
<1>3. w \in Request'
  BY <1>2 DEF Idle, Request
<1>4. w.pc \in OnRun => w.run # NoRun
  BY DEF Idle
<1>5. req' = [req EXCEPT ![r] = w]
  BY DEF Begin
<1> QED
  BY <1>1, <1>3, <1>4, <1>5, OneSlot DEF TypeOK, TablesTyped

(* The first reads of all handlers. *)
LEMMA ReadsTyped ==
    ASSUME TypeOK, NEW r \in Requests,
           \/ PostRun(r) \/ PatchRun(r) \/ PostCheckpoint(r) \/ PatchTask(r)
           \/ ClaimHandoff(r) \/ EngageBroker(r)
    PROVE  TypeOK'
<1>1. Len(run) \in Nat /\ active_run_id \in 0..Len(run)
  BY LenProperties DEF TypeOK
<1>2. /\ {"insert", "update", "append", "reload", "broker-beat"} \subseteq Positions
      /\ {"insert", "reload"} \cap OnRun = {}
      /\ {"start", "patch", "checkpoint", "claim", "broker"} \subseteq Ops
      /\ NoRun \in 0..Len(run) /\ RunIds \subseteq 0..Len(run)
      /\ NoRun \notin RunIds /\ FALSE \in BOOLEAN
  BY <1>1 DEF Positions, OnRun, Ops, NoRun, RunIds
<1>3. CASE PostRun(r)
  BY <1>2, <1>3, BeginTyped DEF PostRun
<1>4. CASE PatchRun(r)
  <2>1. PICK i \in RunIds, beat \in BOOLEAN :
               Begin(r, "patch", "update", i, NoRun, beat)
    BY <1>4 DEF PatchRun
  <2> QED
    BY <1>2, <2>1, BeginTyped
<1>5. CASE PostCheckpoint(r)
  <2>1. PICK i \in RunIds : Begin(r, "checkpoint", "append", i, NoRun, FALSE)
    BY <1>5 DEF PostCheckpoint
  <2> QED
    BY <1>2, <2>1, BeginTyped
<1>6. CASE PatchTask(r)
  <2>1. Grows /\ TablesTyped
    BY <1>6, TablesUnchanged DEF PatchTask
  <2>2. PICK op \in Ops :
           req' = [req EXCEPT ![r] = [Idle EXCEPT !.op = op, !.pc = "reload",
                                                  !.old = active_run_id]]
    BY <1>6 DEF PatchTask, Ops
  <2> DEFINE w == [Idle EXCEPT !.op = op, !.pc = "reload", !.old = active_run_id]
  <2>3. NoRun \in 0..Len(run') /\ active_run_id \in 0..Len(run')
    BY <1>1, <2>1, CheckpointsStay DEF NoRun, Grows
  <2>4. w \in Request' /\ w.pc \notin OnRun
    BY <1>2, <2>3 DEF Idle, Request
  <2> QED
    BY <2>1, <2>2, <2>4, OneSlot DEF TypeOK, TablesTyped
<1>7. CASE ClaimHandoff(r)
  <2>1. CASE Begin(r, "claim", "insert", NoRun, active_run_id, FALSE)
    BY <1>1, <1>2, <2>1, BeginTyped
  <2>2. CASE /\ active_run_id # NoRun
             /\ Begin(r, "claim", "update", active_run_id, active_run_id, FALSE)
    BY <1>1, <1>2, <2>2, BeginTyped
  <2> QED
    BY <1>7, <2>1, <2>2 DEF ClaimHandoff
<1>8. CASE EngageBroker(r)
  BY <1>1, <1>2, <1>8, BeginTyped DEF EngageBroker
<1> QED
  BY <1>3, <1>4, <1>5, <1>6, <1>7, <1>8

(* The run a handler settles on is one of the table. *)
LEMMA ChosenRun ==
    ASSUME TypeOK, NEW r \in Requests
    PROVE  /\ ProposalRun(req[r]) \in 0..Len(run)
           /\ StatusRuns(req[r]) \subseteq 0..Len(run)
<1>1. Len(run) \in Nat
  BY LenProperties DEF TypeOK
<1>2. req[r].seen \in 0..Len(run) /\ req[r].old \in 0..Len(run)
  BY <1>1 DEF TypeOK, Request
<1>3. NoRun \in 0..Len(run) /\ LiveRuns \subseteq 0..Len(run)
  BY <1>1 DEF NoRun, LiveRuns, RunIds
<1>4. ProposalRun(req[r]) \in 0..Len(run)
  BY <1>1, <1>2 DEF ProposalRun
<1>5. StatusRuns(req[r]) \subseteq {req[r].seen, req[r].old, NoRun} \cup LiveRuns
  BY Zenon DEF StatusRuns
<1> QED
  BY <1>2, <1>3, <1>4, <1>5

(* The steps that only move the handler. *)
LEMMA MovesTyped ==
    ASSUME TypeOK, NEW r \in Requests,
           \/ Reload(r) \/ ChooseProposal(r) \/ ChooseForStatus(r)
           \/ AppendRefused(r) \/ RereadRun(r) \/ FailureSwallowed(r)
           \/ Abort(r)
    PROVE  TypeOK'
<1>1. UNCHANGED <<active_run_id, run, checkpoints>>
  BY DEF Reload, ChooseProposal, ChooseForStatus, AppendRefused, RereadRun,
         FailureSwallowed, Abort
<1>2. Grows /\ TablesTyped
  BY <1>1, TablesUnchanged
<1>3. SUFFICES SlotsTyped
  BY <1>2 DEF TypeOK, TablesTyped, SlotsTyped
<1>4. /\ {"insert", "update", "append", "choose", "reread", "sync-appended",
          "broker-insert", "idle"} \subseteq Positions
      /\ {"insert", "choose", "idle"} \cap OnRun = {}
      /\ {"update", "sync-updated", "append", "reread", "broker-beat"}
            \subseteq OnRun
      /\ \A op : AfterUpdate(op) \in {"insert", "append", "idle"}
  BY DEF Positions, OnRun, AfterUpdate
<1>5. /\ ProposalRun(req[r]) \in 0..Len(run')
      /\ StatusRuns(req[r]) \subseteq 0..Len(run')
      /\ NoRun \notin LiveRuns
      /\ NoRun \in 0..Len(run')
  BY <1>2, ChosenRun, CheckpointsStay, SlotKept DEF LiveRuns, RunIds, NoRun
<1>6. CASE Reload(r)
  <2> DEFINE w == [req[r] EXCEPT !.pc = "choose", !.seen = active_run_id,
                                 !.old = IF active_run_id = NoRun
                                           THEN req[r].old ELSE NoRun]
  <2>1. active_run_id \in 0..Len(run')
    BY <1>2, CheckpointsStay DEF TypeOK
  <2>2. w \in Request'
    BY <1>2, <1>4, <1>5, <2>1, SlotKept DEF Request
  <2>3. w.pc \notin OnRun
    BY <1>4 DEF TypeOK, Request
  <2> QED
    BY <1>2, <1>6, <2>2, <2>3, OneSlot DEF Reload, SlotsTyped
<1>7. CASE ChooseProposal(r)
  <2>1. CASE Continue(r)
    BY <1>2, <2>1, ContinueTyped
  <2>2. CASE ProposalRun(req[r]) # NoRun /\ GoOn(r, "update", ProposalRun(req[r]))
    BY <1>2, <1>4, <1>5, <2>2, GoOnTyped
  <2> QED
    BY <1>7, <2>1, <2>2 DEF ChooseProposal
<1>8. CASE ChooseForStatus(r)
  <2>1. PICK i \in StatusRuns(req[r]) :
           \/ i # NoRun /\ GoOn(r, "append", i)
           \/ i \in LiveRuns /\ GoOn(r, "update", i)
           \/ GoOn(r, "insert", NoRun)
           \/ i = NoRun /\ Finish(r)
    BY <1>8 DEF ChooseForStatus
  <2>2. CASE i # NoRun /\ GoOn(r, "append", i)
    BY <1>2, <1>4, <1>5, <2>1, <2>2, GoOnTyped
  <2>3. CASE i \in LiveRuns /\ GoOn(r, "update", i)
    BY <1>2, <1>4, <1>5, <2>1, <2>3, GoOnTyped
  <2>4. CASE GoOn(r, "insert", NoRun)
    BY <1>2, <1>4, <1>5, <2>4, GoOnTyped
  <2>5. CASE Finish(r)
    BY <1>2, <2>5, FinishTyped
  <2> QED
    BY <2>1, <2>2, <2>3, <2>4, <2>5
<1>9. CASE AppendRefused(r)
  BY <1>2, <1>9, ContinueTyped DEF AppendRefused
<1>10. CASE RereadRun(r)
  BY <1>2, <1>4, <1>10, GoTyped DEF RereadRun
<1>11. CASE FailureSwallowed(r)
  <2>1. CASE req[r].pc \in {"update", "sync-updated"}
             /\ Go(r, AfterUpdate(req[r].op))
    <3>1. AfterUpdate(req[r].op) \in Positions /\ req[r].pc \in OnRun
      BY <1>4, <2>1
    <3> QED
      BY <1>2, <2>1, <3>1, GoTyped
  <2>2. CASE Continue(r)
    BY <1>2, <2>2, ContinueTyped
  <2>3. CASE req[r].pc = "broker-beat" /\ Go(r, "broker-insert")
    BY <1>2, <1>4, <2>3, GoTyped
  <2> QED
    BY <1>11, <2>1, <2>2, <2>3 DEF FailureSwallowed
<1>12. CASE Abort(r)
  BY <1>2, <1>12, FinishTyped DEF Abort
<1> QED
  BY <1>6, <1>7, <1>8, <1>9, <1>10, <1>11, <1>12

(* The steps of a handler that write a table. *)
LEMMA WritesTyped ==
    ASSUME TypeOK, NEW r \in Requests,
           \/ UpdateRun(r) \/ SyncUpdated(r) \/ InsertRun(r) \/ SyncInserted(r)
           \/ AppendCheckpoint(r) \/ SyncAppended(r) \/ BrokerBeat(r)
           \/ BrokerInsert(r)
    PROVE  TypeOK'
<1>1. /\ {"sync-updated", "sync-inserted", "reread", "append", "insert",
          "broker-insert", "idle"} \subseteq Positions
      /\ {"insert", "idle"} \cap OnRun = {}
      /\ {"update", "sync-updated", "sync-inserted", "append", "sync-appended",
          "broker-beat", "broker-insert"} \subseteq OnRun
      /\ \A op : /\ AfterUpdate(op) \in {"insert", "append", "idle"}
                 /\ AfterInsert(op) \in {"append", "idle"}
  BY DEF Positions, OnRun, AfterUpdate, AfterInsert
<1>2. Len(run) \in Nat /\ \A i \in RunIds : run[i] \in RunRow
  BY LenProperties DEF TypeOK, RunIds
<1>3. req[r].pc \in OnRun => req[r].run \in RunIds
  BY <1>2 DEF TypeOK, Request, RunIds, NoRun
<1>4. NoRun \in 0..Len(run) /\ RunIds \subseteq 0..Len(run) /\ NoRun \notin RunIds
  BY <1>2 DEF NoRun, RunIds
<1>5. ASSUME Grows, run' \in Seq(RunRow), Len(run') = Len(run),
             active_run_id' \in 0..Len(run'), checkpoints' = checkpoints,
             SlotsTyped
      PROVE  TypeOK'
  BY <1>5, CheckpointsStay DEF TypeOK, SlotsTyped
<1>6. CASE UpdateRun(r)
  <2>1. req[r].pc \in OnRun /\ req[r].run \in RunIds
    BY <1>1, <1>3, <1>6 DEF UpdateRun
  <2>2. PICK status \in StatusWrites(req[r].op),
             summary \in SummaryWrites(req[r].op) :
          LET row == UpdatedRun(run[req[r].run], status, summary, req[r].beat)
          IN /\ run' = [run EXCEPT ![req[r].run] = row]
             /\ req' = [req EXCEPT ![r] =
                   [req[r] EXCEPT !.pc = "sync-updated", !.beat = FALSE,
                      !.held = IF Live(row) THEN req[r].run ELSE NoRun]]
    BY <1>6 DEF UpdateRun
  <2> DEFINE row == UpdatedRun(run[req[r].run], status, summary, req[r].beat)
             w == [req[r] EXCEPT !.pc = "sync-updated", !.beat = FALSE,
                     !.held = IF Live(row) THEN req[r].run ELSE NoRun]
  <2>3. status \in {"keep"} \cup RunStatuses /\ summary \in {"keep", "set", "clear"}
        /\ req[r].beat \in BOOLEAN
    BY DEF StatusWrites, SummaryWrites, RunStatuses, TypeOK, Request
  <2>4. row \in RunRow
    BY <1>2, <2>1, <2>3, RowTypes
  <2> HIDE DEF row
  <2>5. run' = [run EXCEPT ![req[r].run] = row]
    BY <2>2 DEF row
  <2>6. Grows /\ run' \in Seq(RunRow) /\ Len(run') = Len(run)
    BY <2>1, <2>4, <2>5, RunWritten
  <2>7. req[r].run \in 0..Len(run') /\ NoRun \in 0..Len(run')
    BY <1>4, <2>1, <2>6
  <2>8. w \in Request'
    BY <1>1, <2>6, <2>7, SlotKept DEF Request
  <2>9. w.pc \in OnRun => w.run # NoRun
    BY <1>4, <2>1 DEF TypeOK, Request
  <2>10. req' = [req EXCEPT ![r] = w]
    BY <2>2 DEF row
  <2>11. SlotsTyped
    BY <2>6, <2>8, <2>9, <2>10, OneSlot DEF SlotsTyped
  <2>12. active_run_id' \in 0..Len(run') /\ checkpoints' = checkpoints
    BY <1>6, <2>6 DEF UpdateRun, TypeOK
  <2> QED
    BY <1>5, <2>6, <2>11, <2>12
<1>7. CASE SyncUpdated(r)
  <2>1. Grows /\ run' \in Seq(RunRow) /\ Len(run') = Len(run)
        /\ checkpoints' = checkpoints
    BY <1>7, RunsUnchanged DEF SyncUpdated
  <2>2. active_run_id' \in 0..Len(run')
    BY <1>2, <1>7, <2>1 DEF SyncUpdated, TypeOK, Request
  <2>3. req[r].pc \in OnRun /\ AfterUpdate(req[r].op) \in Positions
    BY <1>1, <1>7 DEF SyncUpdated
  <2>4. SlotsTyped
    BY <1>7, <2>1, <2>3, GoTyped DEF SyncUpdated
  <2> QED
    BY <1>5, <2>1, <2>2, <2>4
<1>8. CASE InsertRun(r)
  <2>1. PICK row \in RunRow : run' = Append(run, row)
    BY <1>8, NewRunType DEF InsertRun
  <2>2. Grows /\ run' \in Seq(RunRow) /\ Len(run') = Len(run) + 1
    BY <2>1, RunInserted
  <2>3. Len(run) + 1 \in 0..Len(run') /\ Len(run) + 1 # NoRun
    BY <1>2, <2>2 DEF NoRun
  <2>4. GoOn(r, "sync-inserted", Len(run) + 1)
    BY <1>8 DEF InsertRun
  <2>5. SlotsTyped
    BY <1>1, <2>2, <2>3, <2>4, GoOnTyped
  <2> QED
    BY <1>8, <2>2, <2>5, CheckpointsStay DEF InsertRun, TypeOK, SlotsTyped
<1>9. CASE SyncInserted(r)
  <2>1. Grows /\ run' \in Seq(RunRow) /\ Len(run') = Len(run)
        /\ checkpoints' = checkpoints
    BY <1>9, RunsUnchanged DEF SyncInserted
  <2>2. req[r].pc \in OnRun /\ AfterInsert(req[r].op) \in Positions
    BY <1>1, <1>9 DEF SyncInserted
  <2>3. active_run_id' \in 0..Len(run')
    BY <1>3, <1>4, <1>9, <2>1, <2>2 DEF SyncInserted
  <2>4. SlotsTyped
    BY <1>9, <2>1, <2>2, GoTyped DEF SyncInserted
  <2> QED
    BY <1>5, <2>1, <2>3, <2>4
<1>10. CASE AppendCheckpoint(r)
  <2> DEFINE i == req[r].run
  <2>1. req[r].pc \in OnRun /\ i \in RunIds
    BY <1>1, <1>3, <1>10 DEF AppendCheckpoint
  <2>2. PICK key \in Keys, given \in BOOLEAN :
          LET c == [run |-> i, sequence |-> NextSequence(i), key |-> key] IN
          /\ checkpoints' = checkpoints \cup {c}
          /\ run' = [run EXCEPT ![i] =
                       [Beaten(run[i]) EXCEPT
                          !.checkpoint_count = c.sequence,
                          !.summary = SummaryAfterAppend(i, given)]]
    BY <1>10 DEF AppendCheckpoint
  <2>3. NextSequence(i) \in Nat
    BY <1>2, <2>1 DEF NextSequence, RunRow
  <2> DEFINE row == [Beaten(run[i]) EXCEPT
                       !.checkpoint_count = NextSequence(i), !.summary = given]
  <2>4. row \in RunRow
    <3>1. Beaten(run[i]) \in RunRow
      BY <1>2, <2>1, BeatenType
    <3> QED
      BY <2>3, <3>1, CountedType
  <2> HIDE DEF row
  <2>5. run' = [run EXCEPT ![i] = row]
    BY <2>2 DEF row, SummaryAfterAppend
  <2>6. Grows /\ run' \in Seq(RunRow) /\ Len(run') = Len(run)
    BY <2>1, <2>4, <2>5, RunWritten
  <2>7. SlotsTyped
    BY <1>1, <1>10, <2>1, <2>6, GoTyped DEF AppendCheckpoint
  <2>8. [run |-> i, sequence |-> NextSequence(i), key |-> key] \in Checkpoint
    BY <2>1, <2>3 DEF Checkpoint
  <2>9. checkpoints' \subseteq Checkpoint'
    BY <2>2, <2>6, <2>8, CheckpointsStay DEF TypeOK
  <2>10. active_run_id' \in 0..Len(run')
    BY <1>10, <2>6 DEF AppendCheckpoint, TypeOK
  <2> QED
    BY <2>6, <2>7, <2>9, <2>10 DEF TypeOK, SlotsTyped
<1>11. CASE SyncAppended(r)
  <2>1. Grows /\ run' \in Seq(RunRow) /\ Len(run') = Len(run)
        /\ checkpoints' = checkpoints
    BY <1>11, RunsUnchanged DEF SyncAppended
  <2>2. active_run_id' \in 0..Len(run')
    BY <1>1, <1>3, <1>4, <1>11, <2>1 DEF SyncAppended
  <2>3. SlotsTyped
    BY <1>11, <2>1, ContinueTyped DEF SyncAppended
  <2> QED
    BY <1>5, <2>1, <2>2, <2>3
<1>12. CASE BrokerBeat(r)
  <2>1. req[r].pc \in OnRun /\ req[r].run \in RunIds
    BY <1>1, <1>3, <1>12 DEF BrokerBeat
  <2>2. Beaten(run[req[r].run]) \in RunRow
    BY <1>2, <2>1, BeatenType
  <2>3. Grows /\ run' \in Seq(RunRow) /\ Len(run') = Len(run)
    BY <1>12, <2>1, <2>2, RunWritten DEF BrokerBeat
  <2>4. SlotsTyped
    BY <1>1, <1>12, <2>1, <2>3, GoTyped DEF BrokerBeat
  <2>5. active_run_id' \in 0..Len(run') /\ checkpoints' = checkpoints
    BY <1>12, <2>3 DEF BrokerBeat, TypeOK
  <2> QED
    BY <1>5, <2>3, <2>4, <2>5
<1>13. CASE BrokerInsert(r)
  <2>1. req[r].run \in RunIds
    BY <1>1, <1>3, <1>13 DEF BrokerInsert
  <2>2. Grows /\ run' \in Seq(RunRow) /\ Len(run') = Len(run)
    BY <1>13, RunsUnchanged DEF BrokerInsert
  <2>3. [run |-> req[r].run, sequence |-> BrokerSequence, key |-> BrokerKey]
          \in Checkpoint
    BY <2>1, ExecutionAssumption DEF Checkpoint
  <2>4. checkpoints' \subseteq Checkpoint'
    BY <1>13, <2>2, <2>3, CheckpointsStay DEF BrokerInsert, TypeOK
  <2>5. SlotsTyped
    BY <1>13, <2>2, FinishTyped DEF BrokerInsert
  <2> QED
    BY <1>13, <2>2, <2>4, <2>5 DEF BrokerInsert, TypeOK, SlotsTyped
<1> QED
  BY <1>6, <1>7, <1>8, <1>9, <1>10, <1>11, <1>12, <1>13

(* Silence and the reaper. *)
LEMMA ReaperTyped ==
    ASSUME TypeOK,
           \/ \E i \in RunIds : Silence(i)
           \/ \E stale \in SUBSET StaleRuns : ReapRuns(stale)
    PROVE  TypeOK'
<1>1. Len(run) \in Nat /\ \A i \in RunIds : run[i] \in RunRow
  BY LenProperties DEF TypeOK, RunIds
<1>2. ASSUME Grows, run' \in Seq(RunRow), Len(run') = Len(run),
             active_run_id' \in {active_run_id, NoRun},
             UNCHANGED <<checkpoints, req>>
      PROVE  TypeOK'
  <2>1. Request' = Request /\ Checkpoint' = Checkpoint
    BY <1>2 DEF Request, Checkpoint, RunIds
  <2> QED
    BY <1>1, <1>2, <2>1 DEF TypeOK, NoRun
<1>3. ASSUME NEW i \in RunIds, Silence(i)
      PROVE  TypeOK'
  <2> DEFINE row == [run[i] EXCEPT !.silent = TRUE]
  <2>1. row \in RunRow
    BY <1>1 DEF RunRow
  <2>2. run' = [run EXCEPT ![i] = row]
    BY <1>3 DEF Silence
  <2> HIDE DEF row
  <2>3. Grows /\ run' \in Seq(RunRow) /\ Len(run') = Len(run)
    BY <2>1, <2>2, RunWritten
  <2> QED
    BY <1>2, <1>3, <2>3 DEF Silence
<1>4. ASSUME NEW stale \in SUBSET StaleRuns, ReapRuns(stale)
      PROVE  TypeOK'
  <2>1. Grows /\ run' \in Seq(RunRow) /\ Len(run') = Len(run)
    BY <1>4, RunsReaped
  <2> QED
    BY <1>2, <1>4, <2>1 DEF ReapRuns
<1> QED
  BY <1>3, <1>4

(* Every step keeps the types. *)
LEMMA StepTyped == TypeOK /\ [Next]_vars => TypeOK'
<1> SUFFICES ASSUME TypeOK, [Next]_vars PROVE TypeOK'
  OBVIOUS
<1>1. CASE UNCHANGED vars
  <2>1. Request' = Request /\ Checkpoint' = Checkpoint
    BY <1>1 DEF vars, Request, Checkpoint, RunIds
  <2> QED
    BY <1>1, <2>1 DEF vars, TypeOK
<1>2. ASSUME NEW r \in Requests, Handle(r)
      PROVE  TypeOK'
  BY <1>2, ReadsTyped, MovesTyped, WritesTyped DEF Handle
<1> QED
  BY <1>1, <1>2, ReaperTyped DEF Next

-----------------------------------------------------------------------------
(* The numbering *)

(* A step that takes no checkpoint and keeps the counters keeps the numbers. *)
LEMMA NumbersKept ==
    ASSUME TypeOK, CheckpointsNumbered, Grows, checkpoints' = checkpoints,
           \A i \in RunIds : run'[i].checkpoint_count = run[i].checkpoint_count,
           \A i \in RunIds' : i \notin RunIds => run'[i].checkpoint_count = 0
    PROVE  CheckpointsNumbered'
<1> SUFFICES ASSUME NEW i \in RunIds'
    PROVE /\ \A n \in 1..run'[i].checkpoint_count :
               \E c \in CheckpointsOf(i)' : c.sequence = n
          /\ \A c \in CheckpointsOf(i)' :
               c.sequence \in 1..run'[i].checkpoint_count \cup {BrokerSequence}
  BY DEF CheckpointsNumbered
<1>1. CheckpointsOf(i)' = CheckpointsOf(i)
  BY DEF CheckpointsOf
<1>2. CASE i \in RunIds
  BY <1>1, <1>2 DEF CheckpointsNumbered
<1>3. CASE i \notin RunIds
  <2>1. CheckpointsOf(i) = {}
    BY <1>3 DEF CheckpointsOf, TypeOK, Checkpoint
  <2>2. 1..run'[i].checkpoint_count = {}
    BY <1>3
  <2> QED
    BY <1>1, <2>1, <2>2
<1> QED
  BY <1>2, <1>3

(* One run is written and keeps its counter. *)
LEMMA WrittenNumbered ==
    ASSUME TypeOK, CheckpointsNumbered, checkpoints' = checkpoints,
           NEW STATE i, i \in RunIds, NEW STATE row, row \in RunRow,
           run' = [run EXCEPT ![i] = row],
           row.checkpoint_count = run[i].checkpoint_count
    PROVE  CheckpointsNumbered'
<1>1. Grows /\ Len(run') = Len(run)
  BY RunWritten
<1>a. \A j \in RunIds : run'[j] = IF j = i THEN row ELSE run[j]
  <2>1. run \in Seq(RunRow) /\ i \in 1..Len(run)
    BY DEF TypeOK, RunIds
  <2> QED
    BY ONLY <2>1, ExceptSeq, run' = [run EXCEPT ![i] = row], row \in RunRow DEF RunIds
<1>b. RunIds' = RunIds
  BY ONLY <1>1 DEF RunIds
<1>2. \A j \in RunIds : run'[j].checkpoint_count = run[j].checkpoint_count
  <2> SUFFICES ASSUME NEW j \in RunIds
               PROVE  run'[j].checkpoint_count = run[j].checkpoint_count
    OBVIOUS
  <2>1. run'[j] = IF j = i THEN row ELSE run[j]
    BY <1>a
  <2> QED
    BY ONLY <2>1, row.checkpoint_count = run[i].checkpoint_count
<1> QED
  BY <1>1, <1>b, <1>2, NumbersKept

(* The append takes the number after the counter and moves the counter there. *)
LEMMA AppendNumbered ==
    ASSUME TypeOK, CheckpointsNumbered, NEW r \in Requests, AppendCheckpoint(r)
    PROVE  CheckpointsNumbered'
<1> DEFINE i == req[r].run
           n == NextSequence(i)
<1>1. Len(run) \in Nat /\ \A j \in RunIds : run[j] \in RunRow
  BY LenProperties DEF TypeOK, RunIds
<1>2. i \in RunIds
  BY <1>1 DEF AppendCheckpoint, TypeOK, Request, RunIds, NoRun, OnRun
<1>3. PICK key \in Keys, given \in BOOLEAN :
        /\ checkpoints' = checkpoints \cup
              {[run |-> i, sequence |-> n, key |-> key]}
        /\ run' = [run EXCEPT ![i] =
                     [Beaten(run[i]) EXCEPT !.checkpoint_count = n,
                                            !.summary = given]]
  BY DEF AppendCheckpoint, SummaryAfterAppend
<1>4. n \in Nat /\ n = run[i].checkpoint_count + 1
      /\ run[i].checkpoint_count \in Nat
  BY <1>1, <1>2 DEF NextSequence, RunRow
<1> DEFINE row == [Beaten(run[i]) EXCEPT !.checkpoint_count = n,
                                         !.summary = given]
           c == [run |-> i, sequence |-> n, key |-> key]
<1>5. row \in RunRow /\ row.checkpoint_count = n
  <2>1. Beaten(run[i]) \in RunRow
    BY <1>1, <1>2, BeatenType
  <2> QED
    BY <1>4, <2>1, CountedType
<1>6. run' = [run EXCEPT ![i] = row] /\ checkpoints' = checkpoints \cup {c}
  BY <1>3
<1>7. c.run = i /\ c.sequence = n
  OBVIOUS
<1> HIDE DEF i, n, row, c
<1>8. /\ RunIds' = RunIds
      /\ \A j \in RunIds : run'[j] = IF j = i THEN row ELSE run[j]
  BY <1>2, <1>5, <1>6, RunWritten DEF RunIds
<1> SUFFICES ASSUME NEW j \in RunIds
    PROVE /\ \A m \in 1..run'[j].checkpoint_count :
               \E d \in CheckpointsOf(j)' : d.sequence = m
          /\ \A d \in CheckpointsOf(j)' :
               d.sequence \in 1..run'[j].checkpoint_count \cup {BrokerSequence}
  BY <1>8 DEF CheckpointsNumbered
<1>9. /\ \A m \in 1..run[j].checkpoint_count :
            \E d \in CheckpointsOf(j) : d.sequence = m
      /\ \A d \in CheckpointsOf(j) :
            d.sequence \in 1..run[j].checkpoint_count \cup {BrokerSequence}
  BY DEF CheckpointsNumbered
<1>10. CASE j # i
  <2>1. CheckpointsOf(j)' = CheckpointsOf(j) /\ run'[j] = run[j]
    BY <1>6, <1>7, <1>8, <1>10 DEF CheckpointsOf
  <2> QED
    BY <1>9, <2>1
<1>11. CASE j = i
  <2>1. CheckpointsOf(j)' = CheckpointsOf(j) \cup {c}
    BY <1>6, <1>7, <1>11 DEF CheckpointsOf
  <2>2. run'[j].checkpoint_count = n
    BY <1>5, <1>8, <1>11
  <2>3. 1..n = (1..run[j].checkpoint_count) \cup {n}
    BY <1>4, <1>11
  <2> QED
    BY <1>7, <1>9, <2>1, <2>2, <2>3
<1> QED
  BY <1>10, <1>11

(* The broker's checkpoint has its own number. *)
LEMMA BrokerNumbered ==
    ASSUME TypeOK, CheckpointsNumbered, NEW r \in Requests, BrokerInsert(r)
    PROVE  CheckpointsNumbered'
<1> DEFINE c == [run |-> req[r].run, sequence |-> BrokerSequence,
                 key |-> BrokerKey]
<1>1. c.sequence = BrokerSequence
  OBVIOUS
<1>2. checkpoints \subseteq checkpoints' /\ checkpoints' \subseteq checkpoints \cup {c}
      /\ run' = run
  BY DEF BrokerInsert
<1> HIDE DEF c
<1>3. ASSUME NEW i
      PROVE  /\ CheckpointsOf(i) \subseteq CheckpointsOf(i)'
             /\ CheckpointsOf(i)' \subseteq CheckpointsOf(i) \cup {c}
  BY <1>2 DEF CheckpointsOf
<1>4. RunIds' = RunIds
  BY <1>2 DEF RunIds
<1> QED
  BY <1>1, <1>2, <1>3, <1>4 DEF CheckpointsNumbered

(* Every step keeps the numbering. *)
LEMMA StepNumbered ==
    ASSUME TypeOK, CheckpointsNumbered, [Next]_vars
    PROVE  CheckpointsNumbered'
<1>1. Len(run) \in Nat /\ \A i \in RunIds : run[i] \in RunRow
  BY LenProperties DEF TypeOK, RunIds
<1>2. ASSUME UNCHANGED <<run, checkpoints>>
      PROVE  CheckpointsNumbered'
  BY <1>2, RunsUnchanged, NumbersKept DEF RunIds
<1>3. ASSUME NEW r \in Requests, UpdateRun(r)
      PROVE  CheckpointsNumbered'
  <2>1. req[r].run \in RunIds /\ req[r].beat \in BOOLEAN
    <3>1. req[r] \in Request /\ req[r].run # NoRun
      BY <1>3 DEF UpdateRun, TypeOK, OnRun
    <3> QED
      BY <1>1, <3>1 DEF Request, RunIds, NoRun
  <2>2. PICK status \in StatusWrites(req[r].op),
             summary \in SummaryWrites(req[r].op) :
          run' = [run EXCEPT ![req[r].run] =
                    UpdatedRun(run[req[r].run], status, summary, req[r].beat)]
    BY <1>3 DEF UpdateRun
  <2>3. status \in {"keep"} \cup RunStatuses /\ summary \in {"keep", "set", "clear"}
    <3>1. status \in {"keep"} \cup RunStatuses
      BY DEF StatusWrites, RunStatuses
    <3>2. summary \in {"keep", "set", "clear"}
      BY DEF SummaryWrites
    <3> QED
      BY <3>1, <3>2
  <2> DEFINE row == UpdatedRun(run[req[r].run], status, summary, req[r].beat)
  <2>a. run[req[r].run] \in RunRow
    BY <1>1, <2>1
  <2>4. row \in RunRow /\ row.checkpoint_count = run[req[r].run].checkpoint_count
    <3> DEFINE old == run[req[r].run]
               beat == req[r].beat
    <3>1. old \in RunRow /\ beat \in BOOLEAN
      BY <2>1, <2>a
    <3>2. row = UpdatedRun(old, status, summary, beat)
      OBVIOUS
    <3> HIDE DEF old, beat, row
    <3>3. row \in RunRow /\ row.checkpoint_count = old.checkpoint_count
      BY ONLY <3>1, <3>2, <2>3, RowTypes
    <3> QED
      BY <3>3 DEF old
  <2> HIDE DEF row
  <2>5. run' = [run EXCEPT ![req[r].run] = row]
    BY <2>2 DEF row
  <2>6. checkpoints' = checkpoints
    BY <1>3 DEF UpdateRun
  <2> QED
    BY <2>1, <2>4, <2>5, <2>6, WrittenNumbered
<1>4. ASSUME NEW r \in Requests, InsertRun(r)
      PROVE  CheckpointsNumbered'
  <2>1. PICK row \in RunRow : run' = Append(run, row) /\ row.checkpoint_count = 0
    BY <1>4, NewRunType DEF InsertRun
  <2>2. /\ Grows
        /\ Len(run') = Len(run) + 1
        /\ \A j \in RunIds : run'[j] = run[j]
        /\ run'[Len(run) + 1] = row
    BY <2>1, RunInserted
  <2>3. \A i \in RunIds' : i \notin RunIds => i = Len(run) + 1
    BY <1>1, <2>2 DEF RunIds
  <2> QED
    BY <1>4, <2>1, <2>2, <2>3, NumbersKept DEF InsertRun
<1>5. ASSUME NEW r \in Requests, BrokerBeat(r)
      PROVE  CheckpointsNumbered'
  <2>1. req[r].run \in RunIds
    BY <1>1, <1>5 DEF BrokerBeat, TypeOK, Request, RunIds, NoRun, OnRun
  <2>2. Beaten(run[req[r].run]) \in RunRow
        /\ Beaten(run[req[r].run]).checkpoint_count =
              run[req[r].run].checkpoint_count
    BY <1>1, <2>1, BeatenType
  <2> DEFINE row == Beaten(run[req[r].run])
  <2> HIDE DEF row
  <2>3. run' = [run EXCEPT ![req[r].run] = row] /\ checkpoints' = checkpoints
    BY <1>5 DEF BrokerBeat, row
  <2>4. row \in RunRow /\ row.checkpoint_count = run[req[r].run].checkpoint_count
    BY <2>2 DEF row
  <2> QED
    BY <2>1, <2>3, <2>4, WrittenNumbered
<1>6. ASSUME NEW i \in RunIds, Silence(i)
      PROVE  CheckpointsNumbered'
  <2> DEFINE row == [run[i] EXCEPT !.silent = TRUE]
  <2>1. row \in RunRow /\ row.checkpoint_count = run[i].checkpoint_count
    BY <1>1 DEF RunRow
  <2>2. run' = [run EXCEPT ![i] = row] /\ checkpoints' = checkpoints
    BY <1>6 DEF Silence
  <2> HIDE DEF row
  <2> QED
    BY <2>1, <2>2, WrittenNumbered
<1>7. ASSUME NEW stale \in SUBSET StaleRuns, ReapRuns(stale)
      PROVE  CheckpointsNumbered'
  BY <1>7, RunsReaped, NumbersKept DEF ReapRuns, RunIds
<1>8. ASSUME NEW r \in Requests, Handle(r)
      PROVE  CheckpointsNumbered'
  <2>1. CASE \/ PostRun(r) \/ PatchRun(r) \/ PostCheckpoint(r) \/ PatchTask(r)
             \/ ClaimHandoff(r) \/ EngageBroker(r)
    BY <1>2, <2>1 DEF PostRun, PatchRun, PostCheckpoint, PatchTask,
                      ClaimHandoff, EngageBroker, Begin
  <2>2. CASE \/ Reload(r) \/ ChooseProposal(r) \/ ChooseForStatus(r)
             \/ AppendRefused(r) \/ RereadRun(r) \/ FailureSwallowed(r)
             \/ Abort(r) \/ SyncUpdated(r) \/ SyncInserted(r)
             \/ SyncAppended(r)
    BY <1>2, <2>2 DEF Reload, ChooseProposal, ChooseForStatus, AppendRefused,
                      RereadRun, FailureSwallowed, Abort, SyncUpdated,
                      SyncInserted, SyncAppended
  <2> QED
    BY <1>3, <1>4, <1>5, <1>8, <2>1, <2>2, AppendNumbered, BrokerNumbered
       DEF Handle
<1>9. CASE UNCHANGED vars
  BY <1>2, <1>9 DEF vars
<1> QED
  BY <1>6, <1>7, <1>8, <1>9 DEF Next

-----------------------------------------------------------------------------
(* The theorems *)

(* The invariant is inductive: the numbering rests on the types, which say
   that a checkpoint belongs to a run and a handler that appends has one. *)
THEOREM Invariant == Spec => []IInv
<1>1. Init => IInv
  <2> SUFFICES ASSUME Init PROVE IInv
    OBVIOUS
  <2>1. run = <<>> /\ Len(run) = 0 /\ run \in Seq(RunRow) /\ RunIds = {}
    BY EmptySeq DEF Init, RunIds
  <2>2. Idle \in Request /\ Idle.pc \notin OnRun
    BY <2>1 DEF Idle, Request, Positions, Ops, NoRun, OnRun
  <2> QED
    BY <2>1, <2>2 DEF Init, IInv, TypeOK, CheckpointsNumbered, NoRun
<1>2. IInv /\ [Next]_vars => IInv'
  BY StepTyped, StepNumbered DEF IInv
<1> QED
  BY <1>1, <1>2, PTL DEF Spec

(* Every reachable state is well typed: every pointer names a run. *)
THEOREM TypeCorrect == Spec => []TypeOK
  BY Invariant, PTL DEF IInv

(* The checkpoints of every run are numbered without gaps, so that the next
   append never collides with one of them. *)
THEOREM Numbered == Spec => []CheckpointsNumbered
  BY Invariant, PTL DEF IInv

(* No interleaving appends to a run that has ended: only the append itself
   takes a number other than the broker's, and it holds the row's lock. *)
THEOREM NoCheckpointAfterTheEnd == Spec => EndedRunsTakeNoCheckpoint
<1>1. TypeOK /\ [Next]_vars => TakesNoCheckpoint
  <2> SUFFICES ASSUME TypeOK, [Next]_vars, NEW c \in checkpoints' \ checkpoints,
                      c.sequence # BrokerSequence
      PROVE  run[c.run].status # "ended"
    BY DEF TakesNoCheckpoint
  <2>1. ASSUME checkpoints' = checkpoints
        PROVE  FALSE
    BY <2>1
  <2>2. ASSUME NEW r \in Requests, AppendCheckpoint(r)
        PROVE  run[c.run].status # "ended"
    BY <2>2 DEF AppendCheckpoint, AcceptsCheckpoint, Live
  <2>3. ASSUME NEW r \in Requests, BrokerInsert(r)
        PROVE  FALSE
    BY <2>3 DEF BrokerInsert
  <2>4. ASSUME NEW r \in Requests, Handle(r)
        PROVE  run[c.run].status # "ended"
    <3>1. CASE \/ PostRun(r) \/ PatchRun(r) \/ PostCheckpoint(r)
               \/ PatchTask(r) \/ ClaimHandoff(r) \/ EngageBroker(r)
      BY <2>1, <3>1 DEF PostRun, PatchRun, PostCheckpoint, PatchTask,
                        ClaimHandoff, EngageBroker, Begin
    <3>2. CASE \/ Reload(r) \/ ChooseProposal(r) \/ ChooseForStatus(r)
               \/ UpdateRun(r) \/ SyncUpdated(r) \/ InsertRun(r)
               \/ SyncInserted(r)
      BY <2>1, <3>2 DEF Reload, ChooseProposal, ChooseForStatus, UpdateRun,
                        SyncUpdated, InsertRun, SyncInserted
    <3>3. CASE \/ AppendRefused(r) \/ RereadRun(r) \/ SyncAppended(r)
               \/ BrokerBeat(r) \/ FailureSwallowed(r) \/ Abort(r)
      BY <2>1, <3>3 DEF AppendRefused, RereadRun, SyncAppended, BrokerBeat,
                        FailureSwallowed, Abort
    <3> QED
      BY <2>2, <2>3, <2>4, <3>1, <3>2, <3>3 DEF Handle
  <2> QED
    BY <2>1, <2>4 DEF Next, Silence, ReapRuns, vars
<1> QED
  BY <1>1, TypeCorrect, PTL DEF Spec, EndedRunsTakeNoCheckpoint

-----------------------------------------------------------------------------
(* Who loses the summary of a run *)

(* A handler that may: a PATCH of the run, or a checkpoint an agent posts. *)
SummaryWriter(r, i) ==
    /\ req[r].run = i
    /\ <<req[r].pc, req[r].op>> \in {<<"update", "patch">>, <<"append", "checkpoint">>}

SummaryLostByWriter ==
    \A i \in RunIds : LosesSummary(i) => \E r \in Requests : SummaryWriter(r, i)

(* What the writes do to the summary of a row. *)
LEMMA SummaryOfRow ==
    ASSUME NEW row \in RunRow, NEW status \in {"keep"} \cup RunStatuses, NEW beat \in BOOLEAN,
           NEW n \in Nat
    PROVE  /\ UpdatedRun(row, status, "set", beat).summary
           /\ Beaten(row).summary = row.summary
           /\ [Beaten(row) EXCEPT !.checkpoint_count = n, !.summary = TRUE].summary
           /\ [row EXCEPT !.silent = TRUE].summary = row.summary
           /\ [row EXCEPT !.status = "ended"].summary = row.summary
<1> DEFINE starts == status \in {"running", "ended"} /\ row.since = "created"
           t == IF status = "keep" THEN row.status ELSE status
           c == IF starts THEN "started" ELSE row.since
           q == row.silent /\ ~starts
           written == [row EXCEPT !.status = t, !.summary = TRUE, !.since = c, !.silent = q]
<1>1. written.summary /\ Beaten(written).summary
  BY DEF Beaten, RunRow
<1>2. UpdatedRun(row, status, "set", beat) \in {written, Beaten(written)}
  BY DEF UpdatedRun
<1>3. UpdatedRun(row, status, "set", beat).summary
  BY <1>1, <1>2
<1> QED
  BY <1>3 DEF Beaten, RunRow

(* A step of a handler. *)
LEMMA HandlerLoses ==
    ASSUME TypeOK, NEW r \in Requests, Handle(r), NEW i \in RunIds, LosesSummary(i)
    PROVE  SummaryWriter(r, i)
<1>0. /\ Len(run) \in Nat /\ \A j \in RunIds : run[j] \in RunRow
      /\ run[i].summary /\ ~run'[i].summary
  BY LenProperties DEF TypeOK, RunIds, LosesSummary
<1>1. run' # run
  BY <1>0
<1>a. ASSUME NEW j \in RunIds, NEW row, run' = [run EXCEPT ![j] = row]
      PROVE  i = j /\ ~row.summary
  <2>1. run'[i] = IF i = j THEN row ELSE run[i]
    BY <1>a DEF TypeOK, RunIds
  <2> QED
    BY ONLY <1>0, <2>1
<1>b. req[r] \in Request /\ (req[r].pc \in OnRun => req[r].run \in RunIds)
  BY <1>0 DEF TypeOK, Request, RunIds, NoRun
<1>2. CASE UpdateRun(r)
  <2>1. req[r].pc = "update" /\ req[r].run \in RunIds /\ req[r].beat \in BOOLEAN
    BY <1>b, <1>2 DEF UpdateRun, OnRun, Request
  <2>2. PICK status \in StatusWrites(req[r].op), summary \in SummaryWrites(req[r].op) :
          run' = [run EXCEPT ![req[r].run] =
                    UpdatedRun(run[req[r].run], status, summary, req[r].beat)]
    BY <1>2 DEF UpdateRun
  <2>3. req[r].run = i /\ ~UpdatedRun(run[i], status, summary, req[r].beat).summary
    BY <1>a, <2>1, <2>2
  <2>4. status \in {"keep"} \cup RunStatuses
    BY DEF StatusWrites, RunStatuses
  <2>5. summary # "set"
    BY <1>0, <2>1, <2>3, <2>4, SummaryOfRow
  <2>6. req[r].op = "patch"
    BY <2>5 DEF SummaryWrites
  <2> QED
    BY <2>1, <2>3, <2>6 DEF SummaryWriter
<1>3. CASE AppendCheckpoint(r)
  <2> DEFINE j == req[r].run
             n == NextSequence(j)
  <2>1. req[r].pc = "append" /\ j \in RunIds
    BY <1>b, <1>3 DEF AppendCheckpoint, OnRun
  <2>2. run[j] \in RunRow /\ n \in Nat
    BY <1>0, <2>1 DEF RunRow, NextSequence
  <2>3. PICK given \in BOOLEAN :
          /\ req[r].op # "checkpoint" => given
          /\ run' = [run EXCEPT ![j] = [Beaten(run[j]) EXCEPT !.checkpoint_count = n,
                                                              !.summary = given]]
    BY <1>3 DEF AppendCheckpoint, SummaryAfterAppend
  <2>4. i = j /\ ~[Beaten(run[j]) EXCEPT !.checkpoint_count = n, !.summary = given].summary
    BY <1>a, <2>1, <2>3
  <2> HIDE DEF n
  <2>5. ~given
    <3>1. [Beaten(run[j]) EXCEPT !.checkpoint_count = n, !.summary = TRUE].summary
      BY ONLY <2>2, SummaryOfRow DEF RunStatuses
    <3> QED
      BY <2>4, <3>1
  <2> QED
    BY <2>1, <2>3, <2>4, <2>5 DEF SummaryWriter
<1>4. CASE InsertRun(r)
  <2>1. PICK row \in RunRow : run' = Append(run, row)
    BY <1>4, NewRunType DEF InsertRun
  <2> QED
    BY <1>0, <2>1, RunInserted
<1>5. CASE BrokerBeat(r)
  <2>1. req[r].run \in RunIds /\ run' = [run EXCEPT ![req[r].run] = Beaten(run[req[r].run])]
    BY <1>b, <1>5 DEF BrokerBeat, OnRun
  <2>2. req[r].run = i /\ ~Beaten(run[i]).summary
    BY <1>a, <2>1
  <2> QED
    BY <1>0, <2>2, SummaryOfRow DEF RunStatuses
<1> QED
  BY <1>1, <1>2, <1>3, <1>4, <1>5
     DEF Handle, PostRun, PatchRun, PostCheckpoint, PatchTask, ClaimHandoff, EngageBroker,
         Begin, Reload, ChooseProposal, ChooseForStatus, SyncUpdated, SyncInserted,
         AppendRefused, RereadRun, SyncAppended, BrokerInsert, FailureSwallowed, Abort

(* A run loses its summary only to a PATCH of the run or to a checkpoint an agent
   posts, the write that should not: no claim, proposal, change of the task's status,
   heartbeat of the broker or sweep erases it (append_task_checkpoint_atomic). *)
THEOREM SummaryLostOnlyThere == Spec => [][SummaryLostByWriter]_vars
<1>1. TypeOK /\ [Next]_vars => SummaryLostByWriter
  <2> SUFFICES ASSUME TypeOK, [Next]_vars, NEW i \in RunIds, LosesSummary(i)
               PROVE  \E r \in Requests : SummaryWriter(r, i)
    BY DEF SummaryLostByWriter
  <2>0. /\ Len(run) \in Nat /\ \A j \in RunIds : run[j] \in RunRow
        /\ run[i].summary /\ ~run'[i].summary
    BY LenProperties DEF TypeOK, RunIds, LosesSummary
  <2>1. ASSUME NEW r \in Requests, Handle(r) PROVE SummaryWriter(r, i)
    BY <2>1, HandlerLoses
  <2>2. ASSUME NEW j \in RunIds, Silence(j) PROVE FALSE
    <3>1. run' = [run EXCEPT ![j] = [run[j] EXCEPT !.silent = TRUE]]
      BY <2>2 DEF Silence
    <3>2. run'[i] = IF i = j THEN [run[j] EXCEPT !.silent = TRUE] ELSE run[i]
      BY <3>1 DEF TypeOK, RunIds
    <3> QED
      BY <2>0, <3>2, SummaryOfRow DEF RunStatuses
  <2>3. ASSUME NEW stale \in SUBSET StaleRuns, ReapRuns(stale) PROVE FALSE
    <3>1. run'[i] = IF i \in stale THEN [run[i] EXCEPT !.status = "ended"] ELSE run[i]
      BY <2>3 DEF ReapRuns
    <3> QED
      BY <2>0, <3>1, SummaryOfRow DEF RunStatuses
  <2>4. CASE UNCHANGED vars
    BY <2>0, <2>4 DEF vars
  <2> QED
    BY <2>1, <2>2, <2>3, <2>4 DEF Next
<1> QED
  BY <1>1, TypeCorrect, PTL DEF Spec

-----------------------------------------------------------------------------
(* When the task is held by a live run *)

(* Between a write of a run and the write of the pointer that follows from it. *)
Settling == {"sync-updated", "sync-inserted", "reread", "sync-appended"}

(* What the code would have to promise.  No run ends under a handler that is
   between the two; *)
NobodyEndsUnder ==
    \A i \in RunIds : Live(run[i]) /\ ~Live(run'[i]) =>
        \A r \in Requests : req[r].pc \in Settling => req[r].run # i

(* no run is inserted that has ended already; *)
NoneInsertedEnded == \A i \in RunIds' \ RunIds : Live(run'[i])

(* and the pointer is written after every update of a run: no error, and no
   crash, comes between the two. *)
PointerWritten ==
    \A r \in Requests : req[r].pc = "sync-updated" /\ req'[r].pc # "sync-updated" =>
        active_run_id' = req[r].held

(* A handler that is about to clear the pointer. *)
Clears(r) == req[r].pc = "sync-updated" /\ req[r].held = NoRun

(* A handler between the two writes works on a live run, or will clear the
   pointer; *)
Settles(r) ==
    req[r].pc \in Settling =>
        \/ Clears(r)
        \/ /\ Live(run[req[r].run])
           /\ req[r].pc = "sync-updated" => req[r].held = req[r].run

(* so that the pointer names a live run, or somebody is about to clear it. *)
PointerSettles ==
    \/ active_run_id = NoRun
    \/ Live(run[active_run_id])
    \/ \E r \in Requests : Clears(r)

HeldInv == (\A r \in Requests : Settles(r)) /\ PointerSettles

(* Handler r is the only one that moves. *)
OnlyMoves(r) == \A s \in Requests \ {r} : req'[s] = req[s]

(* A run ends under nobody else: the handlers that do not move settle as
   before. *)
LEMMA OthersSettle ==
    ASSUME TypeOK, \A r \in Requests : Settles(r), NobodyEndsUnder,
           NEW s \in Requests, req'[s] = req[s]
    PROVE  Settles(s)'
<1>1. SUFFICES ASSUME req[s].pc \in Settling, ~Clears(s)
               PROVE  /\ Live(run'[req[s].run])
                      /\ req[s].pc = "sync-updated" => req[s].held = req[s].run
  <2>1. Clears(s) => Clears(s)'
    BY DEF Clears, NoRun
  <2> QED
    BY <1>1, <2>1 DEF Settles
<1>2. /\ Live(run[req[s].run])
      /\ req[s].pc = "sync-updated" => req[s].held = req[s].run
  BY <1>1 DEF Settles
<1>3. req[s].run \in RunIds
  <2>1. req[s] \in Request /\ req[s].run # NoRun /\ Len(run) \in Nat
    BY <1>1, LenProperties DEF TypeOK, Settling, OnRun
  <2> QED
    BY <2>1 DEF Request, RunIds, NoRun
<1> QED
  BY <1>1, <1>2, <1>3 DEF NobodyEndsUnder

(* A handler that moves to a position where it settles nothing, or to one
   where it settles. *)
LEMMA AllSettle ==
    ASSUME TypeOK, \A r \in Requests : Settles(r), NobodyEndsUnder,
           NEW r \in Requests, OnlyMoves(r), Settles(r)'
    PROVE  \A s \in Requests : Settles(s)'
<1> SUFFICES ASSUME NEW s \in Requests, s # r PROVE Settles(s)'
  OBVIOUS
<1>1. req'[s] = req[s]
  BY DEF OnlyMoves
<1> QED
  BY <1>1, OthersSettle

(* The pointer stays and so does the run it names, or handler r will clear it. *)
LEMMA PointerStays ==
    ASSUME PointerSettles, PointerWritten, NEW r \in Requests, OnlyMoves(r),
           req[r].pc = "sync-updated" => req'[r].pc # "sync-updated",
           active_run_id' = active_run_id,
           Live(run[active_run_id]) /\ active_run_id # NoRun =>
               Live(run'[active_run_id]) \/ Clears(r)'
    PROVE  PointerSettles'
<1>1. CASE active_run_id = NoRun
  BY <1>1 DEF PointerSettles, NoRun
<1>2. CASE active_run_id # NoRun /\ Live(run[active_run_id])
  BY <1>2 DEF PointerSettles
<1>3. ASSUME NEW s \in Requests, Clears(s)
      PROVE  PointerSettles'
  <2>1. CASE s = r
    <3>1. active_run_id' = req[r].held
      BY <1>3, <2>1 DEF PointerWritten, Clears
    <3> QED
      BY <1>3, <2>1, <3>1 DEF PointerSettles, Clears, NoRun
  <2>2. CASE s # r
    <3>1. req'[s] = req[s]
      BY <2>2 DEF OnlyMoves
    <3>2. Clears(s)'
      BY <1>3, <3>1 DEF Clears, NoRun
    <3> QED
      BY <3>2 DEF PointerSettles
  <2> QED
    BY <2>1, <2>2
<1> QED
  BY <1>1, <1>2, <1>3 DEF PointerSettles

(* A step of one handler that settles nothing and leaves the pointer alone. *)
LEMMA QuietStep ==
    ASSUME TypeOK, HeldInv, NobodyEndsUnder, PointerWritten, NEW r \in Requests,
           OnlyMoves(r), req'[r].pc \notin Settling, active_run_id' = active_run_id,
           \A i \in RunIds : Live(run[i]) => Live(run'[i])
    PROVE  HeldInv'
<1>1. Settles(r)'
  BY DEF Settles, Settling
<1>2. \A s \in Requests : Settles(s)'
  BY <1>1, AllSettle DEF HeldInv
<1>3. active_run_id # NoRun => active_run_id \in RunIds
  <2>1. Len(run) \in Nat /\ active_run_id \in 0..Len(run)
    BY LenProperties DEF TypeOK
  <2> QED
    BY <2>1 DEF RunIds, NoRun
<1>4. req'[r].pc # "sync-updated"
  BY DEF Settling
<1>5. PointerSettles'
  BY <1>3, <1>4, PointerStays DEF HeldInv
<1> QED
  BY <1>2, <1>5 DEF HeldInv

(* A handler gives the pointer the live run it works on, or clears it. *)
LEMMA PointerGiven ==
    ASSUME TypeOK, HeldInv, NobodyEndsUnder, NEW r \in Requests, OnlyMoves(r),
           req'[r].pc \notin Settling, run' = run,
           active_run_id' = NoRun \/ Live(run[active_run_id'])
    PROVE  HeldInv'
<1>1. Settles(r)'
  BY DEF Settles, Settling
<1>2. \A s \in Requests : Settles(s)'
  BY <1>1, AllSettle DEF HeldInv
<1>3. PointerSettles'
  BY DEF PointerSettles, NoRun
<1> QED
  BY <1>2, <1>3 DEF HeldInv

(* One slot of the handlers is written. *)
LEMMA SlotWritten ==
    ASSUME TypeOK, NEW r \in Requests, NEW q, req' = [req EXCEPT ![r] = q]
    PROVE  req'[r] = q /\ OnlyMoves(r)
<1>1. req \in [Requests -> Request]
  BY DEF TypeOK
<1> QED
  BY <1>1 DEF OnlyMoves

(* What a handler holds, as a record with the position it moves to. *)
LEMMA SlotAt ==
    ASSUME TypeOK, NEW r \in Requests, NEW pc, NEW i
    PROVE  /\ [req[r] EXCEPT !.pc = pc, !.beat = FALSE, !.held = NoRun].pc = pc
           /\ [req[r] EXCEPT !.pc = pc, !.beat = FALSE, !.held = NoRun].run = req[r].run
           /\ [req[r] EXCEPT !.pc = pc, !.run = i, !.beat = FALSE, !.held = NoRun].pc = pc
           /\ [req[r] EXCEPT !.pc = pc, !.run = i, !.beat = FALSE, !.held = NoRun].run = i
           /\ Idle.pc = "idle"
<1>1. req[r] \in Request
  BY DEF TypeOK
<1> QED
  BY <1>1 DEF Request, Idle

(* The ends of a handler's step, and where it stands then. *)
LEMMA FinishMoves ==
    ASSUME TypeOK, NEW r \in Requests, Finish(r)
    PROVE  OnlyMoves(r) /\ req'[r].pc \notin Settling
<1>1. req'[r] = Idle /\ OnlyMoves(r)
  BY SlotWritten DEF Finish
<1> QED
  BY <1>1 DEF Idle, Settling

(* Go keeps the run. *)
LEMMA GoMoves ==
    ASSUME TypeOK, NEW r \in Requests, NEW pc, Go(r, pc)
    PROVE  /\ OnlyMoves(r) /\ req'[r].pc = pc
           /\ pc # "idle" => req'[r].run = req[r].run
<1>1. CASE pc = "idle"
  <2>1. req'[r] = Idle /\ OnlyMoves(r)
    BY <1>1, SlotWritten DEF Go, Finish
  <2> QED
    BY <1>1, <2>1, SlotAt
<1>2. CASE pc # "idle"
  <2> DEFINE w == [req[r] EXCEPT !.pc = pc, !.beat = FALSE, !.held = NoRun]
  <2>1. req' = [req EXCEPT ![r] = w]
    BY <1>2 DEF Go
  <2>2. w.pc = pc /\ w.run = req[r].run
    BY SlotAt
  <2> HIDE DEF w
  <2>3. req'[r] = w /\ OnlyMoves(r)
    BY <2>1, SlotWritten
  <2> QED
    BY <2>2, <2>3
<1> QED
  BY <1>1, <1>2

(* GoOn takes up another. *)
LEMMA GoOnMoves ==
    ASSUME TypeOK, NEW r \in Requests, NEW pc, NEW i, GoOn(r, pc, i)
    PROVE  OnlyMoves(r) /\ req'[r].pc = pc /\ req'[r].run = i
<1> DEFINE w == [req[r] EXCEPT !.pc = pc, !.run = i, !.beat = FALSE, !.held = NoRun]
<1>1. req' = [req EXCEPT ![r] = w]
  BY DEF GoOn
<1>2. w.pc = pc /\ w.run = i
  BY SlotAt
<1> HIDE DEF w
<1>3. req'[r] = w /\ OnlyMoves(r)
  BY <1>1, SlotWritten
<1> QED
  BY <1>2, <1>3

(* Continue goes back to the choice of a run, or ends. *)
LEMMA ContinueMoves ==
    ASSUME TypeOK, NEW r \in Requests, Continue(r)
    PROVE  OnlyMoves(r) /\ req'[r].pc \notin Settling
<1>1. CASE Finish(r)
  BY <1>1, FinishMoves
<1>2. ASSUME NEW op, req' = [req EXCEPT ![r] =
                   [req[r] EXCEPT !.pc = "choose", !.op = op, !.run = NoRun,
                                  !.beat = FALSE, !.held = NoRun]]
      PROVE  OnlyMoves(r) /\ req'[r].pc \notin Settling
  <2> DEFINE w == [req[r] EXCEPT !.pc = "choose", !.op = op, !.run = NoRun,
                                 !.beat = FALSE, !.held = NoRun]
  <2>1. req[r] \in Request
    BY DEF TypeOK
  <2>2. w.pc = "choose"
    BY <2>1 DEF Request
  <2> HIDE DEF w
  <2>3. req'[r] = w /\ OnlyMoves(r)
    BY <1>2, SlotWritten DEF w
  <2> QED
    BY <2>2, <2>3 DEF Settling
<1> QED
  BY <1>1, <1>2 DEF Continue

(* The first read. *)
LEMMA BeginMoves ==
    ASSUME TypeOK, NEW r \in Requests, NEW op, NEW pc, NEW i, NEW seen, NEW beat,
           pc \notin Settling, Begin(r, op, pc, i, seen, beat)
    PROVE  OnlyMoves(r) /\ req'[r].pc \notin Settling
<1> DEFINE w == [Idle EXCEPT !.op = op, !.pc = pc, !.run = i, !.seen = seen, !.beat = beat]
<1>1. req' = [req EXCEPT ![r] = w]
  BY DEF Begin
<1>2. w.pc = pc
  BY DEF Idle
<1> HIDE DEF w
<1>3. req'[r] = w /\ OnlyMoves(r)
  BY <1>1, SlotWritten
<1> QED
  BY <1>2, <1>3

(* The steps that write neither a run nor the pointer, apart from the read
   between an append and its write of the pointer. *)
QuietMove(r) ==
    \/ PostRun(r) \/ PatchRun(r) \/ PostCheckpoint(r) \/ PatchTask(r)
    \/ ClaimHandoff(r) \/ EngageBroker(r) \/ Reload(r) \/ ChooseProposal(r)
    \/ ChooseForStatus(r) \/ AppendRefused(r) \/ BrokerInsert(r)
    \/ FailureSwallowed(r) \/ Abort(r)

(* One handler moves, to a position where it settles nothing. *)
LEMMA QuietMoves ==
    ASSUME TypeOK, NEW r \in Requests, QuietMove(r)
    PROVE  /\ OnlyMoves(r) /\ req'[r].pc \notin Settling
           /\ UNCHANGED <<active_run_id, run>>
<1>0. {"idle", "reload", "choose", "update", "insert", "append", "broker-beat",
       "broker-insert"} \cap Settling = {}
  BY DEF Settling
<1>1. UNCHANGED <<active_run_id, run>>
  BY DEF QuietMove, PostRun, PatchRun, PostCheckpoint, PatchTask, ClaimHandoff,
         EngageBroker, Begin, Reload, ChooseProposal, ChooseForStatus, AppendRefused,
         BrokerInsert, FailureSwallowed, Abort
<1>2. CASE PostRun(r) \/ PostCheckpoint(r) \/ EngageBroker(r)
  <2>1. CASE Begin(r, "start", "insert", NoRun, NoRun, FALSE)
    BY <1>0, <1>1, <2>1, BeginMoves
  <2>2. CASE \E i : Begin(r, "checkpoint", "append", i, NoRun, FALSE)
    BY <1>0, <1>1, <2>2, BeginMoves
  <2>3. CASE Begin(r, "broker", "broker-beat", active_run_id, NoRun, FALSE)
    BY <1>0, <1>1, <2>3, BeginMoves
  <2> QED
    BY <1>2, <2>1, <2>2, <2>3 DEF PostRun, PostCheckpoint, EngageBroker
<1>3. CASE PatchRun(r)
  <2>1. PICK i, beat : Begin(r, "patch", "update", i, NoRun, beat)
    BY <1>3 DEF PatchRun
  <2> QED
    BY <1>0, <1>1, <2>1, BeginMoves
<1>4. CASE ClaimHandoff(r)
  <2>1. CASE Begin(r, "claim", "insert", NoRun, active_run_id, FALSE)
    BY <1>0, <1>1, <2>1, BeginMoves
  <2>2. CASE Begin(r, "claim", "update", active_run_id, active_run_id, FALSE)
    BY <1>0, <1>1, <2>2, BeginMoves
  <2> QED
    BY <1>4, <2>1, <2>2 DEF ClaimHandoff
<1>5. CASE PatchTask(r)
  <2>1. PICK op : req' = [req EXCEPT ![r] = [Idle EXCEPT !.op = op, !.pc = "reload",
                                                         !.old = active_run_id]]
    BY <1>5 DEF PatchTask
  <2> DEFINE w == [Idle EXCEPT !.op = op, !.pc = "reload", !.old = active_run_id]
  <2>2. w.pc = "reload"
    BY DEF Idle
  <2> HIDE DEF w
  <2>3. req'[r] = w /\ OnlyMoves(r)
    BY <2>1, SlotWritten DEF w
  <2> QED
    BY <1>0, <1>1, <2>2, <2>3
<1>6. CASE Reload(r)
  <2> DEFINE old == IF active_run_id = NoRun THEN req[r].old ELSE NoRun
             w == [req[r] EXCEPT !.pc = "choose", !.seen = active_run_id, !.old = old]
  <2>1. req' = [req EXCEPT ![r] = w]
    BY <1>6 DEF Reload
  <2>2. req[r] \in Request
    BY DEF TypeOK
  <2> HIDE DEF old
  <2>3. w.pc = "choose"
    BY <2>2 DEF Request
  <2> HIDE DEF w
  <2>4. req'[r] = w /\ OnlyMoves(r)
    BY <2>1, SlotWritten
  <2> QED
    BY <1>0, <1>1, <2>3, <2>4
<1>7. CASE ChooseProposal(r)
  <2>1. CASE Continue(r)
    BY <1>1, <2>1, ContinueMoves
  <2>2. CASE \E i : GoOn(r, "update", i)
    BY <1>0, <1>1, <2>2, GoOnMoves
  <2> QED
    BY <1>7, <2>1, <2>2 DEF ChooseProposal
<1>8. CASE ChooseForStatus(r)
  <2>1. CASE Finish(r)
    BY <1>1, <2>1, FinishMoves
  <2>2. ASSUME NEW i, NEW pc \in {"append", "update", "insert"}, GoOn(r, pc, i)
        PROVE  OnlyMoves(r) /\ req'[r].pc \notin Settling
    BY <1>0, <2>2, GoOnMoves
  <2> QED
    BY <1>1, <1>8, <2>1, <2>2 DEF ChooseForStatus
<1>9. CASE AppendRefused(r)
  BY <1>1, <1>9, ContinueMoves DEF AppendRefused
<1>10. CASE BrokerInsert(r) \/ Abort(r)
  BY <1>1, <1>10, FinishMoves DEF BrokerInsert, Abort
<1>11. CASE FailureSwallowed(r)
  <2>1. CASE Continue(r)
    BY <1>1, <2>1, ContinueMoves
  <2>2. CASE Go(r, AfterUpdate(req[r].op))
    <3>1. AfterUpdate(req[r].op) \in {"insert", "append", "idle"}
      BY DEF AfterUpdate
    <3>2. OnlyMoves(r) /\ req'[r].pc = AfterUpdate(req[r].op)
      BY <2>2, GoMoves
    <3> QED
      BY <1>0, <1>1, <3>1, <3>2
  <2>3. CASE Go(r, "broker-insert")
    BY <1>0, <1>1, <2>3, GoMoves
  <2> QED
    BY <1>11, <2>1, <2>2, <2>3 DEF FailureSwallowed
<1> QED
  BY <1>2, <1>3, <1>4, <1>5, <1>6, <1>7, <1>8, <1>9, <1>10, <1>11 DEF QuietMove

(* What the writes of the handlers leave of a live run. *)
LEMMA LiveOfRow ==
    ASSUME NEW row \in RunRow, NEW n \in Nat, NEW given \in BOOLEAN
    PROVE  Live([Beaten(row) EXCEPT !.checkpoint_count = n, !.summary = given])
               <=> Live(row)
  BY DEF Live, Beaten, RunRow

(* A heartbeat and the passing of time end nothing. *)
LEMMA LiveBeaten ==
    ASSUME NEW row \in RunRow
    PROVE  /\ Live(Beaten(row)) <=> Live(row)
           /\ Live([row EXCEPT !.silent = TRUE]) <=> Live(row)
  BY DEF Live, Beaten, RunRow

(* The run of a handler that has one, and the row of it. *)
LEMMA RunOfSlot ==
    ASSUME TypeOK
    PROVE  /\ Len(run) \in Nat
           /\ \A i \in RunIds : run[i] \in RunRow
           /\ \A r \in Requests : req[r].pc \in OnRun => req[r].run \in RunIds
           /\ active_run_id # NoRun => active_run_id \in RunIds
<1>1. Len(run) \in Nat /\ \A i \in RunIds : run[i] \in RunRow
  BY LenProperties DEF TypeOK, RunIds
<1>2. active_run_id # NoRun => active_run_id \in RunIds
  BY <1>1 DEF TypeOK, RunIds, NoRun
<1>3. ASSUME NEW r \in Requests, req[r].pc \in OnRun
      PROVE  req[r].run \in RunIds
  <2>1. req[r] \in Request /\ req[r].run # NoRun
    BY <1>3 DEF TypeOK
  <2> QED
    BY <1>1, <2>1 DEF Request, RunIds, NoRun
<1> QED
  BY <1>1, <1>2, <1>3

(* A handler points the task at its live run, or clears the pointer. *)
LEMMA SyncHeld ==
    ASSUME TypeOK, HeldInv, NobodyEndsUnder, NEW r \in Requests,
           SyncUpdated(r) \/ SyncInserted(r) \/ SyncAppended(r)
    PROVE  HeldInv'
<1>1. Settles(r)
  BY DEF HeldInv
<1>2. run' = run
  BY DEF SyncUpdated, SyncInserted, SyncAppended
<1>3. {"idle", "insert", "append"} \cap Settling = {}
  BY DEF Settling
<1>4. CASE SyncUpdated(r)
  <2>1. active_run_id' = req[r].held /\ Go(r, AfterUpdate(req[r].op))
        /\ req[r].pc = "sync-updated"
    BY <1>4 DEF SyncUpdated
  <2>2. AfterUpdate(req[r].op) \in {"insert", "append", "idle"}
    BY DEF AfterUpdate
  <2>3. OnlyMoves(r) /\ req'[r].pc \notin Settling
    BY <1>3, <2>1, <2>2, GoMoves
  <2>4. active_run_id' = NoRun \/ Live(run[active_run_id'])
    BY <1>1, <2>1 DEF Settles, Settling, Clears
  <2> QED
    BY <1>2, <2>3, <2>4, PointerGiven
<1>5. CASE SyncInserted(r)
  <2>1. active_run_id' = req[r].run /\ Go(r, AfterInsert(req[r].op))
        /\ req[r].pc = "sync-inserted"
    BY <1>5 DEF SyncInserted
  <2>2. AfterInsert(req[r].op) \in {"append", "idle"}
    BY DEF AfterInsert
  <2>3. OnlyMoves(r) /\ req'[r].pc \notin Settling
    BY <1>3, <2>1, <2>2, GoMoves
  <2>4. active_run_id' = NoRun \/ Live(run[active_run_id'])
    BY <1>1, <2>1 DEF Settles, Settling, Clears
  <2> QED
    BY <1>2, <2>3, <2>4, PointerGiven
<1>6. CASE SyncAppended(r)
  <2>1. active_run_id' = req[r].run /\ Continue(r) /\ req[r].pc = "sync-appended"
    BY <1>6 DEF SyncAppended
  <2>2. OnlyMoves(r) /\ req'[r].pc \notin Settling
    BY <2>1, ContinueMoves
  <2>3. active_run_id' = NoRun \/ Live(run[active_run_id'])
    BY <1>1, <2>1 DEF Settles, Settling, Clears
  <2> QED
    BY <1>2, <2>2, <2>3, PointerGiven
<1> QED
  BY <1>4, <1>5, <1>6

(* A handler takes up a live run to settle, and nothing else changes. *)
LEMMA SettlesLive ==
    ASSUME TypeOK, HeldInv, NobodyEndsUnder, PointerWritten, NEW r \in Requests,
           OnlyMoves(r), req[r].pc # "sync-updated", active_run_id' = active_run_id,
           req'[r].pc \in Settling \ {"sync-updated"}, Live(run'[req'[r].run]),
           \A i \in RunIds : Live(run[i]) => Live(run'[i])
    PROVE  HeldInv'
<1>1. Settles(r)'
  BY DEF Settles
<1>2. \A s \in Requests : Settles(s)'
  BY <1>1, AllSettle DEF HeldInv
<1>3. active_run_id # NoRun => active_run_id \in RunIds
  BY RunOfSlot
<1>4. PointerSettles'
  BY <1>3, PointerStays DEF HeldInv
<1> QED
  BY <1>2, <1>4 DEF HeldInv

(* A run is inserted live. *)
LEMMA InsertHeld ==
    ASSUME TypeOK, HeldInv, NobodyEndsUnder, NoneInsertedEnded, PointerWritten,
           NEW r \in Requests, InsertRun(r)
    PROVE  HeldInv'
<1>1. PICK row \in RunRow : run' = Append(run, row)
  BY NewRunType DEF InsertRun
<1>2. req[r].pc = "insert" /\ GoOn(r, "sync-inserted", Len(run) + 1)
      /\ active_run_id' = active_run_id
  BY DEF InsertRun
<1>3. OnlyMoves(r) /\ req'[r].pc = "sync-inserted" /\ req'[r].run = Len(run) + 1
  BY <1>2, GoOnMoves
<1>4. /\ Len(run) \in Nat /\ Len(run') = Len(run) + 1
      /\ \A i \in RunIds : run'[i] = run[i]
  BY <1>1, RunInserted, RunOfSlot
<1>5. Live(run'[Len(run) + 1])
  BY <1>4 DEF NoneInsertedEnded, RunIds
<1>6. /\ req[r].pc # "sync-updated"
      /\ req'[r].pc \in Settling \ {"sync-updated"}
      /\ Live(run'[req'[r].run])
      /\ \A i \in RunIds : Live(run[i]) => Live(run'[i])
  BY <1>2, <1>3, <1>4, <1>5 DEF Settling, Live
<1> QED
  BY <1>2, <1>3, <1>6, SettlesLive

(* A checkpoint is appended to a live run, which stays live. *)
LEMMA AppendHeld ==
    ASSUME TypeOK, HeldInv, NobodyEndsUnder, PointerWritten, NEW r \in Requests,
           AppendCheckpoint(r)
    PROVE  HeldInv'
<1> DEFINE i == req[r].run
           n == NextSequence(i)
<1>1. /\ req[r].pc = "append" /\ Live(run[i]) /\ Go(r, "reread")
      /\ active_run_id' = active_run_id
  BY DEF AppendCheckpoint, AcceptsCheckpoint
<1>2. i \in RunIds /\ \A j \in RunIds : run[j] \in RunRow
  BY <1>1, RunOfSlot DEF OnRun
<1>3. n \in Nat
  BY <1>2 DEF RunRow, NextSequence
<1>4. PICK given \in BOOLEAN :
        run' = [run EXCEPT ![i] = [Beaten(run[i]) EXCEPT !.checkpoint_count = n,
                                                         !.summary = given]]
  BY DEF AppendCheckpoint, SummaryAfterAppend
<1> DEFINE row == [Beaten(run[i]) EXCEPT !.checkpoint_count = n, !.summary = given]
<1>5. Live(row)
  BY <1>1, <1>2, <1>3, LiveOfRow
<1>6. run' = [run EXCEPT ![i] = row]
  BY <1>4
<1> HIDE DEF row, n
<1>7. \A j \in RunIds : run'[j] = IF j = i THEN row ELSE run[j]
  BY <1>6 DEF TypeOK, RunIds
<1>8. OnlyMoves(r) /\ req'[r].pc = "reread" /\ req'[r].run = i
  BY <1>1, GoMoves
<1>9. /\ req[r].pc # "sync-updated"
      /\ req'[r].pc \in Settling \ {"sync-updated"}
      /\ Live(run'[req'[r].run])
      /\ \A j \in RunIds : Live(run[j]) => Live(run'[j])
  BY <1>1, <1>2, <1>5, <1>7, <1>8 DEF Settling
<1> QED
  BY <1>1, <1>8, <1>9, SettlesLive

(* The read after an append changes nothing. *)
LEMMA RereadHeld ==
    ASSUME TypeOK, HeldInv, NobodyEndsUnder, PointerWritten, NEW r \in Requests,
           RereadRun(r)
    PROVE  HeldInv'
<1>1. /\ req[r].pc = "reread" /\ Go(r, "sync-appended")
      /\ active_run_id' = active_run_id /\ run' = run
  BY DEF RereadRun
<1>2. OnlyMoves(r) /\ req'[r].pc = "sync-appended" /\ req'[r].run = req[r].run
  BY <1>1, GoMoves
<1>3. Live(run[req[r].run])
  BY <1>1 DEF HeldInv, Settles, Settling, Clears
<1>4. /\ req[r].pc # "sync-updated"
      /\ req'[r].pc \in Settling \ {"sync-updated"}
      /\ Live(run'[req'[r].run])
      /\ \A j \in RunIds : Live(run[j]) => Live(run'[j])
  BY <1>1, <1>2, <1>3 DEF Settling
<1> QED
  BY <1>1, <1>2, <1>4, SettlesLive

(* An update ends the run of its own handler alone, which then clears the
   pointer. *)
LEMMA UpdateHeld ==
    ASSUME TypeOK, HeldInv, NobodyEndsUnder, PointerWritten, NEW r \in Requests,
           UpdateRun(r)
    PROVE  HeldInv'
<1> DEFINE i == req[r].run
<1>1. req[r].pc = "update" /\ active_run_id' = active_run_id
  BY DEF UpdateRun
<1>2. i \in RunIds
  BY <1>1, RunOfSlot DEF OnRun
<1>3. PICK row :
        /\ run' = [run EXCEPT ![i] = row]
        /\ req' = [req EXCEPT ![r] =
                     [req[r] EXCEPT !.pc = "sync-updated", !.beat = FALSE,
                                    !.held = IF Live(row) THEN i ELSE NoRun]]
  BY DEF UpdateRun
<1> DEFINE held == IF Live(row) THEN i ELSE NoRun
           w == [req[r] EXCEPT !.pc = "sync-updated", !.beat = FALSE, !.held = held]
<1>4. req' = [req EXCEPT ![r] = w]
  BY <1>3
<1>5. req[r] \in Request
  BY DEF TypeOK
<1> HIDE DEF held
<1>6. w.pc = "sync-updated" /\ w.run = i /\ w.held = held
  BY <1>5 DEF Request
<1> HIDE DEF w
<1>7. req'[r] = w /\ OnlyMoves(r)
  BY <1>4, SlotWritten
<1>8. \A j \in RunIds : run'[j] = IF j = i THEN row ELSE run[j]
  BY <1>3 DEF TypeOK, RunIds
<1>9. Settles(r)' /\ (~Live(row) => Clears(r)')
  <2>1. CASE Live(row)
    <3>1. held = i /\ Live(run'[i])
      BY <1>2, <1>8, <2>1 DEF held
    <3> QED
      BY <1>6, <1>7, <2>1, <3>1 DEF Settles
  <2>2. CASE ~Live(row)
    <3>1. held = NoRun
      BY <2>2 DEF held
    <3>2. Clears(r)'
      BY <1>6, <1>7, <3>1 DEF Clears, NoRun
    <3> QED
      BY <3>2 DEF Settles
  <2> QED
    BY <2>1, <2>2
<1>10. \A s \in Requests : Settles(s)'
  BY <1>7, <1>9, AllSettle DEF HeldInv
<1>11. Live(run[active_run_id]) /\ active_run_id # NoRun =>
           Live(run'[active_run_id]) \/ Clears(r)'
  BY <1>8, <1>9, RunOfSlot
<1>12. PointerSettles'
  BY <1>1, <1>7, <1>11, PointerStays DEF HeldInv
<1> QED
  BY <1>10, <1>12 DEF HeldInv

(* A heartbeat of the broker leaves a run as live as it was. *)
LEMMA BrokerHeld ==
    ASSUME TypeOK, HeldInv, NobodyEndsUnder, PointerWritten, NEW r \in Requests,
           BrokerBeat(r)
    PROVE  HeldInv'
<1> DEFINE i == req[r].run
<1>1. /\ req[r].pc = "broker-beat" /\ Go(r, "broker-insert")
      /\ active_run_id' = active_run_id
      /\ run' = [run EXCEPT ![i] = Beaten(run[i])]
  BY DEF BrokerBeat
<1>2. \A j \in RunIds : run[j] \in RunRow
  BY RunOfSlot
<1>3. \A j \in RunIds : run'[j] = IF j = i THEN Beaten(run[i]) ELSE run[j]
  BY <1>1 DEF TypeOK, RunIds
<1>4. ASSUME NEW j \in RunIds, Live(run[j])
      PROVE  Live(run'[j])
  <2>1. run'[j] = run[j] \/ run'[j] = Beaten(run[j])
    BY <1>3
  <2>2. Live(Beaten(run[j]))
    BY <1>2, <1>4, LiveBeaten
  <2> QED
    BY <1>4, <2>1, <2>2
<1>5. OnlyMoves(r) /\ req'[r].pc \notin Settling
  BY <1>1, GoMoves DEF Settling
<1> QED
  BY <1>1, <1>4, <1>5, QuietStep

(* The reaper takes the pointer off the runs it ends. *)
LEMMA ReaperHeld ==
    ASSUME TypeOK, HeldInv, NobodyEndsUnder,
           \/ \E i \in RunIds : Silence(i)
           \/ \E stale \in SUBSET StaleRuns : ReapRuns(stale)
    PROVE  HeldInv'
<1>0. \A i \in RunIds : run[i] \in RunRow
  BY RunOfSlot
<1>1. req' = req
  BY DEF Silence, ReapRuns
<1>2. \A s \in Requests : Settles(s)'
  BY <1>1, OthersSettle DEF HeldInv
<1>3. \A s \in Requests : Clears(s) => Clears(s)'
  BY <1>1 DEF Clears, NoRun
<1>4. ASSUME NEW i \in RunIds, Silence(i)
      PROVE  PointerSettles'
  <2>1. /\ run' = [run EXCEPT ![i] = [run[i] EXCEPT !.silent = TRUE]]
        /\ active_run_id' = active_run_id
    BY <1>4 DEF Silence
  <2>2. \A j \in RunIds : run'[j] = IF j = i THEN [run[i] EXCEPT !.silent = TRUE]
                                             ELSE run[j]
    BY <2>1 DEF TypeOK, RunIds
  <2>3. ASSUME NEW j \in RunIds, Live(run[j])
        PROVE  Live(run'[j])
    <3>1. run'[j] = run[j] \/ run'[j] = [run[j] EXCEPT !.silent = TRUE]
      BY <2>2
    <3>2. Live([run[j] EXCEPT !.silent = TRUE])
      BY <1>0, <2>3, LiveBeaten
    <3> QED
      BY <2>3, <3>1, <3>2
  <2> QED
    BY <1>3, <2>1, <2>3, RunOfSlot DEF HeldInv, PointerSettles, NoRun
<1>5. ASSUME NEW stale \in SUBSET StaleRuns, ReapRuns(stale)
      PROVE  PointerSettles'
  <2>1. CASE active_run_id \in stale
    <3>1. active_run_id' = NoRun
      BY <1>5, <2>1 DEF ReapRuns
    <3> QED
      BY <3>1 DEF PointerSettles, NoRun
  <2>2. CASE active_run_id \notin stale
    <3>1. active_run_id' = active_run_id
      BY <1>5, <2>2 DEF ReapRuns
    <3>2. active_run_id \in RunIds => run'[active_run_id] = run[active_run_id]
      BY <1>5, <2>2 DEF ReapRuns
    <3> QED
      BY <1>3, <3>1, <3>2, RunOfSlot DEF HeldInv, PointerSettles, NoRun
  <2> QED
    BY <2>1, <2>2
<1> QED
  BY <1>2, <1>4, <1>5 DEF HeldInv

(* Every step keeps the invariant, under the three promises. *)
LEMMA StepHeld ==
    ASSUME TypeOK, HeldInv, [Next]_vars, NobodyEndsUnder, NoneInsertedEnded, PointerWritten
    PROVE  HeldInv'
<1>1. ASSUME NEW r \in Requests, Handle(r)
      PROVE  HeldInv'
  <2>1. CASE QuietMove(r)
    <3>1. /\ OnlyMoves(r) /\ req'[r].pc \notin Settling
          /\ UNCHANGED <<active_run_id, run>>
      BY <2>1, QuietMoves
    <3> QED
      BY <3>1, QuietStep
  <2>2. CASE SyncUpdated(r) \/ SyncInserted(r) \/ SyncAppended(r)
    BY <2>2, SyncHeld
  <2>3. CASE InsertRun(r)
    BY <2>3, InsertHeld
  <2>4. CASE AppendCheckpoint(r)
    BY <2>4, AppendHeld
  <2>5. CASE RereadRun(r)
    BY <2>5, RereadHeld
  <2>6. CASE UpdateRun(r)
    BY <2>6, UpdateHeld
  <2>7. CASE BrokerBeat(r)
    BY <2>7, BrokerHeld
  <2> QED
    BY <1>1, <2>1, <2>2, <2>3, <2>4, <2>5, <2>6, <2>7 DEF Handle, QuietMove
<1>2. CASE UNCHANGED vars
  <2>1. \A s \in Requests : Settles(s)'
    BY <1>2, OthersSettle DEF HeldInv, vars
  <2> QED
    BY <1>2, <2>1 DEF HeldInv, PointerSettles, Clears, NoRun, vars
<1>3. CASE (\E i \in RunIds : Silence(i))
           \/ (\E stale \in SUBSET StaleRuns : ReapRuns(stale))
  BY <1>3, ReaperHeld
<1> QED
  BY <1>1, <1>2, <1>3 DEF Next

(* A task is held by a run that has ended only because a run ended under a handler
   about to point the task at it, a run was inserted that had ended already, or an
   update of a run was not followed by the write of the pointer: in a system that
   rules out the three, the sweep's promise holds (scripts/stale-run-sweep.ts:8).
   MCExecutionHeld reaches a state that breaks it. *)
THEOREM HeldByLiveRun ==
    /\ Spec
    /\ [][NobodyEndsUnder]_vars
    /\ [][NoneInsertedEnded]_vars
    /\ [][PointerWritten]_vars
    => []TaskHeldByLiveRun
<1>1. Init => HeldInv
  <2> SUFFICES ASSUME Init PROVE HeldInv
    OBVIOUS
  <2>1. active_run_id = NoRun /\ \A r \in Requests : req[r] = Idle
    BY DEF Init
  <2> QED
    BY <2>1 DEF HeldInv, PointerSettles, Settles, Settling, Idle
<1>2. TypeOK /\ HeldInv /\ [Next]_vars /\ [NobodyEndsUnder]_vars
      /\ [NoneInsertedEnded]_vars /\ [PointerWritten]_vars => HeldInv'
  <2> SUFFICES ASSUME TypeOK, HeldInv, [Next]_vars, [NobodyEndsUnder]_vars,
                      [NoneInsertedEnded]_vars, [PointerWritten]_vars
               PROVE  HeldInv'
    OBVIOUS
  <2>1. CASE UNCHANGED vars
    <3>1. NobodyEndsUnder /\ NoneInsertedEnded /\ PointerWritten
      BY <2>1 DEF vars, NobodyEndsUnder, NoneInsertedEnded, PointerWritten, RunIds, Live
    <3> QED
      BY <3>1, StepHeld
  <2>2. CASE NobodyEndsUnder /\ NoneInsertedEnded /\ PointerWritten
    BY <2>2, StepHeld
  <2> QED
    BY <2>1, <2>2
<1>3. HeldInv => TaskHeldByLiveRun
  BY DEF HeldInv, PointerSettles, Clears, TaskHeldByLiveRun
<1> QED
  BY <1>1, <1>2, <1>3, TypeCorrect, PTL DEF Spec
=============================================================================
