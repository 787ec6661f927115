# Verification of Holloway (a2a-comms)

Holloway lets agents propose contracts to each other, talk under them with a
budget of turns, and carry out project tasks.  It is a Next.js server over
PostgreSQL: every route handler is an asynchronous function that sends one
statement after another, so between two statements of one handler any other
handler, sweep or operator action may run.  This project models that.  The
modules are TLA+, checked with TLC on small instances and proved with TLAPS for
every instance.  Paths below are relative to the repository.

## The system's parts

Each part is listed with the state it keeps, the operations on it, what makes it
hard, and what makes it correct.

**Contract lifecycle** (`src/app/api/v1/contracts`, `lib/contract-closure.ts`,
`lib/contract-trust-policy.ts`, `insert_message_atomic`, the expiry sweeps, the
kill switch).  State: the `contracts` row (status, turns, approval, closer), the
participants' answers, the messages, the webhooks handed out.  Operations:
accept, reject, cancel, close, messages, expiry on read, the operator's close,
two sweeps, freeze.  Hard: answers and activation are separate statements;
decisions are made on a row read earlier; expiry is written over whatever the
row says by then; handlers die.  Correct when: it runs only with everybody's
consent, never exceeds its budget, ends for good, is never both approved and
refused, cannot get around its completion gate, and is announced as it is.

**Contract proposals** (`lib/contract-proposals.ts`, the handoffs of the task
routes).  State: contracts and participants of an agent against its limit.
Operations: count, insert, count again, insert the participants, roll back.  Hard:
every count is two reads, and the count, the contract and its participants are
statements of their own; a read that fails counts as no contract.  Correct when: what
the counts let an agent into is within its limit unless proposals overlap, and a
failed one leaves no contract nobody takes part in.

**Task execution** (`lib/task-execution.ts`, the run, checkpoint and task routes,
`lib/handoff-resume.ts`, `append_task_checkpoint_atomic`,
`reap_stale_execution_runs`).  State: `tasks.active_run_id`, the runs, the
checkpoints.  Operations: start, update, heartbeat, checkpoint, handoff,
escalation, status change, claim, broker engagement, reaping.  Hard: every write
of a run is followed by a second write of the task from what the first returned;
errors on the way are swallowed; the broker writes past the lock.  Correct when:
checkpoints are numbered without gaps, a run that ended takes none, a silent run
ends, and a task is not held by a run that is over.

**Idempotency keys** (`lib/idempotency.ts`).  State: one row per key, agent and
endpoint.  Operations: claim, read, replay, drop when expired, store.  Hard:
retries that overlap, failing statements, expiry.  Correct when: an operation
takes effect once per key, and what is replayed happened.

**Webhook delivery** (`lib/webhooks.ts`, `lib/webhook-helpers.ts`,
`scripts/webhook-retry-worker.ts`, the sweep's enqueue, the dashboard's edits and
requeue).  State: deliveries, the failure count and the flag of a webhook.
Operations: first attempt, page, claim, retry, give up, disable, edit, delete,
requeue.  Hard: workers with old pages; crashes between claim, answer and result;
lost writes; a count and a flag written from a snapshot.  Correct when: no attempt
is made twice, an acknowledged delivery is not sent again, only deliveries that
were given up count, and a waiting one is tried.

**Approvals** (`lib/approvals.ts`, the approve and deny routes, the dashboard's
approvals, key rotation and kill switch, `keys/rotate`).  State: the rows of
`pending_approvals`, the agent's `service_keys`, the kill switch.  Operations:
request, review, spend, rotate, restore a key, deactivate, set and clear the
switch.  Hard: reviewers and executors race; one rotation is a handful of
statements that other rotations interleave with; the switch is set before its
approval is spent; inserts fail and handlers die.  Correct when: a review is decided
once, an approval gives one key, an agent is never locked out, and a switch that is
set is followed through.

**Operator channel** (`lib/contract-operator-channel*.ts`).  Questions an
operator answers or dismisses once, by a conditional update.

**Turn state** (`lib/contract-turn-state.ts`).  A pure function of a contract and
its messages: whose turn it is.

**Contract links** (`lib/contract-links.ts`, the trigger of
`20260918070000_contract_links.sql`).  State: edges of three types between
contracts.  Operations: insert under the trigger, commit, delete.  Hard: the
trigger walks committed edges only.  Correct when: no walk leads back.

**Request authentication** (`lib/hmac.ts`, `lib/rate-limit.ts`,
`lib/middleware-auth.ts`).  Nonces, rate windows, the kill switch's flag.

**Project invitations** (`lib/project-invitations.ts`,
`scripts/project-invitation-sweep.ts`, the invitation routes, the dashboard's
project actions).  State: one row per agent and project, the membership.
Operations: invite, answer, expire, remind, join, undo, remove.  Hard: reads,
sweeps and two kinds of answers race for one row, and a renewed invitation reuses
it.  Correct when: an answer stands, a member accepted, a reminder comes once.

**Reactor** (`reactor/a2a_reactor`).  State: a queue file, a lease, the tracker's
items.  Operations: append, wake, triage, work, close, rewrite, release.  Hard: the
receiver appends without the lease while a pass rewrites the file by a rename;
workers fail; passes die; messages are redelivered.  Correct when: nothing is lost
except behind a pass, work is done once, work is closed on an approval only, and
nothing stays for ever.

**The rest**: blockers, dependencies, sprints and members, attachments,
reputation, live feed and pulse, protocol inspector, dashboard and sessions, the
database adapter, the command line client, deployment.

The parts meet in the database.  Accepting a contract may claim a task (contract
lifecycle writes task execution); a task's PATCH may propose a contract; write
routes run inside an idempotency key; nearly all of them hand events to webhook
delivery, whose receivers feed reactors.

## Modules

| Module | Models |
| --- | --- |
| `ContractRow` | what a contract promises, abstractly: offered, running, concluded or lapsed |
| `ContractLifecycle` | every writer of one contract, statement by statement; implements `ContractRow` |
| `ContractLifecycle_proofs` | its theorems |
| `TaskExecution` | every writer of one task's runs and checkpoints |
| `TaskExecution_proofs` | its theorems |
| `Idempotency` | one key and the attempts made under it |
| `Idempotency_proofs` | its theorems |
| `WebhookDelivery` | one webhook, its deliveries and everything that writes them |
| `WebhookDelivery_proofs` | its theorems |
| `Reactor` | one agent's queue, its receiver and its passes |
| `Reactor_proofs` | its theorems |
| `Approvals` | requests, reviews and what is done on an approval: rotated keys, the kill switch |
| `Approvals_proofs` | its theorems |
| `ProjectInvitations` | one agent's invitation to one project, and its membership |
| `ProjectInvitations_proofs` | its theorems |
| `ContractProposals` | proposals and handoffs, from the count to the rollback |
| `ContractLinks` | links between contracts under the cycle trigger |
| `Coordination_proofs` | the theorems of the last two |
| `MC*` | the instances TLC checks; `MCCoordination` takes approvals, invitations, proposals, links and idempotency together |

### How the models correspond to the code

A handler in flight is a slot of `Requests`: `req[r].pc` says before which of its
statements it stands, the other fields are what a later statement reads of what
an earlier one returned.  One action is one statement together with the checks
the code makes before its next `await`.  A handler that reuses a slot is a new
request.  `Abort` (`Die`, `AttemptDies`) stands for a process that dies, and for an error that
ends the handler: what was committed stays.  SQL routines that lock the row
(`insert_message_atomic`, `append_task_checkpoint_atomic`,
`reap_stale_execution_runs`) and single UPDATEs are one step.

**`ContractLifecycle`.**  `contract`, `participant` and `messages` are the
tables; `past_expiry` is `expires_at < now()`; `freeze` is where
`executeKillSwitchActivation` stands; `announced` are the events given to
`deliverWebhooks`.  `Begin` is authentication with the participant row,
`LoadContract` the read of the contract with every check on it.  Then one action
per write: `AutoClose` and `AutoCloseFails` (`autoCloseIfExpired`, whose error is
ignored), `Respond`, `CountAccepted` and `Activate` (`accept`,
`activateIfAllAccepted`), `RejectContract`, `CancelContract`, `CloseContract` (the
route and the dashboard's `closeContract`), `InsertMessage`
(`insert_message_atomic`), `Announce`.  `ExpirySweep`, `ManualSweep`,
`SetKillSwitch`, `CloseActive`, `CancelProposed`, `AbortFreeze`,
`ClearKillSwitch` and `ExpiryPasses` are everything else that touches the row.
The five message types that cost a turn are one; message bodies, reasons and
timestamps are left out.

**`TaskExecution`.**  `run` is `task_execution_runs` in the order of creation,
with the eleven statuses reduced to what the code tells apart: `queued`, a
running one, an ended one.  The reaper's clock,
`COALESCE(heartbeat_at, started_at, created_at)`, is the column it falls on and
whether that is too old; `Silence` makes it too old.  `PostRun`, `PatchRun`,
`PostCheckpoint`, `PatchTask`, `ClaimHandoff` and `EngageBroker` are the first
reads; `UpdateRun`/`SyncUpdated`, `InsertRun`/`SyncInserted` and
`AppendCheckpoint`/`RereadRun`/`SyncAppended` are the two or three statements of
the three library functions; `Reload`, `ChooseProposal` and `ChooseForStatus` are
what the task's PATCH does between them, `Continue` how it goes on to the next
part of the request, `FailureSwallowed` its `.catch(() => {})`.  `BrokerBeat` and
`BrokerInsert` are the accept route's own writes.  The agent on a run, attempt
numbers, payloads, and the task's other columns are left out.

**`Idempotency`.**  `keys` are the rows of the key (the primary key allows one),
`pc` where each attempt stands.  `ClaimKey` is the upsert.  The column `response`
is `NOT NULL` and the claim inserts NULL, so the statement always fails
(`NotNull`) and the attempt reads; the 409 for a key in progress is therefore
never given.  `Work` is the route's operation, refused or taking effect in one
step.  `late`, `blind` and `lapsed` are history: who arrived after an answer was
stored, whose read failed, whether an answer expired.

**`WebhookDelivery`.**  `webhook` and `delivery` are the rows, `clock` numbers the
values of `last_retry_at` (0 is NULL).  `proc` has one entry for the first attempt
of each delivery and one for each retry worker: its `page` is what `fetchPending`
returned, `seen` the webhook as joined to it, `job` the delivery it works on.
`Deliver`, `InsertDelivery`, `ResolveHost` and `CountAttempt` are
`deliverWebhooks`; `FetchPending`, `Claim`, `Skip` and `GiveUpUnsent` the worker;
`Send` the request of either; `MarkDeliverySuccess`, `MarkDeliveryFailed`,
`MarkRetry`, `ResetWebhookFailureState` and `IncrementFailure` the writes after it,
each of which `WriteLost` may drop, since nothing looks at their errors.  `Throws`
is a lost connection, `Crash` a restarted container.  `EnqueueBySweep` is the
insert of the expiry sweep, `EditWebhook` what registration, update and deletion
write, `InspectDelivery` and `RequeueDelivery` the two halves of the inspector's
requeue.  Whether a delay of five seconds is over is left open.  `requests`,
`receipt` and `gave_up` are history.  Event filters, signatures, payloads and the
audit log are left out.

**`Reactor`.**  `queue` are the lines of the file, `delivery` how far the receiver
is: it opens the file, then appends, and what it opened before a rename goes to a
file nobody reads (`orphaned`).  `pass` is what one reactor's pass holds: the events
read, the keys seen, the lines to retain.  `Wake` takes the lease, `ReadQueue` reads,
`DropDuplicate`, `SettleUnworked`, `ReconcileClosure` and `SpawnWorker` are the
branches of `_apply`, `WriteQueue` the rewrite, `Release` the lock's removal,
`Interrupt` an exception or a death.  `Triage` decides by the event's kind and age,
`Age` is the clock, which passes over the events without a readable timestamp
(`Undated`), `ResolveCloseOutcome` what the platform declares of a closure
(`contract-closure.ts`) and `InferredOutcome` what the reactor makes of an older
event without that field.  Prompts, artifact rules and corrupt lines are left out.

**`Approvals`.**  `approval` are the rows, `reviewed` their order by `reviewed_at`,
`serviceKey` one agent's keys by `created_at`: `current` has no expiry, `grace` has
one in the future, `expired` is still `is_active`.  `handler` is where each request
stands, `old` the keys it read and has yet to write.  `Review` is the read with all
its checks; `Approve`, `Deny` and `AlreadyDecided` the compare-and-set of the API and
the dashboard.  `ClaimRotation` and `ClaimInline` are the read of `consumeApproval`,
`ConsumeForRotation` its update, `ReadKeys`, `ExpireKey` and `InsertRotated` the
rotation, which the code has three times; `RotateOwnKey`, `RetireKey`, `ReplaceKey`
and `UndoRetire` are `keys/rotate`.  `FindApproval`, `SetKillSwitch`, `FindAgain`,
`ConsumeForSwitch` and `FreezeContracts` are `executeKillSwitchActivation`; what the
freeze meets among the contracts is in `ContractLifecycle`.  Everybody is an admin:
the others are refused.  `origin`, `overlapped` and `cutShort` are history.

**`ProjectInvitations`.**  `invitation` is the row, `member` the membership, `call`
where each request or sweep stands.  `StartInvite`, `CheckInvite` and
`UpsertInvitation` are both ways to invite, `StartAnswer`, `RecordAnswer`,
`AnswerTooLate`, `AddMember`, `AddMemberFails` and `UndoAnswer` both ways to answer:
`via` is `api` or `dashboard`, which looks neither at the expiry nor at what its
update found.  `Reconcile` is the decision of a reader or of the sweep, `Expire` and
`Remind` its update.  `overdue` and `due` are the two clocks.

**`ContractProposals`.**  `contractRow` and `participant` are the tables, `proposal`
where each call stands.  `ReadParticipations` and `JudgeCount` are the two reads of
one count, `ReadAgain` and `JudgeAgain` those of the second one, `DeleteParticipants`
and `DeleteContract` the rollback.  `CountFails` is a count one of whose reads failed:
the code looks at no error and takes the missing data for no contract; `JudgeAgain` has
the same step.  `InsertParticipants` writes proposer, invitees and observers in one
statement (`Joining`); observers are counted by nobody, though their rows count the next
time.  `passed` are the parties whose count had its answer and was within the limit, and
`admitted` (history) the participations they got by it.  `Limit` is a constant: that an
agent's `max_concurrent_contracts` is changed meanwhile is left out.  `HandOff` is a contract of a task's handoff or
escalation, which goes through the same statements but counts nothing.
`EndContract` stands for all of `ContractLifecycle`.

**`ContractLinks`.**  `links` are the committed rows; `InsertLink` is the trigger's
check in a transaction that `CommitLink` ends.  `Reachable` is the recursive query.

## What the runs check

| Run | Instance | Shows |
| --- | --- | --- |
| `contract_core` | 2 invitees, 2 handlers, gated, 1 turn, 2 messages | every safety property below, and that the handlers implement `ContractRow` |
| `contract_turns` | 2 invitees, 1 handler, ungated, 2 turns, 4 messages | the numbering over a longer conversation; every contract ends |
| `contract_outcome` | as core | *violation*: one contract is announced with two outcomes |
| `contract_freeze` | as core | *violation*: a contract is live after the freeze |
| `contract_reopen` | 1 invitee, 1 handler, ungated, with fair retries of everything | *violation*: nothing reopens a contract the kill switch closed |
| `task_core` | 1 run, 2 handlers, 2 keys | numbering, no checkpoint after the end, silent runs end |
| `task_summary` | 2 runs, 2 handlers | *violation*: a checkpoint erases the run's summary |
| `task_held` | 2 runs, 2 handlers | *violation*: a task is left with a run that is over |
| `idempotency_overlap` | 4 attempts | *violation*: attempts that overlap both take effect |
| `reactor_core` | 3 deliveries of a message, a closure, an artifact, one of them undated; 2 reactors, 1 interruption | nothing lost but behind a pass, worked once, closed on approval only, nothing dated stays |
| `coordination_core` | for each of approvals with rotations, approvals with the switch, invitations, links: 2 handlers, 1 or 2 failures; 2 proposals by 2 parties for 3 contracts, or by 3 parties with observers; 4 attempts with one idempotency key | the thirteen properties below of those components |
| `webhook_core` | 1 worker with 3 deliveries on pages of 2; 2 workers on one delivery with the owner, or with an operator; 2 retries | attempts made once, acknowledged once, counts only what was given up; waiting deliveries are tried |

Properties of the contract:

- `UnanimousActivation`: it runs, spends a turn or is approved only when everyone
  accepted, although answers, count and activation are separate statements.
- `TurnNumbersContiguous`: the numbers on the messages count the turns spent,
  whatever order the handlers commit in.
- `ExhaustedOnlyAwaitingApproval`: without turns left it is active only while its
  approval is owed.
- `GateHolds`, `OneVerdict`: a gated contract is concluded approved or explicitly
  refused, never both, although the refusal is decided on an older row.
- `AnnouncedTrue`: a verdict, an acceptance or a rejection that was announced is
  true of the rows, although `AutoClose` writes over them.
- `EndedForGood`: stale handlers never bring an ended contract back, nor change
  its turns, messages or verdict.  That is what the code does, and it contradicts
  what `security/page.tsx:743` tells operators of the kill switch ("you can always
  reopen contracts afterward"): no route, action or sweep reopens one (finding 6).
- `ImplementsRow`: every step of a handler is a step of `ContractRow` or none.
- `EventuallyEnded`: every contract ends, also one wedged in `proposed` because a
  handler died between the last answer and the activation.

Properties of a task: `CheckpointsNumbered` (also with the broker's checkpoint
numbered 999999 past the lock, under a key an agent may have used),
`EndedRunsTakeNoCheckpoint`, `SilentRunsEnd`.

Properties of a webhook:

- `AttemptsMadeOnce`: however old the page it claims from, a worker about to send
  holds an attempt that nobody else holds or has made.
- `AcknowledgedOnce`: after a 2xx nothing is sent again, whatever write is lost or
  process dies, unless an operator requeues.  It is because a row left in
  `retrying` is never claimed again; the same rows are what may fill a page.
- `CountsOnlyGivenUp`: no mix of stale counts, resets and edits makes a webhook's
  count exceed the deliveries that were given up.
- `WaitingIsTried`: a waiting delivery is tried, as long as the webhook has a url,
  no requeue interferes, and rows nobody can claim do not fill the page.

Properties of a reactor: `LostOnlyBehindAPass`, `MessageKept` (dropping a redelivery
never loses its message), `WorkedAgainOnlyAfterBreak`, `ClosedOnlyWhenApproved`,
`QueueDrains`.  The last one says that no event stays in the queue for ever, with one
exception: an event without a timestamp, or with one that cannot be parsed, is fresh for
ever (`is_stale`, `events.py:95`, as
`test_an_undateable_event_is_treated_as_fresh` asks for), so if it wakes a worker and
every worker fails, each pass retains it and the next one tries again (`RetriedForEver`).

Properties of `coordination_core`:

- `DecisionsStand`: of two reviewers one decides, and nothing denied or spent is used
  again.  `OneKeyPerApproval`: however many handlers execute an approval.
- `NeverLockedOut`: through any overlap of rotations, failing inserts and undone
  expiries an agent keeps a key that works, unless a rotation is cut short where
  nothing undoes it.  That exception is real: `InsertRotated` fails silently.
- `SwitchIsFollowedThrough`: the switch is left set over running contracts only by a
  failure or by two executions at once.
- `JoinedByAcceptance`, `AnswersStand`, `OneReminder`: whoever races for the row.  The
  exception of the first is the dashboard, which joins whatever its update found.
- `LimitHolds`: the counts let nobody into more open contracts than its limit while
  calls come one after the other, and into one more at most for each other call at the
  same time.  This is what the counts are worth, and it is less than a limit on the
  contracts an agent has open.  They do not look at the observers, whose rows
  `contract-proposals.ts:229-235` inserts and every later count includes; nor at
  handoffs; and a count that could not be read passes as zero.  Through each of these an
  agent exceeds its limit by proposals that overlap no other, and that is why
  `AdmittedTo` counts only what a count with an answer let in.
  Nor does the second count help.  The comment at `contract-proposals.ts:192` calls it a
  "CAS guard against race conditions", since "another proposal may have been inserted
  between the count check and our insert"; but it counts participations, and those of the
  contract it guards, or of one inserted just before, are not there yet, and it compares
  with `>`.  Two calls at the same time of an agent with a limit of one both pass it.
  So the bound really grows with the calls handled at the same time.
- `NoOrphans`: a failed proposal or handoff leaves no open contract without
  participants, unless a call dies or its rollback fails.
- `NoCycle`: no walk of the trigger's length leads back, unless two inserts overlap.
- `KeysTypeOK`, `AnswersTrue`, `NoRepeatAfterAnswer` of the key: at most one row, what is
  answered or replayed took effect, and a retry after the stored answer changes nothing.

### Findings

1. `contract_outcome`: `autoCloseIfExpired` (`_helpers.ts:25`) updates by id
   alone.  A handler that read the contract live writes expiry over a closure
   committed since and announces a second outcome.
2. `contract_freeze`: the kill switch closes active contracts, then cancels
   proposed ones; an accept in flight activates one in between.
3. `task_summary`: the checkpoint route passes `summary ?? null`, which the
   library takes for a summary that was given.
4. `task_held`: a run created with an ending status, or a checkpoint's late
   second write, leaves the task with a run that is over; the reaper looks at
   live runs only.
5. `idempotency_overlap`: the claim of a key violates the column's `NOT NULL`, so
   concurrent retries are not kept apart.
6. `contract_reopen`: the security page ends its section on the kill switch with "you can
   always reopen contracts afterward" (`security/page.tsx:743`).  Lifting the switch only
   clears its flag, and no operation leads from a closed contract back.  The run has
   everybody try everything for ever (`TirelessSpec`), and the contract stays closed.

### Bounds

`Requests` bounds the handlers at one time, not in total: slots are reused, so
any sequence of operations of any length within the other bounds is explored.
Two handlers are enough for every race here, since each is between one handler's
read and another's write, and the sweeps, the freeze and the clock are actors of
their own.  Two invitees are the fewest for which one answer does not activate.
`MaxTurns = 1` puts the first turn, the last turn and the approval next to each
other; `contract_turns` has two for the numbering.  `MaxMessages` ends a
conversation of free receipts.  `MaxRuns = 1` in `task_core` keeps every
interleaving of two handlers on one run within reach, and what the properties
say of a run concerns no other; the theorems hold for any number.  With two
keys a run takes an agent's checkpoint and the broker's in both orders, and
collides on both constraints.  `BrokerSequence = 9` is out of reach of the
counter, as 999999 is.  Four attempts with a key are two that overlap, one that
comes after an answer and one after expiry.  `WebhookDelivery`'s
`Scenarios` names who takes part together, since all at once are too many: two
workers meet on one row, with the owner or an operator, and one worker meets the
`LIMIT` with three rows on pages of two.  `MaxRetries = 2` has a retry that is
not the last, `DisableAt = 2` disables a webhook after two of the three.
`Reactor` has two deliveries of one message, so that the
first may fail and the second be dropped, and one interruption.  In
`MCCoordination` one component works in each behaviour, as they share no state.  Two
approvals and two handlers with three keys have two rotations overlap with the
agent's own; one approval more would only repeat it.  Two failures let a failed insert
meet a failed undo.  An invitation is made twice, so that stale sweeps and answers
meet a renewed row.  Limits of one and two with three contracts have the limit reached
and freed again, with the second contract from a handoff or a proposal, and a second fault
only where it meets the rollback of the first; the third party, which has no limit, and
the observers take part in behaviours of their own with two contracts, enough for a
contract that an agent observes and one it is counted for.  `MaxMisses` bounds failing
reads together with failing writes: one lets one count pass unread.  Three contracts
with links of two types have a cycle of three and one across the types.
Symmetry is used only where no liveness is
checked.  `CHECK_DEADLOCK FALSE` is set for
`Idempotency`, whose attempts finish, for `WebhookDelivery`, where nothing is
left to do once every row is delivered or given up, and for `MCCoordination`, where
every approval may be spent, every contract ended and every attempt finished.

### Fairness

`ContractLifecycle!FairSpec` has weak fairness of `ExpiryPasses` (time) and of
`ExpirySweep` (a systemd timer runs it hourly, in one statement, and nothing
disables it while a live contract is past its expiry).
`TaskExecution!FairSpec` has weak fairness of `ReapRuns` of everything stale: its
container runs the sweep in an endless loop and restarts when it dies
(`Dockerfile`, `docker-compose.yml`); rows locked at that moment are skipped,
which other instances of `ReapRuns` model, but a lock lasts one statement.
No handler has any fairness: it may stop anywhere.
`WebhookDelivery!FairSpec` has strong fairness of a worker's `FetchPending` of rows
that are all due and of its `Claim`: `main` polls for ever, its container is
restarted, a poll comes ten seconds after the last and the delay is five, and a
claim that is repeated without end is not refused by the database every time.  Its
other steps, bounded by the request's timeout, are weakly fair.  First attempts,
owner and operator have none.
`Reactor!FairSpec` has weak fairness of time, for the events that have a timestamp
(the others never age), and of some reactor's next step: the
reactor's README has it woken by a periodic sweep besides the webhooks, and a pass
that is not interrupted goes on; interruptions are bounded.  Workers may always fail
and receivers never come.
`ContractLifecycle!TirelessSpec` is no claim about the code: it adds weak fairness of
the handlers' next step and strong fairness of attempts at every operation and of
lifting the switch, so that the violation of `contract_reopen` is not due to somebody
who stopped trying.

## What is proved

TLAPS checks these for every value of the constants, under the assumptions named
in the modules (`ContractAssumption`, `ExecutionAssumption`,
`IdempotencyAssumption`, `DeliveryAssumption`, `ReactorAssumption`,
`ApprovalsAssumption`, `InvitationsAssumption`, `ProposalsAssumption`,
`LinksAssumption`), which say that proposer, invitees and observers are
different agents, that bounds are natural numbers, and the like.

**Contracts.**  `TypeCorrect`, `ActivatedByAll`, `ExhaustedAwaits`,
`GateNeverBypassed`, `NoDoubleVerdict`, `NothingFalseAnnounced`, `TurnsNumbered`,
`NeverRevived`, `OneConclusion` and `Implementation` (refinement of `ContractRow`).  The
properties are not inductive alone: a handler about to activate, close or
announce acts on what it read.  The inductive invariant adds what ties each slot
to the tables: a handler that counted holds a unanimous answer, which no later
statement can withdraw because an answer is given once; an event waiting to be
announced is already true; a row's verdict and its ending go together.  Facts
that only grow (an accepted answer, an approval) make those claims stable, and
the statement guards (`WHERE status = ...`) do the rest.

**Runs.**  `Invariant`, `TypeCorrect`, `Numbered`, `NoCheckpointAfterTheEnd`.  The
invariant is the types, which include that every pointer names a run and every
handler past its reads has one, with the numbering.  A step writes one row,
appends one, or reaps some; none but the append moves a counter, and the append
takes the number it moves the counter to.

**Keys.**  `KeysTyped`, `ToldTheTruth`, `LateRetrySafe`.  A late retry is safe because, until
an answer expires, a stored row can be overwritten but never deleted, so the
read finds an answer; and every row is the answer of an operation that took
effect, as the claim never becomes a row.

**Webhooks.**  `DeliveriesTypes`, `NoAttemptTwice`, `CountsAddNone`, `AcknowledgedStays`, for any number of
deliveries, workers and retries.  The attempts of a row never go down, so they are
never behind a request sent for it or about to be; the claim puts the row one ahead of
what it was when it matched, and so ahead of all of those.  That the first attempt
may write the count 1 without going back needs `Fresh` and `HeldLate`: until then no
worker has met the row.  A count was read no higher than the deliveries given up, and
who writes it back plus one has given up one more.  And until an operator requeues a
row (`Single`), one process at most has it between a claim and the write of its result,
and it does not wait while it is had: the one that hears the 2xx is the only one that
could have put it back, and it does not.

**The reactor.**  `TypeCorrect`, `NothingElseLost`, `RedeliveriesDropSafely`,
`WorkedOnce`, `ClosedOnEvidence`.  The invariant says what a pass owes: with the lease
in one hand only, every event of the file is in what the pass has yet to read, has
settled or retains, or was written behind it; a key is seen only with a delivery that
was settled or is retained.

**Approvals.**  `ApprovalsTypes`, `ApprovalsSpendOnce`, `RotationsLeaveAKey`,
`SwitchCompletes`, `ReviewsStand`.  Who is between spending and inserting owes the key
of an approval that nobody else owes; keys without a successor have a rotation behind
them that ends in a key, a restored key or `cutShort`; and an execution that is alone
still finds the approval it found first, since nobody else may spend one.

**Invitations.**  `InvitationsTypes`, `MembersAccepted`, `RemindersOnce`,
`ResolvedStands`.  Who is about to join has recorded an acceptance, or the row was
crossed; the reminders sent are those the row knows of.

**Proposals.**  `ProposalsTypes`, `CallsKeepApart`, `NobodyIsLeftOut`, `LimitIsKept`.
Every call makes a contract of its own, which nobody else has read of while it has no
participants.  For the limit the invariant counts, for each agent, the open contracts
that a count let it into (`AdmittedTo`) together with the calls that were let through and have not entered
theirs yet: at most the limit less one and the width, which is 1 while calls are handled
one at a time and the number of calls otherwise.  A call that has counted but not judged
must leave room as well, in whatever order the others judge (`Roomy`): take it, those that
have read no more than it and those already let through.  Either they all fit within that
bound beside what is open, or they and the contracts it has not seen fit within the width;
in the second case its own count, if it passes, brings it within the bound.  A contract that
ends can reorder who has read less, but what the readers saw of the open ones is always a
chain, so the claim of one passes to the next.
The lemmas on this (`RoomForTheNext`, `RoomToRead`, `RoomToPass`) are about finite
sets alone.  The argument never uses what the second count decides: what keeps the
limit is the first.  What a call holds in `passed` is what ties the two: a party whose
count failed is not in it, so it is not let through, and neither are observers or the
parties of a handoff; what they take part in was read by the later counts, but a count
that passes has room for what was admitted all the more.

**Links.**  `LinksTypes`, `LinksStayAcyclic`, `NoCircleAmongFew`.  If `l` passes the
trigger, a walk over the links with `l` that comes back crosses `l`, and cut there it is a
walk without `l` that already came back (`FoundOverLink`).  What the walk finds in so many
steps is counted up by a least-number argument from the well-foundedness of finite subsets,
as induction over data is out of the provers' reach.  A walk that finds nothing new in a
step never will, so with no more contracts than steps it is complete and there is no circle
of any length: the bound of the recursive query (64) costs nothing until there are more
contracts than that to link.

**What the findings leave.**  For each of them a theorem says what the failure needs.
Where it needs a race or an error, ruling that out is an action property the code would
have to promise, a hypothesis beside `Spec` and never part of an action, and the theorem
derives the violated property from it.  The code keeps none of these promises, and without
any one of them TLC finds the violation again.

- `OneConclusion` (1): of everything announced or about to be, the conclusions agree, so
  two outcomes differ only when one of them is the expiry.  It needs no promise.
- `FreezeMissesActivationsOnly` (2): if no accept activates the contract between the
  switch's two updates (`NoneActivated`), `FreezeLeavesNothingLive` holds.  Every other
  race is harmless, as a row that has ended is never brought back (`NeverRevived`).
- `SummaryLostOnlyThere` (3): a summary is lost to a PATCH of the run or to an agent's
  checkpoint, and to no other writer.  It needs no promise either.
- `HeldByLiveRun` (4): `TaskHeldByLiveRun` holds if no run ends under a handler between
  its write of a run and its write of the pointer (`NobodyEndsUnder`), none is inserted
  ended (`NoneInsertedEnded`) and the pointer is written after every update of a run
  (`PointerWritten`).  The invariant has every handler between the two writes on a live
  run or about to clear the pointer (`Settles`), and the pointer on a live run unless
  somebody is about to clear it (`PointerSettles`).  Handlers that start or claim at the
  same time, errors elsewhere and the stale choice of a run break nothing.
- `OnceIfClaimed` (5): `TakesEffectOnce` holds if nobody who could read the key goes to
  work beside another (`ClaimHolds`, what the comment at `idempotency.ts:42` says of the
  claim) and every answer is stored (`AnswerKept`).
- `NeverRevived` (6): it is `EndedForGood` for any number of handlers, so nothing reopens
  a contract, by whatever race.

Model-checked only: liveness (`EventuallyEnded`, `SilentRunsEnd`, `WaitingIsTried`,
`QueueDrains`), as TLAPS reaches neither fairness nor `ENABLED`, and the violations,
which are behaviours TLC exhibits.  Every other property of a passing run is a theorem.

## What is not modelled

Cryptography, storage, rendering, scores, notifications and deployment are I/O or
arithmetic over data.  Nonces and rate windows are one atomic statement each.
`cleanup_expired_idempotency_keys` is defined but called by nothing.  The operator
channel answers and dismisses a question by one conditional update, the shape that
`Approvals` checks.  Blockers, dependencies, sprints and attachments are single
statements, or files.  `PROJECT.json` has the status of each part.

## Plan

What is left, in order:

1. Compositions: idempotency around `InsertMessage`, and the claim of a handoff
   inside the accept of its contract.
2. Turn state as an operator over the message log of `ContractLifecycle`.
3. The operator channel, and a task's blockers and dependencies, each as a component
   of `MCCoordination`.
