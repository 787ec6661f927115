-------------------------- MODULE WebhookDelivery --------------------------
(***************************************************************************)
(* One webhook, the deliveries made to it, and everything that writes      *)
(* either: the first attempt (src/src/lib/webhooks.ts), the retry workers  *)
(* (src/scripts/webhook-retry-worker.ts), the expiry sweep's enqueue, the  *)
(* owner's edits and the inspector's requeue.                              *)
(*                                                                         *)
(* The first attempt of delivery d is the process d; a retry worker takes  *)
(* a page of rows and works through it.  The database adapter returns      *)
(* errors and neither looks at those of its writes: a write may be lost    *)
(* and the process goes on.                                                *)
(***************************************************************************)
EXTENDS Naturals, FiniteSets

CONSTANTS
    Deliveries,      \* ids of the deliveries, each made once at most
    Swept,           \* those the expiry sweep enqueues
    Workers,         \* retry workers
    Owner, Operator, \* the people: the webhook's owner, an operator
    Scenarios,       \* bound: which of all these take part together
    MaxRetries,      \* MAX_RETRIES, 5
    PageSize,        \* MAX_DELIVERIES_PER_CYCLE, 10
    DisableAt,       \* the count that disables a webhook, 10
    None             \* no job

ASSUME DeliveryAssumption ==
    /\ IsFiniteSet(Deliveries)
    /\ Swept \subseteq Deliveries
    /\ Workers \cap Deliveries = {}
    /\ Scenarios \subseteq SUBSET (Workers \cup Deliveries \cup {Owner, Operator})
    /\ MaxRetries \in Nat \ {0}
    /\ PageSize \in Nat \ {0}
    /\ DisableAt \in Nat \ {0}
    /\ None \notin [id : Deliveries, attempts : 0..MaxRetries, at : Nat]

VARIABLES
    webhook,         \* its row in webhooks
    delivery,        \* webhook_deliveries
    clock,           \* the last last_retry_at that was handed out
    proc,            \* first attempts and workers
    inspected,       \* deliveries an operator is about to requeue
    acting,          \* bound: the scenario that is played
    requests,        \* history: the requests sent
    receipt,         \* history: whether the receiver answered with a 2xx, or
                     \* an operator requeued the delivery before or after
    gave_up          \* history: how many deliveries were given up

vars == <<webhook, delivery, clock, proc, inspected, acting,
          requests, receipt, gave_up>>
aside == <<acting, requests, receipt, gave_up>>

-----------------------------------------------------------------------------
(* Types *)

(* Counts stop at DisableAt, from where on they all mean the same. *)
Counts == 0..DisableAt

(* A webhook that was deleted keeps its row and loses its url. *)
Webhook == [is_active : BOOLEAN, url : BOOLEAN, failure_count : Counts]
Seen == [url : BOOLEAN, failure_count : Counts]

Attempts == 0..MaxRetries

Statuses == {"none", "pending", "pending_retry", "retrying", "success",
             "failed"}

(* last_retry_at is 0 for NULL. *)
Delivery == [status : Statuses, attempts : Attempts, last_retry_at : Nat]

(* What a process knows of the row it works on; at is the `now` of its claim. *)
Job == [id : Deliveries, attempts : Attempts, at : Nat]

Writes == {"mark-success", "reset", "mark-failed", "increment", "mark-retry"}

Process == [pc : {"idle", "over", "insert", "resolve", "count", "page", "send"}
                   \cup Writes,
            job : Job \cup {None},
            page : SUBSET Job,           \* the rest of the worker's page
            seen : Seen]                 \* the webhook as read with the page

Idle == [pc |-> "idle", job |-> None, page |-> {},
         seen |-> [url |-> TRUE, failure_count |-> 0]]

Init ==
    /\ webhook = [is_active |-> TRUE, url |-> TRUE, failure_count |-> 0]
    /\ delivery = [d \in Deliveries |->
                     [status |-> "none", attempts |-> 0, last_retry_at |-> 0]]
    /\ clock = 0
    /\ proc = [p \in Workers \cup Deliveries |-> Idle]
    /\ inspected = {}
    /\ acting \in Scenarios
    /\ requests = {} /\ gave_up = 0
    /\ receipt = [d \in Deliveries |-> "none"]

-----------------------------------------------------------------------------
(* Moving a process *)

CountUp(n) == IF n < DisableAt THEN n + 1 ELSE DisableAt

(* After a job a worker goes on with its page; a first attempt is over. *)
NextJob(p) ==
    IF p \in Workers /\ proc[p].page # {}
      THEN [proc[p] EXCEPT !.pc = "page", !.job = None]
    ELSE [Idle EXCEPT !.pc = IF p \in Workers THEN "idle" ELSE "over"]

Goto(p, pc) ==
    proc' = [proc EXCEPT ![p] = IF pc = "next" THEN NextJob(p)
                                ELSE [proc[p] EXCEPT !.pc = pc]]

(* Mutant of AfterWrite: every failed attempt counts against the webhook. *)
AfterWriteCounting(pc) ==
    CASE pc = "mark-success" -> "reset"
      [] pc \in {"mark-failed", "mark-retry"} -> "increment"
      [] pc \in {"reset", "increment"} -> "next"

AfterWrite(pc) ==
    CASE pc = "mark-success" -> "reset"
      [] pc = "mark-failed" -> "increment"
      [] pc \in {"reset", "increment", "mark-retry"} -> "next"

(* The number of the attempt p makes: 0 is the first one, whatever the row
   says, and a worker counts from the row it read. *)
Attempt(p) == IF p \in Workers THEN proc[p].job.attempts + 1 ELSE 0

Request(p) == [id |-> proc[p].job.id, attempt |-> Attempt(p)]

AfterSend(p, ok) ==
    IF ok THEN "mark-success"
    ELSE IF Attempt(p) >= MaxRetries THEN "mark-failed"
    ELSE "mark-retry"

(* sendWebhookRequest: not ok is a refusal, a timeout or a lost answer. *)
Send(p) ==
    /\ proc[p].pc = "send"
    /\ requests' = requests \cup {Request(p)}
    /\ \E ok \in BOOLEAN :
         /\ receipt' = IF ok /\ receipt[proc[p].job.id] = "none"
                         THEN [receipt EXCEPT ![proc[p].job.id] = "ok"]
                       ELSE receipt
         /\ gave_up' = IF AfterSend(p, ok) = "mark-failed" THEN CountUp(gave_up)
                                                           ELSE gave_up
         /\ Goto(p, AfterSend(p, ok))
    /\ UNCHANGED <<webhook, delivery, clock, inspected, acting>>

-----------------------------------------------------------------------------
(* deliverWebhooks: the first attempt *)

(* It reads the active webhooks, then inserts a row for each. *)
Deliver(d) ==
    /\ d \notin Swept
    /\ proc[d].pc = "idle"
    /\ webhook.is_active
    /\ proc' = [proc EXCEPT ![d] =
                  [Idle EXCEPT !.pc = "insert",
                               !.job = [id |-> d, attempts |-> 0, at |-> 0]]]
    /\ UNCHANGED <<webhook, delivery, clock, inspected, aside>>

InsertDelivery(d) ==
    /\ proc[d].pc = "insert"
    /\ delivery' = [delivery EXCEPT ![d].status = "pending"]
    /\ Goto(d, "resolve")
    /\ UNCHANGED <<webhook, clock, inspected, aside>>

(* resolveAndValidateHost *)
ResolveHost(d) ==
    /\ proc[d].pc = "resolve"
    /\ \/ /\ Goto(d, "count")
          /\ UNCHANGED delivery
       \/ /\ delivery' = [delivery EXCEPT ![d].status = "pending_retry",
                                          ![d].attempts = 1]
          /\ Goto(d, "next")
    /\ UNCHANGED <<webhook, clock, inspected, aside>>

CountAttempt(d) ==
    /\ proc[d].pc = "count"
    /\ \/ delivery' = [delivery EXCEPT ![d].status = "pending",
                                       ![d].attempts = 1]
       \/ UNCHANGED delivery
    /\ Goto(d, "send")
    /\ UNCHANGED <<webhook, clock, inspected, aside>>

(* The sweep's SQL inserts the row in the statement that reads the webhook. *)
EnqueueBySweep(d) ==
    /\ d \in Swept
    /\ proc[d].pc = "idle"
    /\ webhook.is_active
    /\ delivery' = [delivery EXCEPT ![d].status = "pending_retry"]
    /\ proc' = [proc EXCEPT ![d].pc = "over"]
    /\ UNCHANGED <<webhook, clock, inspected, aside>>

-----------------------------------------------------------------------------
(* The retry worker *)

Waiting == {d \in Deliveries :
              delivery[d].status \in {"pending_retry", "retrying"}}

(* ORDER BY last_retry_at NULLS FIRST LIMIT PageSize *)
IsPage(page) ==
    /\ page \subseteq Waiting
    /\ Cardinality(page) <= PageSize
    /\ page # Waiting => Cardinality(page) = PageSize
    /\ \A d \in page, e \in Waiting \ page :
         delivery[d].last_retry_at <= delivery[e].last_retry_at

(* Mutant of ShouldRetry: one attempt too many. *)
ShouldRetryOneMore(d, due) ==
    /\ delivery[d].attempts <= MaxRetries
    /\ delivery[d].last_retry_at = 0 \/ d \in due

(* shouldRetry; due are the rows whose delay is over by this worker's clock. *)
ShouldRetry(d, due) ==
    /\ delivery[d].attempts < MaxRetries
    /\ delivery[d].last_retry_at = 0 \/ d \in due

SeenNow == [url |-> webhook.url, failure_count |-> webhook.failure_count]

(* The filter is applied to what the LIMIT has left. *)
FetchPending(w, due) ==
    /\ proc[w].pc = "idle"
    /\ \E page \in SUBSET Waiting :
         LET retry == {d \in page : ShouldRetry(d, due)} IN
         /\ IsPage(page)
         /\ retry # {}
         /\ proc' = [proc EXCEPT ![w] =
              [Idle EXCEPT !.pc = "page", !.seen = SeenNow,
                 !.page = {[id |-> d, attempts |-> delivery[d].attempts,
                            at |-> 0] : d \in retry}]]
    /\ UNCHANGED <<webhook, delivery, clock, inspected, aside>>

Take(w, job, pc, at) ==
    proc' = [proc EXCEPT ![w] =
               [proc[w] EXCEPT !.pc = pc, !.job = [job EXCEPT !.at = at],
                               !.page = proc[w].page \ {job}]]

(* Mutants of ClaimMatches: the status alone; a row left in 'retrying' counts
   as free; and the attempt to be made in place of the attempts made. *)
ClaimMatchesStatus(job) == delivery[job.id].status = "pending_retry"
ClaimMatchesAttempts(job) ==
    /\ delivery[job.id].status \in {"pending_retry", "retrying"}
    /\ delivery[job.id].attempts = job.attempts

ClaimMatchesNext(job) ==
    /\ delivery[job.id].status = "pending_retry"
    /\ delivery[job.id].attempts = job.attempts + 1

(* The compare-and-set of the claim. *)
ClaimMatches(job) ==
    /\ delivery[job.id].status = "pending_retry"
    /\ delivery[job.id].attempts = job.attempts

Claim(w) ==
    /\ proc[w].pc = "page"
    /\ proc[w].seen.url
    /\ \E job \in proc[w].page :
         /\ ClaimMatches(job)
         /\ clock' = clock + 1
         /\ delivery' = [delivery EXCEPT ![job.id] =
                           [status |-> "retrying", attempts |-> job.attempts + 1,
                            last_retry_at |-> clock']]
         /\ Take(w, job, "send", clock')
    /\ UNCHANGED <<webhook, inspected, aside>>

(* The claim missed, or failed. *)
Skip(w) ==
    /\ proc[w].pc = "page"
    /\ proc[w].seen.url
    /\ \E job \in proc[w].page :
         proc' = [proc EXCEPT ![w] =
                    IF proc[w].page = {job} THEN Idle
                    ELSE [proc[w] EXCEPT !.page = proc[w].page \ {job}]]
    /\ UNCHANGED <<webhook, delivery, clock, inspected, aside>>

(* A delivery whose webhook has no url is given up without a claim. *)
GiveUpUnsent(w) ==
    /\ proc[w].pc = "page"
    /\ ~proc[w].seen.url
    /\ \E job \in proc[w].page : Take(w, job, "mark-failed", 0)
    /\ gave_up' = CountUp(gave_up)
    /\ UNCHANGED <<webhook, delivery, clock, inspected, acting, requests,
                   receipt>>

-----------------------------------------------------------------------------
(* The writes that follow an attempt *)

MarkDelivery(p, pc, status) ==
    /\ proc[p].pc = pc
    /\ delivery' = [delivery EXCEPT ![proc[p].job.id].status = status]
    /\ Goto(p, AfterWrite(pc))
    /\ UNCHANGED <<webhook, clock, inspected, aside>>

MarkDeliverySuccess(p) == MarkDelivery(p, "mark-success", "success")
MarkDeliveryFailed(p) == MarkDelivery(p, "mark-failed", "failed")

MarkRetry(p) ==
    LET job == proc[p].job IN
    /\ proc[p].pc = "mark-retry"
    /\ delivery' = [delivery EXCEPT ![job.id].status = "pending_retry",
                                    ![job.id].last_retry_at = job.at]
    /\ Goto(p, AfterWrite("mark-retry"))
    /\ UNCHANGED <<webhook, clock, inspected, aside>>

ResetWebhookFailureState(p) ==
    /\ proc[p].pc = "reset"
    /\ webhook' = [webhook EXCEPT !.failure_count = 0]
    /\ Goto(p, AfterWrite("reset"))
    /\ UNCHANGED <<delivery, clock, inspected, aside>>

(* Both columns are written from the count read with the page. *)
IncrementFailure(p) ==
    LET count == CountUp(proc[p].seen.failure_count) IN
    /\ proc[p].pc = "increment"
    /\ webhook' = [webhook EXCEPT !.failure_count = count,
                                  !.is_active = count < DisableAt]
    /\ Goto(p, AfterWrite("increment"))
    /\ UNCHANGED <<delivery, clock, inspected, aside>>

WriteLost(p) ==
    /\ proc[p].pc \in Writes
    /\ Goto(p, AfterWrite(proc[p].pc))
    /\ UNCHANGED <<webhook, delivery, clock, inspected, aside>>

(* No connection to the database: a worker goes on with its next job, a first
   attempt is abandoned. *)
Throws(p) ==
    /\ proc[p].pc \in {"insert", "resolve", "count", "send"} \cup Writes
    /\ Goto(p, "next")
    /\ UNCHANGED <<webhook, delivery, clock, inspected, aside>>

(* The worker's container is restarted. *)
Crash(w) ==
    /\ proc[w].pc # "idle"
    /\ proc' = [proc EXCEPT ![w] = Idle]
    /\ UNCHANGED <<webhook, delivery, clock, inspected, aside>>

-----------------------------------------------------------------------------
(* The owner and the operator *)

(* updateWebhook, deleteWebhook and the registration of the same url. *)
EditWebhook ==
    /\ \/ webhook' = [webhook EXCEPT !.is_active = TRUE, !.failure_count = 0]
       \/ webhook' = [webhook EXCEPT !.is_active = FALSE]
       \/ webhook' = [webhook EXCEPT !.is_active = FALSE, !.url = FALSE]
       \/ webhook' = [webhook EXCEPT !.url = TRUE]
    /\ UNCHANGED <<delivery, clock, proc, inspected, aside>>

(* requeueWebhookDelivery: the checks, then the update that repeats only the
   one on the status. *)
InspectDelivery(d) ==
    /\ webhook.is_active
    /\ delivery[d].status \in {"failed", "pending_retry"}
    /\ delivery[d].attempts < MaxRetries
    /\ inspected' = inspected \cup {d}
    /\ UNCHANGED <<webhook, delivery, clock, proc, aside>>

RequeueDelivery(d) ==
    /\ d \in inspected
    /\ inspected' = inspected \ {d}
    /\ IF delivery[d].status \in {"failed", "pending_retry"}
         THEN /\ delivery' = [delivery EXCEPT ![d].status = "pending_retry",
                                              ![d].last_retry_at = 0]
              /\ receipt' = [receipt EXCEPT ![d] = "requeued"]
         ELSE UNCHANGED <<delivery, receipt>>
    /\ UNCHANGED <<webhook, clock, proc, acting, requests, gave_up>>

-----------------------------------------------------------------------------
(* The specification *)

FirstAttempt(d) == \/ Deliver(d) \/ InsertDelivery(d) \/ ResolveHost(d)
                   \/ CountAttempt(d) \/ EnqueueBySweep(d)

Work(w) == \/ \E due \in SUBSET Deliveries : FetchPending(w, due)
           \/ Claim(w) \/ Skip(w) \/ GiveUpUnsent(w) \/ Crash(w)

Finish(p) == \/ MarkDeliverySuccess(p) \/ MarkDeliveryFailed(p) \/ MarkRetry(p)
             \/ ResetWebhookFailureState(p) \/ IncrementFailure(p)
             \/ WriteLost(p)

Next == \/ \E d \in Deliveries \cap acting : FirstAttempt(d)
        \/ \E w \in Workers \cap acting : Work(w)
        \/ \E p \in Workers \cup Deliveries : Send(p) \/ Finish(p) \/ Throws(p)
        \/ Owner \in acting /\ EditWebhook
        \/ /\ Operator \in acting
           /\ \E d \in Deliveries : InspectDelivery(d) \/ RequeueDelivery(d)

Spec == Init /\ [][Next]_vars

(* A worker polls for ever, and ten seconds between two polls are more than
   the delay of five: a page it reads holds rows that are all due.  A request
   is answered or times out.  A claim that is tried again and again goes
   through once.  Nothing is promised of first attempts, owner or operator. *)
FairSpec ==
    /\ Spec
    /\ \A w \in Workers :
         /\ SF_vars(FetchPending(w, Deliveries))
         /\ SF_vars(Claim(w))
         /\ WF_vars(Skip(w) \/ GiveUpUnsent(w) \/ Send(w) \/ Finish(w))

-----------------------------------------------------------------------------
(* Properties *)

(* Types: a row never counts more than MaxRetries attempts (max_retries), a
   process past its reads has a job, and a first attempt its own. *)
TypeOK ==
    /\ webhook \in Webhook
    /\ delivery \in [Deliveries -> Delivery]
    /\ clock \in Nat
    /\ proc \in [Workers \cup Deliveries -> Process]
    /\ inspected \subseteq Deliveries
    /\ acting \in Scenarios
    /\ requests \subseteq [id : Deliveries, attempt : Attempts]
    /\ receipt \in [Deliveries -> {"none", "ok", "requeued"}]
    /\ gave_up \in Counts
    /\ \A p \in Workers \cup Deliveries :
         (proc[p].job = None) <=> (proc[p].pc \in {"idle", "over", "page"})
    /\ \A d \in Deliveries : proc[d].job # None => proc[d].job.id = d

(* No attempt is made twice: whoever is about to send a request holds an
   attempt that nobody else holds and nobody has made, however old the page it
   claimed from (the compare-and-set of processDelivery).  So a delivery costs
   its receiver MaxRetries + 1 requests at most. *)
AttemptsMadeOnce ==
    \A p \in Workers \cup Deliveries :
        proc[p].pc = "send" =>
            /\ Request(p) \notin requests
            /\ \A q \in Workers \cup Deliveries :
                 proc[q].pc = "send" /\ Request(q) = Request(p) => p = q

SendsAgain ==
    \E r \in requests' \ requests : receipt[r.id] = "ok"

(* A delivery the receiver acknowledged is not sent to it again, whatever is
   lost or dies after the answer, unless an operator requeues it
   (webhooks.ts, processDelivery, requeueWebhookDelivery). *)
AcknowledgedOnce == [][~SendsAgain]_vars

(* A webhook's count never exceeds the deliveries that were given up: retries
   do not count, and no mix of stale counts, resets and edits adds any
   (incrementFailure; webhooks.ts:40, "Consecutive failure count only
   increments after all retries exhausted"). *)
CountsOnlyGivenUp == webhook.failure_count <= gave_up

(* Rows the fetch returns for ever and no worker can claim: left in 'retrying'
   by a worker that died, or requeued with no attempt left. *)
Stuck == {d \in Waiting :
            /\ \A w \in Workers : proc[w].job = None \/ proc[w].job.id # d
            /\ \/ delivery[d].status = "retrying"
               \/ delivery[d].attempts >= MaxRetries}

Quiet == webhook.url /\ inspected = {} /\ Cardinality(Stuck) < PageSize

Waits(d, n) == /\ delivery[d].status = "pending_retry"
               /\ delivery[d].attempts = n

(* A delivery waiting for its next attempt gets it, as long as the webhook has
   a url, the operator leaves the queue alone and stuck rows do not fill a
   whole page (runCycle). *)
WaitingIsTried ==
    <>[]Quiet =>
        \A d \in Deliveries : \A n \in 0..(MaxRetries - 1) : []<>~Waits(d, n)
=============================================================================
