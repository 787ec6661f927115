----------------------- MODULE WebhookDelivery_proofs -----------------------
(***************************************************************************)
(* No attempt of a delivery is made twice, an acknowledged one is not sent *)
(* again, and a webhook's count never exceeds the deliveries given up, for *)
(* any number of deliveries, workers and retries.                          *)
(***************************************************************************)
EXTENDS WebhookDelivery, TLAPS

Processes == Workers \cup Deliveries

(* The places of a first attempt whose row is not yet anybody else's. *)
Early == {"idle", "insert", "resolve", "count"}

(* What a process is given to work on. *)
Fits(p, x) ==
    /\ x \in Process
    /\ (x.job = None) <=> (x.pc \in {"idle", "over", "page"})
    /\ p \in Deliveries /\ x.job # None => x.job.id = p
    /\ \A job \in x.page : job.attempts < MaxRetries
    /\ p \in Workers /\ x.job # None => x.job.attempts < MaxRetries

AllFit == /\ DOMAIN proc = Processes
          /\ proc = [p \in Processes |-> proc[p]]
          /\ \A p \in Processes : Fits(p, proc[p])

(* The row of a first attempt that has not been sent is as it was inserted. *)
Fresh == \A d \in Deliveries :
            proc[d].pc \in Early => /\ delivery[d].attempts = 0
                                    /\ delivery[d].status \in {"none", "pending"}

(* A worker only ever holds deliveries whose first attempt is past that. *)
HeldLate ==
    \A w \in Workers :
        /\ \A job \in proc[w].page : proc[job.id].pc \notin Early
        /\ proc[w].job # None => proc[proc[w].job.id].pc \notin Early

(* The attempts of a row are never behind the requests sent for it, nor behind
   the attempt a worker is about to make. *)
Reached ==
    /\ \A r \in requests : r.attempt <= delivery[r.id].attempts
    /\ \A w \in Workers : proc[w].pc = "send" =>
         proc[w].job.attempts + 1 <= delivery[proc[w].job.id].attempts

(* A first attempt that is still to be sent has not been sent. *)
FirstUnsent ==
    \A d \in Deliveries : proc[d].pc \in Early \cup {"send"} =>
        \A r \in requests : r.id = d => r.attempt # 0

(* A count is read no higher than the deliveries given up, and by the time it
   is written back plus one, one more was given up. *)
CountsBehind ==
    \A p \in Processes :
        /\ proc[p].seen.failure_count <= gave_up
        /\ proc[p].pc \in {"mark-failed", "increment"} =>
             CountUp(proc[p].seen.failure_count) <= gave_up

IInv == /\ TypeOK /\ AllFit
        /\ Fresh /\ HeldLate /\ Reached /\ FirstUnsent /\ AttemptsMadeOnce
        /\ CountsBehind /\ CountsOnlyGivenUp

-----------------------------------------------------------------------------
(* The tables, whatever is written to them *)

TablesOK ==
    /\ webhook \in Webhook
    /\ delivery \in [Deliveries -> Delivery]
    /\ clock \in Nat
    /\ inspected \subseteq Deliveries
    /\ acting \in Scenarios
    /\ requests \subseteq [id : Deliveries, attempt : Attempts]
    /\ receipt \in [Deliveries -> {"none", "ok", "requeued"}]
    /\ gave_up \in Counts

(* The types are those of the tables and of the processes. *)
LEMMA TypesSplit == TablesOK /\ AllFit => TypeOK
  BY DEF TablesOK, AllFit, Fits, TypeOK, Processes

(* The types of the tables alone. *)
LEMMA TypesJoin == TypeOK => TablesOK
  BY DEF TablesOK, TypeOK

(* Counts go up by one and stop. *)
LEMMA CountUpGrows ==
    ASSUME NEW m \in Counts, NEW n \in Counts, m <= n
    PROVE  /\ CountUp(m) \in Counts
           /\ m <= CountUp(m)
           /\ CountUp(m) <= CountUp(n)
  BY DeliveryAssumption DEF CountUp, Counts

(* A row only changes as a step may: its attempts do not go down, and while
   its first attempt is early it stays as it was inserted. *)
RowsGrow ==
    /\ \A d \in Deliveries : delivery[d].attempts <= delivery'[d].attempts
    /\ \A d \in Deliveries :
         proc'[d].pc \in Early => /\ delivery'[d].attempts = 0
                                  /\ delivery'[d].status \in {"none", "pending"}

(* What a process may become in a step. *)
Moves(p, x) ==
    /\ Fits(p, x)
    /\ p \in Deliveries /\ x.pc \in Early => proc[p].pc \in Early
    /\ p \in Deliveries /\ x.pc = "send" => proc[p].pc \in Early
    /\ p \in Workers =>
         /\ \A job \in x.page : proc[job.id].pc \notin Early
         /\ x.job # None => proc[x.job.id].pc \notin Early
         /\ x.pc = "send" =>
              /\ delivery[x.job.id].attempts <= x.job.attempts
              /\ x.job.attempts + 1 <= delivery'[x.job.id].attempts
    /\ x.seen.failure_count <= gave_up'
    /\ x.pc \in {"mark-failed", "increment"} =>
         CountUp(x.seen.failure_count) <= gave_up'

(* A request is sent by the one who was about to. *)
SendsOnly(p, x) ==
    \/ requests' = requests
    \/ /\ proc[p].pc = "send"
       /\ x.pc # "send"
       /\ requests' = requests \cup {Request(p)}

(* A step in which one process moves so keeps the invariant. *)
LEMMA Moved ==
    ASSUME IInv, NEW p \in Processes, NEW x,
           proc' = [proc EXCEPT ![p] = x],
           Moves(p, x), SendsOnly(p, x), RowsGrow, TablesOK',
           gave_up <= gave_up', webhook'.failure_count <= gave_up'
    PROVE  IInv'
<1>1. /\ proc'[p] = x
      /\ \A q \in Processes : q # p => proc'[q] = proc[q]
      /\ AllFit'
  BY DEF IInv, AllFit, Moves
<1>2. TypeOK'
  BY <1>1, TypesSplit DEF TablesOK, AllFit, Fits, TypeOK, Processes
<1>3. Fresh'
  BY DEF RowsGrow, Fresh
<1>4. \A d \in Deliveries : proc'[d].pc \in Early => proc[d].pc \in Early
  BY <1>1 DEF Moves, Processes
<1>5. \A w \in Workers :
        /\ \A job \in proc[w].page : job.id \in Deliveries
        /\ proc[w].job # None => proc[w].job \in Job
  BY DEF IInv, TypeOK, Process, Job
<1>6. HeldLate'
  <2> SUFFICES ASSUME NEW w \in Workers
               PROVE  /\ \A job \in proc'[w].page : proc'[job.id].pc \notin Early
                      /\ proc'[w].job # None =>
                           proc'[proc'[w].job.id].pc \notin Early
    BY DEF HeldLate
  <2>1. CASE w = p
    BY <1>1, <1>4, <2>1 DEF Moves, Fits, Process, Job
  <2>2. CASE w # p
    <3>1. proc'[w] = proc[w]
      BY <1>1, <2>2 DEF Processes
    <3> QED
      BY <1>4, <1>5, <3>1 DEF IInv, HeldLate, Job
  <2> QED
    BY <2>1, <2>2
<1>a. /\ requests \subseteq requests'
      /\ \A r \in requests' \ requests : r = Request(p) /\ proc[p].pc = "send"
  BY DEF SendsOnly
<1>b. requests' # requests => proc[p].pc = "send" /\ x.pc # "send"
  BY DEF SendsOnly
<1>c. /\ \A d \in Deliveries : delivery[d] \in Delivery /\ delivery'[d] \in Delivery
      /\ \A r \in requests : r.id \in Deliveries /\ r.attempt \in Nat
  BY DEF IInv, TypeOK, TablesOK, Attempts
<1>d. \A d \in Deliveries : /\ delivery[d].attempts \in Nat
                            /\ delivery'[d].attempts \in Nat
                            /\ delivery[d].attempts <= delivery'[d].attempts
  BY <1>c DEF RowsGrow, Delivery, Attempts
<1>e. \A q \in Processes : /\ proc[q].pc = "send" => /\ proc[q].job.id \in Deliveries
                                                    /\ proc[q].job.attempts \in Nat
                           /\ q \in Deliveries /\ proc[q].pc = "send" =>
                                proc[q].job.id = q
  BY DEF IInv, AllFit, Fits, Process, Job, Attempts
<1>f. \A q \in Processes : /\ proc'[q].pc = "send" => /\ proc'[q].job.id \in Deliveries
                                                    /\ proc'[q].job.attempts \in Nat
                           /\ q \in Deliveries /\ proc'[q].pc = "send" =>
                                proc'[q].job.id = q
  BY <1>1 DEF AllFit, Fits, Process, Job, Attempts
<1>g. Deliveries \cap Workers = {}
  BY DeliveryAssumption
<1>7. Reached'
  <2>1. \A r \in requests' : r.attempt <= delivery'[r.id].attempts
    <3> SUFFICES ASSUME NEW r \in requests'
                 PROVE  r.attempt <= delivery'[r.id].attempts
      OBVIOUS
    <3>1. CASE r \in requests
      BY <1>c, <1>d, <3>1 DEF IInv, Reached
    <3>2. CASE r \notin requests
      <4>1. r = Request(p) /\ proc[p].pc = "send"
        BY <1>a, <3>2
      <4>2. CASE p \in Workers
        BY <1>d, <1>e, <4>1, <4>2 DEF IInv, Reached, Request, Attempt
      <4>3. CASE p \notin Workers
        BY <1>d, <1>e, <4>1, <4>3 DEF Request, Attempt
      <4> QED
        BY <4>2, <4>3
    <3> QED
      BY <3>1, <3>2
  <2>2. ASSUME NEW w \in Workers, proc'[w].pc = "send"
        PROVE  proc'[w].job.attempts + 1 <= delivery'[proc'[w].job.id].attempts
    <3>1. CASE w = p
      BY <1>1, <1>f, <2>2, <3>1 DEF Moves, Fits, Processes
    <3>2. CASE w # p
      <4>1. proc'[w] = proc[w] /\ w \in Processes
        BY <1>1, <3>2 DEF Processes
      <4> QED
        BY <1>d, <1>e, <2>2, <4>1 DEF IInv, Reached
    <3> QED
      BY <3>1, <3>2
  <2> QED
    BY <2>1, <2>2 DEF Reached
<1>8. FirstUnsent'
  <2> SUFFICES ASSUME NEW d \in Deliveries, proc'[d].pc \in Early \cup {"send"},
                      NEW r \in requests', r.id = d
               PROVE  r.attempt # 0
    BY DEF FirstUnsent
  <2>1. d \in Processes
    BY DEF Processes
  <2>2. proc[d].pc \in Early \cup {"send"}
    BY <1>1, <2>1 DEF Moves
  <2>3. CASE r \in requests
    BY <2>2, <2>3 DEF IInv, FirstUnsent
  <2>4. CASE r \notin requests
    <3>1. r = Request(p) /\ proc[p].pc = "send" /\ x.pc # "send"
      BY <1>a, <1>b, <2>4
    <3>2. CASE p \in Workers
      BY <1>e, <3>1, <3>2 DEF Request, Attempt
    <3>3. CASE p \notin Workers
      <4>1. p = d
        BY <1>e, <3>1, <3>3 DEF Request, Processes
      <4> QED
        BY <1>1, <3>1, <4>1 DEF Moves, Early
    <3> QED
      BY <3>2, <3>3
  <2> QED
    BY <2>3, <2>4
<1>9. AttemptsMadeOnce'
  <2>1. ASSUME NEW q \in Processes, q # p, proc'[q].pc = "send"
        PROVE  /\ proc'[q] = proc[q]
               /\ Request(q)' = Request(q)
               /\ Request(q) \notin requests'
    <3>1. proc'[q] = proc[q]
      BY <1>1, <2>1
    <3>2. Request(q) \notin requests
      BY <2>1, <3>1 DEF IInv, AttemptsMadeOnce, Processes
    <3>3. ~(proc[p].pc = "send" /\ Request(q) = Request(p))
      BY <2>1, <3>1 DEF IInv, AttemptsMadeOnce, Processes
    <3> QED
      BY <1>a, <3>1, <3>2, <3>3 DEF Request, Attempt
  <2>2. ASSUME x.pc = "send"
        PROVE  /\ Request(p)' \notin requests'
               /\ \A q \in Processes :
                    q # p /\ proc'[q].pc = "send" => Request(q)' # Request(p)'
    <3>1. requests' = requests
      BY <1>b, <2>2
    <3>2. CASE p \in Deliveries
      <4>1. proc'[p].pc = "send" /\ proc'[p].job.id = p /\ p \notin Workers
        BY <1>1, <1>f, <1>g, <2>2, <3>2
      <4>2. Request(p)' = [id |-> p, attempt |-> 0]
        BY <4>1 DEF Request, Attempt
      <4>3. \A r \in requests : r.id = p => r.attempt # 0
        BY <2>2, <3>2 DEF IInv, FirstUnsent, Moves
      <4>4. ASSUME NEW q \in Processes, q # p, proc'[q].pc = "send"
            PROVE  Request(q)' # Request(p)'
        <5>1. CASE q \in Workers
          BY <1>f, <4>2, <4>4, <5>1 DEF Request, Attempt
        <5>2. CASE q \in Deliveries
          BY <1>f, <4>2, <4>4, <5>2 DEF Request
        <5> QED
          BY <5>1, <5>2 DEF Processes
      <4> QED
        BY <3>1, <4>2, <4>3, <4>4
    <3>3. CASE p \in Workers
      <4> DEFINE d == x.job.id
      <4>1. /\ d \in Deliveries /\ x.job.attempts \in Nat
            /\ Request(p)' = [id |-> d, attempt |-> x.job.attempts + 1]
        BY <1>1, <1>f, <2>2, <3>3 DEF Request, Attempt
      <4>2. delivery[d].attempts <= x.job.attempts
        BY <2>2, <3>3 DEF Moves
      <4> HIDE DEF d
      <4>3. Request(p)' \notin requests
        BY <1>d, <4>1, <4>2 DEF IInv, Reached
      <4>4. ASSUME NEW q \in Processes, q # p, proc'[q].pc = "send"
            PROVE  Request(q)' # Request(p)'
        <5>1. proc'[q] = proc[q] /\ Request(q)' = Request(q)
          BY <2>1, <4>4
        <5>2. CASE q \in Workers
          <6>1. proc[q].job.attempts + 1 <= delivery[proc[q].job.id].attempts
            BY <4>4, <5>1, <5>2 DEF IInv, Reached
          <6> QED
            BY <1>d, <1>e, <4>1, <4>2, <4>4, <5>1, <5>2, <6>1
               DEF Request, Attempt
        <5>3. CASE q \in Deliveries
          BY <1>e, <1>g, <4>1, <4>4, <5>1, <5>3 DEF Request, Attempt
        <5> QED
          BY <5>2, <5>3 DEF Processes
      <4> QED
        BY <3>1, <4>3, <4>4
    <3> QED
      BY <3>2, <3>3 DEF Processes
  <2>3. ASSUME NEW q \in Processes, proc'[q].pc = "send"
        PROVE  Request(q)' \notin requests'
    BY <1>1, <2>1, <2>2, <2>3
  <2>4. ASSUME NEW q \in Processes, NEW u \in Processes,
               proc'[q].pc = "send", proc'[u].pc = "send",
               Request(u)' = Request(q)'
        PROVE  q = u
    <3>1. CASE q = p \/ u = p
      BY <1>1, <2>2, <2>4, <3>1
    <3>2. CASE q # p /\ u # p
      <4>1. /\ proc[q].pc = "send" /\ proc[u].pc = "send"
            /\ Request(u) = Request(q)
        BY <2>1, <2>4, <3>2
      <4> QED
        BY <4>1 DEF IInv, AttemptsMadeOnce, Processes
    <3> QED
      BY <3>1, <3>2
  <2> QED
    BY <2>3, <2>4 DEF AttemptsMadeOnce, Processes
<1>10. CountsBehind'
  <2> SUFFICES ASSUME NEW q \in Processes
               PROVE  /\ proc'[q].seen.failure_count <= gave_up'
                      /\ proc'[q].pc \in {"mark-failed", "increment"} =>
                           CountUp(proc'[q].seen.failure_count) <= gave_up'
    BY DEF CountsBehind, Processes
  <2>1. CASE q = p
    BY <1>1, <2>1 DEF Moves
  <2>2. CASE q # p
    <3>1. proc'[q] = proc[q]
      BY <1>1, <2>2
    <3>2. proc[q].seen.failure_count \in Counts
      BY DEF IInv, AllFit, Fits, Process, Seen
    <3>3. CountUp(proc[q].seen.failure_count) \in Counts
      BY <3>2, CountUpGrows DEF Counts
    <3>4. gave_up \in Nat /\ gave_up' \in Nat
      BY DEF IInv, TypeOK, TablesOK, Counts
    <3> QED
      BY <3>1, <3>2, <3>3, <3>4 DEF IInv, CountsBehind, Counts
  <2> QED
    BY <2>1, <2>2
<1>11. CountsOnlyGivenUp'
  BY DEF CountsOnlyGivenUp
<1> QED
  BY <1>1, <1>2, <1>3, <1>6, <1>7, <1>8, <1>9, <1>10, <1>11 DEF IInv

-----------------------------------------------------------------------------
(* The steps *)

(* A row that no write of the step touches stays as it was. *)
LEMMA RowsKept ==
    ASSUME IInv, NEW p \in Processes, NEW x,
           proc' = [proc EXCEPT ![p] = x], Moves(p, x), delivery' = delivery
    PROVE  RowsGrow
<1>1. \A d \in Deliveries : proc'[d].pc \in Early => proc[d].pc \in Early
  BY DEF IInv, AllFit, Moves, Processes
<1>2. \A d \in Deliveries : delivery[d].attempts \in Nat
  BY DEF IInv, TypeOK, Delivery, Attempts
<1> QED
  BY <1>1, <1>2 DEF IInv, Fresh, RowsGrow

(* A change of the status of rows past their first attempt is a legal one. *)
LEMMA StatusWritten ==
    ASSUME IInv, NEW p \in Processes, NEW x,
           proc' = [proc EXCEPT ![p] = x], Moves(p, x),
           NEW id \in Deliveries, proc[id].pc \notin Early,
           \A d \in Deliveries : /\ delivery'[d].attempts = delivery[d].attempts
                                 /\ d # id => delivery'[d] = delivery[d]
    PROVE  RowsGrow
<1>1. \A d \in Deliveries : proc'[d].pc \in Early => proc[d].pc \in Early
  BY DEF IInv, AllFit, Moves, Processes
<1>2. \A d \in Deliveries : delivery[d].attempts \in Nat
  BY DEF IInv, TypeOK, Delivery, Attempts
<1> QED
  BY <1>1, <1>2 DEF IInv, Fresh, RowsGrow

(* A process that is free holds nothing. *)
LEMMA IdleFits ==
    ASSUME NEW pc \in {"idle", "over"}
    PROVE  LET x == [Idle EXCEPT !.pc = pc] IN
           /\ x.pc = pc /\ x.job = None /\ x.page = {}
           /\ x.seen.failure_count = 0
           /\ x \in Process
<1>1. 0 \in Counts
  BY DeliveryAssumption DEF Counts
<1> QED
  BY <1>1 DEF Idle, Process, Seen

(* A process with a job goes on with it, or with the next one. *)
LEMMA GoesOn ==
    ASSUME IInv, NEW p \in Processes, NEW pc, Goto(p, pc), proc[p].job # None,
           pc \in {"next", "resolve", "count", "send"} \cup Writes,
           pc \in {"resolve", "count", "send"} =>
             p \in Deliveries /\ proc[p].pc \in Early,
           gave_up \in Nat, gave_up' \in Nat, gave_up <= gave_up',
           pc \in {"mark-failed", "increment"} =>
             CountUp(proc[p].seen.failure_count) <= gave_up'
    PROVE  \E x : /\ proc' = [proc EXCEPT ![p] = x]
                  /\ Moves(p, x)
                  /\ x.pc = "send" => pc = "send"
                  /\ x.pc \in Early => pc # "next" \/ p \in Workers
<1>1. Fits(p, proc[p])
  BY DEF IInv, AllFit
<1>2. Deliveries \cap Workers = {}
  BY DeliveryAssumption
<1>3. proc[p].seen.failure_count \in Counts
  BY <1>1 DEF Fits, Process, Seen
<1>4. proc[p].seen.failure_count <= gave_up'
  BY <1>3, DeliveryAssumption DEF IInv, CountsBehind, Counts, Processes
<1>5. p \in Workers =>
        /\ \A job \in proc[p].page : proc[job.id].pc \notin Early
        /\ proc[proc[p].job.id].pc \notin Early
  BY DEF IInv, HeldLate
<1>6. CASE pc # "next"
  <2> DEFINE x == [proc[p] EXCEPT !.pc = pc]
  <2>1. proc' = [proc EXCEPT ![p] = x]
    BY <1>6 DEF Goto
  <2>2. /\ x.pc = pc /\ x.job = proc[p].job /\ x.page = proc[p].page
        /\ x.seen = proc[p].seen /\ x \in Process
    BY <1>1, <1>6 DEF Fits, Process, Writes
  <2> HIDE DEF x
  <2>3. Fits(p, x)
    BY <1>1, <1>6, <2>2 DEF Fits, Writes
  <2>4. Moves(p, x)
    BY <1>2, <1>4, <1>5, <1>6, <2>2, <2>3 DEF Moves, Early, Writes
  <2> QED
    BY <1>6, <2>1, <2>2, <2>4
<1>7. CASE pc = "next"
  <2>1. proc' = [proc EXCEPT ![p] = NextJob(p)]
    BY <1>7 DEF Goto
  <2>2. CASE p \in Workers /\ proc[p].page # {}
    <3> DEFINE x == [proc[p] EXCEPT !.pc = "page", !.job = None]
    <3>1. NextJob(p) = x
      BY <2>2 DEF NextJob
    <3>2. /\ x.pc = "page" /\ x.job = None /\ x.page = proc[p].page
          /\ x.seen = proc[p].seen /\ x \in Process
      BY <1>1 DEF Fits, Process
    <3> HIDE DEF x
    <3>3. Fits(p, x)
      BY <1>1, <3>2 DEF Fits
    <3>4. Moves(p, x)
      BY <1>2, <1>4, <1>5, <2>2, <3>2, <3>3 DEF Moves, Early
    <3> QED
      BY <2>1, <2>2, <3>1, <3>2, <3>4
  <2>3. CASE ~(p \in Workers /\ proc[p].page # {})
    <3> DEFINE x == [Idle EXCEPT !.pc = IF p \in Workers THEN "idle" ELSE "over"]
    <3>1. NextJob(p) = x
      BY <2>3 DEF NextJob
    <3>2. /\ x.pc = IF p \in Workers THEN "idle" ELSE "over"
          /\ x.job = None /\ x.page = {} /\ x.seen.failure_count = 0
          /\ x \in Process
      BY IdleFits
    <3> HIDE DEF x
    <3>3. Fits(p, x)
      BY <3>2 DEF Fits
    <3>4. Moves(p, x)
      BY <1>2, <3>2, <3>3 DEF Moves, Early, Processes
    <3> QED
      BY <2>1, <3>1, <3>2, <3>4 DEF Early
  <2> QED
    BY <2>2, <2>3
<1> QED
  BY <1>6, <1>7

(* What a process with a job knows of it. *)
LEMMA Holds ==
    ASSUME IInv, NEW p \in Processes, proc[p].job # None
    PROVE  /\ proc[p].job \in Job
           /\ proc[p].job.id \in Deliveries
           /\ p \in Workers => /\ proc[p].job.attempts < MaxRetries
                               /\ proc[proc[p].job.id].pc \notin Early
           /\ p \in Deliveries => proc[p].job.id = p
           /\ proc[p].seen.failure_count \in Counts
  BY DEF IInv, AllFit, Fits, HeldLate, Process, Job, Seen

(* What the invariant says of the tables, as the steps need it. *)
LEMMA Ranges ==
    ASSUME IInv
    PROVE  /\ TablesOK
           /\ gave_up \in Counts /\ gave_up \in Nat /\ gave_up <= gave_up
           /\ webhook.failure_count \in Counts
           /\ webhook.failure_count <= gave_up
           /\ 0 \in Counts /\ 0 \in Attempts /\ 1 \in Attempts
  BY TypesJoin, DeliveryAssumption
     DEF IInv, TablesOK, Counts, Webhook, CountsOnlyGivenUp, Attempts

(* A request goes out; if it was the last the delivery has left, it is given
   up. *)
LEMMA SendStep ==
    ASSUME IInv, NEW p \in Processes, Send(p)
    PROVE  IInv'
<1>1. PICK ok \in BOOLEAN :
        /\ receipt' = IF ok /\ receipt[proc[p].job.id] = "none"
                        THEN [receipt EXCEPT ![proc[p].job.id] = "ok"]
                      ELSE receipt
        /\ gave_up' = IF AfterSend(p, ok) = "mark-failed" THEN CountUp(gave_up)
                                                          ELSE gave_up
        /\ Goto(p, AfterSend(p, ok))
  BY DEF Send
<1>2. /\ proc[p].pc = "send"
      /\ requests' = requests \cup {Request(p)}
      /\ UNCHANGED <<webhook, delivery, clock, inspected, acting>>
  BY DEF Send
<1>3. proc[p].job # None
  BY <1>2 DEF IInv, AllFit, Fits
<1>4. gave_up' \in Counts /\ gave_up <= gave_up' /\ gave_up' \in Nat
  BY <1>1, Ranges, CountUpGrows DEF Counts
<1>5. AfterSend(p, ok) \in {"mark-success", "mark-failed", "mark-retry"}
  BY DEF AfterSend
<1>6. AfterSend(p, ok) = "mark-failed" =>
        CountUp(proc[p].seen.failure_count) <= gave_up'
  BY <1>1, <1>3, Ranges, Holds, CountUpGrows DEF IInv, CountsBehind, Processes
<1>7. PICK x : /\ proc' = [proc EXCEPT ![p] = x]
               /\ Moves(p, x)
               /\ x.pc = "send" => AfterSend(p, ok) = "send"
  BY <1>1, <1>3, <1>4, <1>5, <1>6, Ranges, GoesOn DEF Writes
<1>8. SendsOnly(p, x)
  BY <1>2, <1>5, <1>7 DEF SendsOnly
<1>9. Request(p) \in [id : Deliveries, attempt : Attempts]
  BY <1>3, Holds, Ranges, DeliveryAssumption
     DEF Request, Attempt, Job, Attempts, Processes
<1>10. TablesOK'
  BY <1>1, <1>2, <1>4, <1>9, Ranges DEF TablesOK
<1>11. webhook'.failure_count <= gave_up'
  BY <1>2, <1>4, Ranges DEF Counts
<1> QED
  BY <1>2, <1>4, <1>7, <1>8, <1>10, <1>11, RowsKept, Moved

(* A first attempt on its way to its request. *)
LEMMA FirstAttemptStep ==
    ASSUME IInv, NEW d \in Deliveries, FirstAttempt(d)
    PROVE  IInv'
<1> d \in Processes
  BY DEF Processes
<1> USE Ranges
<1>1. /\ d \notin Workers /\ 1 \in Nat /\ Fits(d, proc[d])
      /\ delivery[d] \in Delivery
  BY DeliveryAssumption DEF IInv, AllFit, TypeOK
<1>2. CASE Deliver(d)
  <2> DEFINE x == [Idle EXCEPT !.pc = "insert",
                               !.job = [id |-> d, attempts |-> 0, at |-> 0]]
  <2>1. /\ proc' = [proc EXCEPT ![d] = x] /\ proc[d].pc = "idle"
        /\ UNCHANGED <<webhook, delivery, clock, inspected, aside>>
    BY <1>2 DEF Deliver
  <2>2. [id |-> d, attempts |-> 0, at |-> 0] \in Job
    BY DEF Job
  <2>3. /\ x.pc = "insert" /\ x.page = {} /\ x.seen.failure_count = 0
        /\ x.job = [id |-> d, attempts |-> 0, at |-> 0] /\ x \in Process
    BY <2>2 DEF Idle, Process, Seen
  <2>4. x.job # None
    BY <2>2, <2>3, DeliveryAssumption DEF Job, Attempts
  <2> HIDE DEF x
  <2>5. Moves(d, x)
    BY <1>1, <2>1, <2>3, <2>4 DEF Moves, Fits, Early, aside
  <2> QED
    BY <2>1, <2>5, RowsKept, Moved DEF SendsOnly, TablesOK, aside
<1>3. ASSUME proc[d].pc \in Early \ {"idle"}
      PROVE  proc[d].job # None
  BY <1>1, <1>3 DEF Fits, Early
<1>4. ASSUME NEW pc \in {"next", "resolve", "count", "send"}, Goto(d, pc),
             proc[d].pc \in Early \ {"idle"},
             delivery' \in [Deliveries -> Delivery],
             \A e \in Deliveries : e # d => delivery'[e] = delivery[e],
             delivery'[d].attempts \in {delivery[d].attempts, 1},
             pc \in {"resolve", "count"} =>
               /\ delivery'[d].attempts = 0
               /\ delivery'[d].status \in {"none", "pending"},
             UNCHANGED <<webhook, clock, inspected, aside>>
      PROVE  IInv'
  <2>1. PICK x : /\ proc' = [proc EXCEPT ![d] = x]
                 /\ Moves(d, x)
                 /\ x.pc = "send" => pc = "send"
                 /\ x.pc \in Early => pc # "next" \/ d \in Workers
    BY <1>3, <1>4, GoesOn DEF aside, Early
  <2>2. delivery[d].attempts = 0
    BY <1>4 DEF IInv, Fresh
  <2>3. proc'[d] = x /\ \A e \in Deliveries : e # d => proc'[e] = proc[e]
    BY <2>1 DEF IInv, AllFit, Processes
  <2>4. x.pc \in Early => pc \in {"resolve", "count"}
    BY <1>1, <1>4, <2>1, <2>3 DEF Goto, Early, IInv, AllFit, Fits, Process
  <2>5. \A e \in Deliveries : delivery[e].attempts \in Nat
    BY DEF TablesOK, Delivery, Attempts
  <2>6. RowsGrow
    BY <1>4, <2>2, <2>3, <2>4, <2>5 DEF RowsGrow, IInv, Fresh
  <2> QED
    BY <1>4, <2>1, <2>6, Moved DEF SendsOnly, TablesOK, aside
<1>5. proc[d].pc \in Early => delivery[d].attempts = 0
  BY DEF IInv, Fresh
<1>6. CASE InsertDelivery(d)
  BY <1>1, <1>4, <1>5, <1>6
     DEF InsertDelivery, Delivery, Statuses, Early, TablesOK
<1>7. CASE ResolveHost(d)
  <2>1. proc[d].pc = "resolve" /\ UNCHANGED <<webhook, clock, inspected, aside>>
    BY <1>7 DEF ResolveHost
  <2>2. CASE Goto(d, "count") /\ delivery' = delivery
    BY <1>1, <1>4, <2>1, <2>2 DEF Early, TablesOK, IInv, Fresh
  <2>3. CASE /\ delivery' = [delivery EXCEPT ![d].status = "pending_retry",
                                             ![d].attempts = 1]
             /\ Goto(d, "next")
    BY <1>1, <1>4, <2>1, <2>3 DEF Early, TablesOK, Delivery, Statuses
  <2> QED
    BY <1>7, <2>2, <2>3 DEF ResolveHost
<1>8. CASE CountAttempt(d)
  BY <1>1, <1>4, <1>8 DEF CountAttempt, Early, TablesOK, Delivery, Statuses
<1>9. CASE EnqueueBySweep(d)
  <2> DEFINE x == [proc[d] EXCEPT !.pc = "over"]
  <2>1. /\ proc' = [proc EXCEPT ![d] = x] /\ proc[d].pc = "idle"
        /\ delivery' = [delivery EXCEPT ![d].status = "pending_retry"]
        /\ UNCHANGED <<webhook, clock, inspected, aside>>
    BY <1>9 DEF EnqueueBySweep
  <2>2. /\ x.pc = "over" /\ x.page = proc[d].page /\ x.seen = proc[d].seen
        /\ x.job = proc[d].job /\ x \in Process
    BY <1>1 DEF Fits, Process
  <2> HIDE DEF x
  <2>3. proc[d].seen.failure_count <= gave_up
    BY DEF IInv, CountsBehind, Processes
  <2>4. Moves(d, x)
    BY <1>1, <2>1, <2>2, <2>3 DEF Moves, Fits, Early, aside
  <2>5. proc'[d] = x /\ \A e \in Deliveries : e # d => proc'[e] = proc[e]
    BY <2>1 DEF IInv, AllFit, Processes
  <2>6. /\ delivery' \in [Deliveries -> Delivery]
        /\ \A e \in Deliveries : /\ delivery'[e].attempts = delivery[e].attempts
                                 /\ delivery[e].attempts \in Nat
                                 /\ e # d => delivery'[e] = delivery[e]
    BY <2>1 DEF TablesOK, Delivery, Statuses, Attempts
  <2>7. RowsGrow
    BY <2>2, <2>5, <2>6 DEF RowsGrow, IInv, Fresh, Early
  <2> QED
    BY <2>1, <2>4, <2>6, <2>7, Moved DEF SendsOnly, TablesOK, aside
<1> QED
  BY <1>2, <1>6, <1>7, <1>8, <1>9 DEF FirstAttempt


(* A worker reads a page. *)
LEMMA FetchStep ==
    ASSUME IInv, NEW w \in Workers, NEW due, FetchPending(w, due)
    PROVE  IInv'
<1> USE Ranges
<1>1. PICK page \in SUBSET Waiting :
        /\ proc[w].pc = "idle"
        /\ UNCHANGED <<webhook, delivery, clock, inspected, aside>>
        /\ proc' = [proc EXCEPT ![w] =
             [Idle EXCEPT !.pc = "page", !.seen = SeenNow,
                !.page = {[id |-> d, attempts |-> delivery[d].attempts,
                           at |-> 0] : d \in {e \in page : ShouldRetry(e, due)}}]]
  BY DEF FetchPending
<1> DEFINE jobs == {[id |-> d, attempts |-> delivery[d].attempts, at |-> 0] :
                      d \in {e \in page : ShouldRetry(e, due)}}
           x == [Idle EXCEPT !.pc = "page", !.seen = SeenNow, !.page = jobs]
<1>2. \A job \in jobs : /\ job \in Job
                        /\ job.attempts < MaxRetries
                        /\ proc[job.id].pc \notin Early
  BY DEF Waiting, Job, ShouldRetry, TablesOK, Delivery, IInv, Fresh
<1>3. SeenNow \in Seen /\ SeenNow.failure_count <= gave_up
  BY DEF SeenNow, Seen, TablesOK, Webhook
<1> HIDE DEF jobs
<1>4. /\ x.pc = "page" /\ x.page = jobs /\ x.seen = SeenNow
      /\ x.job = None /\ x \in Process
  BY <1>2, <1>3 DEF Idle, Process
<1>5. proc' = [proc EXCEPT ![w] = x]
  BY <1>1 DEF jobs
<1>6. w \notin Deliveries /\ w \in Processes
  BY DeliveryAssumption DEF Processes
<1> HIDE DEF x
<1>7. Moves(w, x)
  BY <1>1, <1>2, <1>3, <1>4, <1>6 DEF Moves, Fits, aside
<1> QED
  BY <1>1, <1>5, <1>6, <1>7, RowsKept, Moved DEF SendsOnly, TablesOK, aside

(* What a worker takes from its page. *)
LEMMA Taken ==
    ASSUME IInv, NEW w \in Workers, NEW job \in proc[w].page,
           NEW pc \in {"send", "mark-failed"}, NEW at \in Nat,
           Take(w, job, pc, at),
           gave_up' \in Counts, gave_up <= gave_up',
           pc = "mark-failed" =>
             CountUp(proc[w].seen.failure_count) <= gave_up',
           pc = "send" =>
             /\ delivery[job.id].attempts <= job.attempts
             /\ job.attempts + 1 <= delivery'[job.id].attempts
    PROVE  \E x : /\ proc' = [proc EXCEPT ![w] = x]
                  /\ Moves(w, x)
                  /\ x.pc = pc
<1> DEFINE mine == [job EXCEPT !.at = at]
           x == [proc[w] EXCEPT !.pc = pc, !.job = mine,
                                !.page = proc[w].page \ {job}]
<1>1. Fits(w, proc[w]) /\ w \notin Deliveries /\ w \in Processes
  BY DeliveryAssumption DEF IInv, AllFit, Processes
<1>2. /\ job \in Job /\ job.attempts < MaxRetries /\ proc[job.id].pc \notin Early
      /\ \A j \in proc[w].page : proc[j.id].pc \notin Early
  BY <1>1 DEF Fits, Process, IInv, HeldLate
<1>3. /\ mine \in Job /\ mine.id = job.id /\ mine.attempts = job.attempts
  BY <1>2 DEF Job
<1>4. mine # None
  BY <1>3, DeliveryAssumption DEF Job, Attempts
<1>5. proc' = [proc EXCEPT ![w] = x]
  BY DEF Take
<1> HIDE DEF mine
<1>6. /\ x.pc = pc /\ x.job = mine /\ x.page = proc[w].page \ {job}
      /\ x.seen = proc[w].seen /\ x \in Process
  BY <1>1, <1>3 DEF Fits, Process, Writes
<1> HIDE DEF x
<1>7. Fits(w, x)
  BY <1>1, <1>2, <1>3, <1>4, <1>6 DEF Fits
<1>8. proc[w].seen.failure_count \in Counts
  BY <1>1 DEF Fits, Process, Seen
<1>9. proc[w].seen.failure_count <= gave_up'
  BY <1>1, <1>8, Ranges, DeliveryAssumption DEF IInv, CountsBehind, Counts, Processes
<1>10. Moves(w, x)
  BY <1>1, <1>2, <1>3, <1>6, <1>7, <1>9 DEF Moves
<1> QED
  BY <1>5, <1>6, <1>10

(* The compare-and-set puts the row ahead of every request sent for it. *)
LEMMA ClaimStep ==
    ASSUME IInv, NEW w \in Workers, Claim(w)
    PROVE  IInv'
<1> USE Ranges
<1>1. PICK job \in proc[w].page :
        /\ ClaimMatches(job)
        /\ clock' = clock + 1
        /\ delivery' = [delivery EXCEPT ![job.id] =
                          [status |-> "retrying", attempts |-> job.attempts + 1,
                           last_retry_at |-> clock']]
        /\ Take(w, job, "send", clock')
        /\ UNCHANGED <<webhook, inspected, aside>>
  BY DEF Claim
<1>2. w \in Processes /\ Fits(w, proc[w])
  BY DEF IInv, AllFit, Processes
<1>3. /\ job \in Job /\ job.id \in Deliveries
      /\ job.attempts < MaxRetries /\ job.attempts \in Nat
      /\ proc[job.id].pc \notin Early
  BY <1>2 DEF Fits, Process, Job, Attempts, IInv, HeldLate
<1>4. clock' \in Nat
  BY <1>1 DEF TablesOK
<1>5. delivery[job.id].attempts = job.attempts
  BY <1>1 DEF ClaimMatches
<1>6. [status |-> "retrying", attempts |-> job.attempts + 1,
       last_retry_at |-> clock'] \in Delivery
  BY <1>3, <1>4, DeliveryAssumption DEF Delivery, Statuses, Attempts
<1>7. /\ delivery' \in [Deliveries -> Delivery]
      /\ delivery'[job.id].attempts = job.attempts + 1
      /\ \A d \in Deliveries : d # job.id => delivery'[d] = delivery[d]
  BY <1>1, <1>3, <1>6 DEF TablesOK
<1>8. PICK x : /\ proc' = [proc EXCEPT ![w] = x]
               /\ Moves(w, x)
               /\ x.pc = "send"
  BY <1>1, <1>3, <1>4, <1>5, <1>7, Taken DEF aside
<1>9. \A d \in Deliveries : proc'[d].pc \in Early => proc[d].pc \in Early
  BY <1>2, <1>8 DEF IInv, AllFit, Moves, Processes
<1>10. \A d \in Deliveries : delivery[d].attempts \in Nat
  BY DEF TablesOK, Delivery, Attempts
<1>11. RowsGrow
  BY <1>3, <1>5, <1>7, <1>9, <1>10 DEF RowsGrow, IInv, Fresh
<1> QED
  BY <1>1, <1>2, <1>4, <1>7, <1>8, <1>11, Moved DEF SendsOnly, TablesOK, aside

(* A claim that missed, a worker restarted. *)
LEMMA SkipStep ==
    ASSUME IInv, NEW w \in Workers, Skip(w) \/ Crash(w)
    PROVE  IInv'
<1> USE Ranges
<1>1. /\ w \in Processes /\ w \notin Deliveries /\ Fits(w, proc[w])
      /\ proc[w].seen.failure_count <= gave_up
      /\ \A job \in proc[w].page : proc[job.id].pc \notin Early
  BY DeliveryAssumption DEF IInv, AllFit, Processes, CountsBehind, HeldLate
<1>2. UNCHANGED <<webhook, delivery, clock, inspected, aside>>
  BY DEF Skip, Crash
<1>3. ASSUME NEW x, proc' = [proc EXCEPT ![w] = x], Moves(w, x)
      PROVE  IInv'
  BY <1>1, <1>2, <1>3, RowsKept, Moved DEF SendsOnly, TablesOK, aside
<1>4. Moves(w, Idle)
  <2>1. /\ Idle \in Process /\ Idle.pc = "idle" /\ Idle.job = None
        /\ Idle.page = {} /\ Idle.seen.failure_count = 0
    BY DEF Idle, Process, Seen
  <2> QED
    BY <1>1, <1>2, <2>1 DEF Moves, Fits, aside
<1>5. CASE proc' = [proc EXCEPT ![w] = Idle]
  BY <1>3, <1>4, <1>5
<1>6. ASSUME NEW job \in proc[w].page, proc[w].pc = "page",
             proc' = [proc EXCEPT ![w] =
                        [proc[w] EXCEPT !.page = proc[w].page \ {job}]]
      PROVE  IInv'
  <2> DEFINE x == [proc[w] EXCEPT !.page = proc[w].page \ {job}]
  <2>1. /\ x.pc = "page" /\ x.job = proc[w].job /\ x.seen = proc[w].seen
        /\ x.page = proc[w].page \ {job} /\ x \in Process
    BY <1>1, <1>6 DEF Fits, Process
  <2>2. proc' = [proc EXCEPT ![w] = x]
    BY <1>6
  <2> HIDE DEF x
  <2>3. Moves(w, x)
    BY <1>1, <1>2, <1>6, <2>1 DEF Moves, Fits, aside
  <2> QED
    BY <1>3, <2>2, <2>3
<1> QED
  BY <1>5, <1>6 DEF Skip, Crash

(* A delivery without a url is given up. *)
LEMMA GiveUpStep ==
    ASSUME IInv, NEW w \in Workers, GiveUpUnsent(w)
    PROVE  IInv'
<1> USE Ranges
<1>1. PICK job \in proc[w].page : Take(w, job, "mark-failed", 0)
  BY DEF GiveUpUnsent
<1>2. /\ gave_up' = CountUp(gave_up)
      /\ UNCHANGED <<webhook, delivery, clock, inspected, acting, requests,
                     receipt>>
  BY DEF GiveUpUnsent
<1>3. /\ w \in Processes
      /\ proc[w].seen.failure_count \in Counts
      /\ proc[w].seen.failure_count <= gave_up
  BY DEF IInv, AllFit, Fits, Process, Seen, Processes, CountsBehind
<1>4. /\ gave_up' \in Counts /\ gave_up <= gave_up' /\ gave_up' \in Nat
      /\ CountUp(proc[w].seen.failure_count) <= gave_up'
  BY <1>2, <1>3, CountUpGrows DEF Counts
<1>5. PICK x : /\ proc' = [proc EXCEPT ![w] = x]
               /\ Moves(w, x)
               /\ x.pc = "mark-failed"
  BY <1>1, <1>4, Taken
<1>6. webhook'.failure_count <= gave_up'
  BY <1>2, <1>4 DEF Counts
<1> QED
  BY <1>2, <1>3, <1>4, <1>5, <1>6, RowsKept, Moved DEF SendsOnly, TablesOK

(* A worker's reads, claims and restarts. *)
LEMMA WorkStep ==
    ASSUME IInv, NEW w \in Workers, Work(w)
    PROVE  IInv'
  BY FetchStep, ClaimStep, SkipStep, GiveUpStep DEF Work

(* The process goes on after a write that leaves the attempts alone. *)
LEMMA WriteStep ==
    ASSUME IInv, NEW p \in Processes, proc[p].job # None,
           NEW pc \in {"next", "reset", "increment"}, Goto(p, pc),
           pc = "increment" => proc[p].pc = "mark-failed",
           UNCHANGED <<clock, inspected, aside>>,
           webhook' \in Webhook, webhook'.failure_count <= gave_up,
           \/ delivery' = delivery
           \/ /\ proc[proc[p].job.id].pc \notin Early
              /\ delivery' \in [Deliveries -> Delivery]
              /\ \A d \in Deliveries :
                   /\ delivery'[d].attempts = delivery[d].attempts
                   /\ d # proc[p].job.id => delivery'[d] = delivery[d]
    PROVE  IInv'
<1> USE Ranges
<1>1. pc = "increment" => CountUp(proc[p].seen.failure_count) <= gave_up'
  BY DEF IInv, CountsBehind, Processes, aside
<1>2. PICK x : /\ proc' = [proc EXCEPT ![p] = x]
               /\ Moves(p, x)
               /\ x.pc = "send" => pc = "send"
  BY <1>1, GoesOn DEF aside, Writes
<1>3. proc[p].job.id \in Deliveries
  BY Holds
<1>4. RowsGrow
  BY <1>2, <1>3, RowsKept, StatusWritten
<1>5. TablesOK' /\ SendsOnly(p, x) /\ gave_up' = gave_up
  BY DEF TablesOK, SendsOnly, aside
<1> QED
  BY <1>2, <1>4, <1>5, Moved

(* The writes after an attempt, made, lost or given up with the process. *)
LEMMA FinishStep ==
    ASSUME IInv, NEW p \in Processes, Finish(p) \/ Throws(p)
    PROVE  IInv'
<1> USE Ranges
<1>1. /\ proc[p].pc \in {"insert", "resolve", "count", "send"} \cup Writes
      /\ proc[p].job # None
  <2>1. proc[p].pc \in {"insert", "resolve", "count", "send"} \cup Writes
    BY DEF Finish, Throws, MarkDeliverySuccess, MarkDeliveryFailed, MarkRetry,
           MarkDelivery, ResetWebhookFailureState, IncrementFailure, WriteLost,
           Writes
  <2> QED
    BY <2>1 DEF IInv, AllFit, Fits, Writes
<1> DEFINE id == proc[p].job.id
<1>2. id \in Deliveries /\ delivery[id] \in Delivery
  BY <1>1, Holds DEF TablesOK
<1>3. proc[p].pc \in Writes => proc[id].pc \notin Early
  <2>1. CASE p \in Workers
    BY <1>1, <2>1, Holds
  <2>2. CASE p \in Deliveries
    BY <1>1, <2>2, Holds DEF Writes, Early
  <2> QED
    BY <2>1, <2>2 DEF Processes
<1>4. \A pc \in Writes : AfterWrite(pc) \in {"next", "reset", "increment"}
  BY DEF AfterWrite, Writes
<1>5. \A pc \in Writes : AfterWrite(pc) = "increment" => pc = "mark-failed"
  BY DEF AfterWrite, Writes
<1>6. ASSUME NEW pc \in {"mark-success", "mark-failed"},
             NEW status \in Statuses, MarkDelivery(p, pc, status)
      PROVE  IInv'
  <2>1. /\ proc[p].pc = pc /\ pc \in Writes /\ Goto(p, AfterWrite(pc))
        /\ delivery' = [delivery EXCEPT ![id].status = status]
        /\ UNCHANGED <<webhook, clock, inspected, aside>>
    BY <1>6 DEF MarkDelivery, Writes
  <2>2. /\ delivery' \in [Deliveries -> Delivery]
        /\ \A d \in Deliveries : /\ delivery'[d].attempts = delivery[d].attempts
                                 /\ d # id => delivery'[d] = delivery[d]
    <3> DEFINE marked == [delivery[id] EXCEPT !.status = status]
    <3>1. marked \in Delivery /\ marked.attempts = delivery[id].attempts
      BY <1>2 DEF Delivery
    <3>2. delivery \in [Deliveries -> Delivery]
      BY <1>1 DEF TablesOK
    <3>3. delivery' = [delivery EXCEPT ![id] = marked]
      BY <2>1
    <3> HIDE DEF marked
    <3> QED
      BY ONLY <1>2, <3>1, <3>2, <3>3
  <2>3. webhook' \in Webhook /\ webhook'.failure_count <= gave_up
    BY <1>1, <2>1 DEF TablesOK
  <2>4. AfterWrite(pc) \in {"next", "reset", "increment"}
        /\ (AfterWrite(pc) = "increment" => proc[p].pc = "mark-failed")
    BY <1>4, <1>5, <2>1
  <2>5. proc[proc[p].job.id].pc \notin Early
    BY <1>3, <2>1
  <2> QED
    BY <1>1, <2>1, <2>2, <2>3, <2>4, <2>5, WriteStep
<1>7. CASE MarkRetry(p)
  <2>1. /\ proc[p].pc = "mark-retry" /\ Goto(p, AfterWrite("mark-retry"))
        /\ delivery' = [delivery EXCEPT ![id].status = "pending_retry",
                                        ![id].last_retry_at = proc[p].job.at]
        /\ UNCHANGED <<webhook, clock, inspected, aside>>
    BY <1>7 DEF MarkRetry
  <2>2. proc[p].job.at \in Nat
    BY <1>1, Holds DEF Job
  <2>3. /\ delivery' \in [Deliveries -> Delivery]
        /\ \A d \in Deliveries : /\ delivery'[d].attempts = delivery[d].attempts
                                 /\ d # id => delivery'[d] = delivery[d]
    BY <1>2, <2>1, <2>2 DEF TablesOK, Delivery, Statuses
  <2>4. Goto(p, "next") /\ proc[id].pc \notin Early
    BY <1>3, <2>1 DEF AfterWrite, Writes
  <2> QED
    BY <1>1, <2>1, <2>3, <2>4, WriteStep DEF TablesOK
<1>8. CASE ResetWebhookFailureState(p)
  <2>1. /\ proc[p].pc = "reset" /\ Goto(p, AfterWrite("reset"))
        /\ webhook' = [webhook EXCEPT !.failure_count = 0]
        /\ UNCHANGED <<delivery, clock, inspected, aside>>
    BY <1>8 DEF ResetWebhookFailureState
  <2>2. webhook' \in Webhook /\ webhook'.failure_count <= gave_up
    BY <2>1 DEF TablesOK, Webhook
  <2>3. "reset" \in Writes
    BY DEF Writes
  <2> QED
    BY <1>1, <1>4, <1>5, <2>1, <2>2, <2>3, WriteStep
<1>9. CASE IncrementFailure(p)
  <2> DEFINE count == CountUp(proc[p].seen.failure_count)
             active == count < DisableAt
  <2>1. /\ proc[p].pc = "increment" /\ Goto(p, AfterWrite("increment"))
        /\ webhook' = [webhook EXCEPT !.failure_count = count,
                                      !.is_active = active]
        /\ UNCHANGED <<delivery, clock, inspected, aside>>
    BY <1>9 DEF IncrementFailure
  <2>2. count \in Counts /\ count <= gave_up
    BY <1>1, <2>1, Holds, CountUpGrows
       DEF IInv, CountsBehind, Processes, Counts
  <2>5. active \in BOOLEAN
    OBVIOUS
  <2> HIDE DEF count, active
  <2>3. webhook' \in Webhook /\ webhook'.failure_count <= gave_up
    BY <2>1, <2>2, <2>5 DEF TablesOK, Webhook
  <2>4. "increment" \in Writes
    BY DEF Writes
  <2> QED
    BY <1>1, <1>4, <1>5, <2>1, <2>3, <2>4, WriteStep
<1>10. CASE WriteLost(p)
  <2>1. /\ proc[p].pc \in Writes /\ Goto(p, AfterWrite(proc[p].pc))
        /\ UNCHANGED <<webhook, delivery, clock, inspected, aside>>
    BY <1>10 DEF WriteLost
  <2> QED
    BY <1>1, <1>4, <1>5, <2>1, WriteStep DEF TablesOK
<1>11. CASE Throws(p)
  <2>1. Goto(p, "next") /\ UNCHANGED <<webhook, delivery, clock, inspected, aside>>
    BY <1>11 DEF Throws
  <2> QED
    BY <1>1, <2>1, WriteStep DEF TablesOK
<1> QED
  BY <1>6, <1>7, <1>8, <1>9, <1>10, <1>11
     DEF Finish, MarkDeliverySuccess, MarkDeliveryFailed, Statuses

(* The people write no attempts, and no row whose first attempt is early. *)
LEMMA PeopleStep ==
    ASSUME IInv,
           EditWebhook \/ \E d \in Deliveries : InspectDelivery(d) \/ RequeueDelivery(d)
    PROVE  IInv'
<1> USE Ranges
<1>1. UNCHANGED <<clock, proc, acting, requests, gave_up>>
  BY DEF EditWebhook, InspectDelivery, RequeueDelivery, aside
<1>2. /\ webhook' \in Webhook /\ webhook'.failure_count <= gave_up
      /\ inspected' \subseteq Deliveries
  <2>1. CASE EditWebhook
    <3>1. inspected' = inspected /\ TablesOK /\ gave_up \in Nat
          /\ webhook.failure_count <= gave_up
      BY <2>1 DEF EditWebhook
    <3>2. webhook'.failure_count \in {0, webhook.failure_count}
      BY <2>1, <3>1 DEF EditWebhook, TablesOK, Webhook
    <3>3. webhook' \in Webhook
      BY <2>1, <3>1 DEF EditWebhook, TablesOK, Webhook
    <3> QED
      BY <3>1, <3>2, <3>3 DEF TablesOK
  <2>2. CASE \E d \in Deliveries : InspectDelivery(d) \/ RequeueDelivery(d)
    BY <2>2 DEF InspectDelivery, RequeueDelivery, TablesOK
  <2> QED
    BY <2>1, <2>2
<1>3. /\ delivery' \in [Deliveries -> Delivery]
      /\ receipt' \in [Deliveries -> {"none", "ok", "requeued"}]
      /\ \A d \in Deliveries : /\ delivery'[d].attempts = delivery[d].attempts
                               /\ proc[d].pc \in Early =>
                                    delivery'[d] = delivery[d]
  <2>1. CASE UNCHANGED <<delivery, receipt>>
    BY <2>1 DEF TablesOK
  <2>2. ASSUME NEW d \in Deliveries,
               delivery[d].status \in {"failed", "pending_retry"},
               delivery' = [delivery EXCEPT ![d].status = "pending_retry",
                                            ![d].last_retry_at = 0],
               receipt' = [receipt EXCEPT ![d] = "requeued"]
        PROVE  /\ delivery' \in [Deliveries -> Delivery]
               /\ receipt' \in [Deliveries -> {"none", "ok", "requeued"}]
               /\ \A e \in Deliveries :
                    /\ delivery'[e].attempts = delivery[e].attempts
                    /\ proc[e].pc \in Early => delivery'[e] = delivery[e]
    <3>1. proc[d].pc \notin Early
      BY <2>2 DEF IInv, Fresh
    <3> DEFINE row == [delivery[d] EXCEPT !.status = "pending_retry", !.last_retry_at = 0]
    <3>2. delivery \in [Deliveries -> Delivery]
          /\ receipt \in [Deliveries -> {"none", "ok", "requeued"}]
      BY DEF TablesOK
    <3>3. row \in Delivery /\ row.attempts = delivery[d].attempts
      BY <3>2 DEF Delivery, Statuses
    <3>4. delivery' = [delivery EXCEPT ![d] = row]
      BY <2>2
    <3> HIDE DEF row
    <3>5. /\ delivery' \in [Deliveries -> Delivery]
          /\ \A e \in Deliveries : delivery'[e] = IF e = d THEN row ELSE delivery[e]
      BY ONLY <3>2, <3>3, <3>4, d \in Deliveries
    <3>6. receipt' \in [Deliveries -> {"none", "ok", "requeued"}]
      BY <2>2, <3>2
    <3> QED
      BY ONLY <3>1, <3>3, <3>5, <3>6
  <2> QED
    BY <2>1, <2>2 DEF EditWebhook, InspectDelivery, RequeueDelivery, aside
<1>4. TablesOK'
  BY <1>1, <1>2, <1>3 DEF TablesOK
<1>5. AllFit'
  BY <1>1 DEF IInv, AllFit
<1>6. TypeOK'
  BY <1>1, <1>4 DEF IInv, TypeOK, TablesOK
<1>7. (Fresh /\ HeldLate)'
  BY <1>1, <1>3 DEF IInv, Fresh, HeldLate
<1>8. Reached'
  BY <1>1, <1>3, Holds DEF IInv, Reached, AllFit, Fits, Processes, TablesOK
<1>9. (FirstUnsent /\ AttemptsMadeOnce)'
  <2>1. FirstUnsent'
    BY <1>1 DEF IInv, FirstUnsent
  <2>2. AttemptsMadeOnce'
    <3>1. proc' = proc /\ requests' = requests /\ AttemptsMadeOnce
      BY <1>1 DEF IInv
    <3> QED
      BY ONLY <3>1 DEF AttemptsMadeOnce, Request, Attempt
  <2> QED
    BY <2>1, <2>2
<1>10. (CountsBehind /\ CountsOnlyGivenUp)'
  BY <1>1, <1>2 DEF IInv, CountsBehind, CountsOnlyGivenUp
<1> QED
  BY <1>5, <1>6, <1>7, <1>8, <1>9, <1>10 DEF IInv

-----------------------------------------------------------------------------
(* The theorems *)

(* Nothing is sent, read or given up at first. *)
LEMMA InitIInv == Init => IInv
<1> SUFFICES ASSUME Init PROVE IInv
  OBVIOUS
<1>1. /\ Idle \in Process /\ Idle.pc = "idle" /\ Idle.job = None
      /\ Idle.page = {} /\ Idle.seen.failure_count = 0
      /\ 0 \in Counts /\ 0 \in Attempts
  BY DeliveryAssumption DEF Idle, Process, Seen, Counts, Attempts
<1>2. \A p \in Processes : proc[p] = Idle
  BY DEF Init, Processes
<1>3. AllFit
  BY <1>1, <1>2 DEF Init, AllFit, Fits, Processes
<1>4. TablesOK
  BY <1>1 DEF Init, TablesOK, Webhook, Delivery, Statuses
<1>5. TypeOK
  BY <1>3, <1>4, TypesSplit
<1>6. Fresh /\ HeldLate /\ Reached /\ FirstUnsent /\ AttemptsMadeOnce
  BY <1>1, <1>2 DEF Init, Fresh, HeldLate, Reached, FirstUnsent,
                    AttemptsMadeOnce, Processes
<1>7. CountsBehind /\ CountsOnlyGivenUp
  BY <1>1, <1>2 DEF Init, CountsBehind, CountsOnlyGivenUp, Processes
<1> QED
  BY <1>3, <1>5, <1>6, <1>7 DEF IInv

(* Every step keeps the invariant. *)
LEMMA NextIInv == IInv /\ [Next]_vars => IInv'
<1> SUFFICES ASSUME IInv, [Next]_vars PROVE IInv'
  OBVIOUS
<1>1. ASSUME NEW d \in Deliveries \cap acting, FirstAttempt(d) PROVE IInv'
  BY <1>1, FirstAttemptStep
<1>2. ASSUME NEW w \in Workers \cap acting, Work(w) PROVE IInv'
  BY <1>2, WorkStep
<1>3. ASSUME NEW p \in Workers \cup Deliveries, Send(p) \/ Finish(p) \/ Throws(p)
      PROVE  IInv'
  BY <1>3, SendStep, FinishStep DEF Processes
<1>4. CASE \/ EditWebhook
           \/ \E d \in Deliveries : InspectDelivery(d) \/ RequeueDelivery(d)
  BY <1>4, PeopleStep
<1>5. CASE UNCHANGED vars
  BY <1>5 DEF vars, IInv, TypeOK, AllFit, Fresh, HeldLate, Reached,
              FirstUnsent, AttemptsMadeOnce, Request, Attempt, CountsBehind,
              CountsOnlyGivenUp
<1> QED
  BY <1>1, <1>2, <1>3, <1>4, <1>5 DEF Next

(* Whatever is lost, dies, is edited or requeued, and however many workers
   there are, the deliveries stay within the invariant. *)
THEOREM DeliveriesInvariant == Spec => []IInv
<1>1. Init => IInv
  BY InitIInv
<1>2. IInv /\ [Next]_vars => IInv'
  BY NextIInv
<1> QED
  BY <1>1, <1>2, PTL DEF Spec

(* Rows, processes and requests have their types: no row counts more than
   MaxRetries attempts. *)
THEOREM DeliveriesTypes == Spec => []TypeOK
<1>1. IInv => TypeOK
  BY DEF IInv
<1> QED
  BY <1>1, DeliveriesInvariant, PTL

(* The compare-and-set of the claim is enough: no attempt of a delivery is
   made by two processes or twice by one. *)
THEOREM NoAttemptTwice == Spec => []AttemptsMadeOnce
<1>1. IInv => AttemptsMadeOnce
  BY DEF IInv
<1> QED
  BY <1>1, DeliveriesInvariant, PTL

(* The counts written from what a page read lose failures and add none. *)
THEOREM CountsAddNone == Spec => []CountsOnlyGivenUp
<1>1. IInv => CountsOnlyGivenUp
  BY DEF IInv
<1> QED
  BY <1>1, DeliveriesInvariant, PTL

-----------------------------------------------------------------------------
(* An acknowledged delivery *)

(* From its claim to the write of its result a process has the row; a failure
   without attempts left, and a delivery given up unsent, only end it. *)
Has(p, d) == /\ proc[p].pc \in {"send", "mark-success", "mark-retry"}
             /\ proc[p].job.id = d

(* Until an operator requeues it, a row has one process at most and does not
   wait while it has one; an acknowledged one does not wait any more, and who
   has it will say so. *)
Single ==
    \A d \in Deliveries :
        /\ proc[d].pc \in Early => receipt[d] = "none"
        /\ receipt[d] # "requeued" =>
             /\ \A p \in Processes : Has(p, d) =>
                  /\ delivery[d].status # "pending_retry"
                  /\ \A q \in Processes : Has(q, d) => p = q
                  /\ receipt[d] = "ok" => proc[p].pc = "mark-success"
             /\ receipt[d] = "ok" => delivery[d].status # "pending_retry"

(* A process that leaves its row, having made it wait again at most, or that
   had none. *)
LEMMA Released ==
    ASSUME IInv, Single, NEW p \in Processes, NEW x,
           proc' = [proc EXCEPT ![p] = x],
           x.pc \notin {"send", "mark-success", "mark-retry"},
           p \in Deliveries /\ x.pc \in Early => proc[p].pc \in Early,
           receipt' = receipt,
           \A d \in Deliveries :
             delivery'[d].status = "pending_retry" =>
               \/ delivery[d].status = "pending_retry"
               \/ receipt[d] = "requeued"
               \/ /\ receipt[d] # "ok"
                  /\ \A q \in Processes : Has(q, d) => q = p
    PROVE  Single'
<1>1. proc'[p] = x /\ \A q \in Processes : q # p => proc'[q] = proc[q]
  BY DEF IInv, AllFit
<1>2. \A q \in Processes, d \in Deliveries : Has(q, d)' => Has(q, d) /\ q # p
  BY <1>1 DEF Has
<1>3. \A d \in Deliveries : proc'[d].pc \in Early => proc[d].pc \in Early
  BY <1>1 DEF Processes
<1>4. \A q \in Processes, d \in Deliveries : Has(q, d)' => proc'[q] = proc[q]
  BY <1>1, <1>2
<1> QED
  BY <1>2, <1>3, <1>4 DEF Single

(* Where a process goes that does not keep its row. *)
LEMMA GoesOff ==
    ASSUME IInv, NEW p \in Processes, NEW pc, Goto(p, pc),
           proc[p].pc # "idle",
           pc \in {"next", "resolve", "count", "mark-failed", "reset",
                   "increment"},
           pc \in {"resolve", "count"} => proc[p].pc \in Early
    PROVE  \E x : /\ proc' = [proc EXCEPT ![p] = x]
                  /\ x.pc \notin {"send", "mark-success", "mark-retry"}
                  /\ p \in Deliveries /\ x.pc \in Early => proc[p].pc \in Early
<1>1. proc[p] \in Process /\ Deliveries \cap Workers = {}
  BY DeliveryAssumption DEF IInv, AllFit, Fits
<1>2. CASE pc # "next"
  <2>1. proc' = [proc EXCEPT ![p] = [proc[p] EXCEPT !.pc = pc]]
    BY <1>2 DEF Goto
  <2>2. [proc[p] EXCEPT !.pc = pc].pc = pc
    BY <1>1 DEF Process
  <2> QED
    BY <1>2, <2>1, <2>2 DEF Early
<1>3. CASE pc = "next"
  <2>1. proc' = [proc EXCEPT ![p] = NextJob(p)]
    BY <1>3 DEF Goto
  <2>2. /\ NextJob(p).pc \in {"page", "idle", "over"}
        /\ p \in Deliveries => NextJob(p).pc = "over"
    BY <1>1 DEF NextJob, Idle, Process
  <2> QED
    BY <2>1, <2>2 DEF Early
<1> QED
  BY <1>2, <1>3

(* A process keeps the row it has, or takes one that nobody has. *)
LEMMA Taking ==
    ASSUME IInv, Single, NEW p \in Processes, NEW id \in Deliveries,
           NEW x, proc' = [proc EXCEPT ![p] = x],
           x.pc = "send", x.job.id = id,
           receipt' = receipt,
           \A d \in Deliveries : d # id => delivery'[d] = delivery[d],
           delivery'[id].status # "pending_retry",
           receipt[id] # "requeued" =>
             /\ receipt[id] # "ok"
             /\ \A q \in Processes : ~Has(q, id)
    PROVE  Single'
<1>1. proc'[p] = x /\ \A q \in Processes : q # p => proc'[q] = proc[q]
  BY DEF IInv, AllFit
<1>2. \A q \in Processes, d \in Deliveries :
        Has(q, d)' => \/ q = p /\ d = id
                      \/ Has(q, d) /\ q # p /\ proc'[q] = proc[q]
  BY <1>1 DEF Has
<1>3. \A d \in Deliveries : proc'[d].pc \in Early => proc[d].pc \in Early
  BY <1>1 DEF Processes, Early
<1> QED
  BY <1>2, <1>3 DEF Single

(* The steps of a first attempt. *)
LEMMA SingleFirst ==
    ASSUME IInv, Single, NEW d \in Deliveries, FirstAttempt(d)
    PROVE  Single'
<1>1. /\ d \in Processes /\ d \notin Workers
      /\ receipt' = receipt
      /\ proc[d] \in Process /\ delivery \in [Deliveries -> Delivery]
  BY DeliveryAssumption
     DEF Processes, IInv, AllFit, Fits, TypeOK, FirstAttempt, Deliver,
         InsertDelivery, ResolveHost, CountAttempt, EnqueueBySweep, aside
<1>2. proc[d].pc \in Early
  BY DEF FirstAttempt, Deliver, InsertDelivery, ResolveHost, CountAttempt,
         EnqueueBySweep, Early
<1>3. receipt[d] = "none" /\ delivery[d].status \in {"none", "pending"}
  BY <1>2 DEF Single, IInv, Fresh
<1>4. \A q \in Processes : ~Has(q, d)
  <2>1. \A w \in Workers : ~Has(w, d)
    BY <1>2 DEF Has, IInv, AllFit, Fits, HeldLate, Processes
  <2>2. \A e \in Deliveries : ~Has(e, d)
    BY <1>2 DEF Has, IInv, AllFit, Fits, Processes, Early
  <2> QED
    BY <2>1, <2>2 DEF Processes
<1>5. CASE Deliver(d) \/ EnqueueBySweep(d)
  <2>1. PICK x : /\ proc' = [proc EXCEPT ![d] = x]
                 /\ x.pc \in {"insert", "over"}
    <3>1. CASE Deliver(d)
      <4> DEFINE x == [Idle EXCEPT !.pc = "insert",
                                   !.job = [id |-> d, attempts |-> 0, at |-> 0]]
      <4>1. x.pc = "insert"
        BY DEF Idle
      <4>2. proc' = [proc EXCEPT ![d] = x]
        BY <3>1 DEF Deliver
      <4> HIDE DEF x
      <4> QED
        BY <4>1, <4>2
    <3>2. CASE EnqueueBySweep(d)
      <4> DEFINE x == [proc[d] EXCEPT !.pc = "over"]
      <4>1. x.pc = "over"
        BY <1>1 DEF Process
      <4>2. proc' = [proc EXCEPT ![d] = x]
        BY <3>2 DEF EnqueueBySweep
      <4> HIDE DEF x
      <4> QED
        BY <4>1, <4>2
    <3> QED
      BY <1>5, <3>1, <3>2
  <2>2. \A e \in Deliveries : e # d => delivery'[e] = delivery[e]
    BY <1>1, <1>5 DEF Deliver, EnqueueBySweep
  <2> QED
    BY <1>1, <1>2, <1>3, <1>4, <2>1, <2>2, Released
<1>6. CASE InsertDelivery(d) \/ ResolveHost(d)
  <2>1. \E pc \in {"resolve", "count", "next"} : Goto(d, pc) /\ proc[d].pc # "idle"
    BY <1>6 DEF InsertDelivery, ResolveHost
  <2>2. \A e \in Deliveries : e # d => delivery'[e] = delivery[e]
    BY <1>1, <1>6 DEF InsertDelivery, ResolveHost
  <2>3. PICK x : /\ proc' = [proc EXCEPT ![d] = x]
                 /\ x.pc \notin {"send", "mark-success", "mark-retry"}
    BY <1>1, <1>2, <2>1, GoesOff
  <2> QED
    BY <1>1, <1>2, <1>3, <1>4, <2>2, <2>3, Released
<1>7. CASE CountAttempt(d)
  <2> DEFINE x == [proc[d] EXCEPT !.pc = "send"]
  <2>1. /\ proc[d].pc = "count" /\ proc' = [proc EXCEPT ![d] = x]
        /\ \/ delivery' = delivery
           \/ delivery' = [delivery EXCEPT ![d].status = "pending",
                                           ![d].attempts = 1]
    BY <1>7 DEF CountAttempt, Goto
  <2>2. x.pc = "send" /\ x.job.id = d
    BY <1>1, <2>1 DEF Process, IInv, AllFit, Fits
  <2>3. \A e \in Deliveries : e # d => delivery'[e] = delivery[e]
    BY <1>1, <2>1
  <2>4. delivery'[d].status # "pending_retry"
    BY <1>1, <1>3, <2>1 DEF Delivery
  <2> HIDE DEF x
  <2>5. proc' = [proc EXCEPT ![d] = x]
    BY <2>1
  <2> QED
    BY <1>1, <1>3, <1>4, <2>2, <2>3, <2>4, <2>5, Taking
<1> QED
  BY <1>5, <1>6, <1>7 DEF FirstAttempt

(* A worker takes a row that waits, so nobody has it. *)
LEMMA SingleWork ==
    ASSUME IInv, Single, NEW w \in Workers, Work(w)
    PROVE  Single'
<1>1. /\ w \in Processes /\ w \notin Deliveries /\ proc[w] \in Process
      /\ delivery \in [Deliveries -> Delivery]
  BY DeliveryAssumption DEF Processes, IInv, AllFit, Fits, TypeOK
<1>2. CASE Claim(w)
  <2>1. PICK job \in proc[w].page :
          /\ ClaimMatches(job)
          /\ delivery' = [delivery EXCEPT ![job.id] =
                            [status |-> "retrying", attempts |-> job.attempts + 1,
                             last_retry_at |-> clock']]
          /\ Take(w, job, "send", clock')
    BY <1>2 DEF Claim
  <2> DEFINE x == [proc[w] EXCEPT !.pc = "send", !.job = [job EXCEPT !.at = clock'],
                                  !.page = proc[w].page \ {job}]
  <2>2. proc' = [proc EXCEPT ![w] = x] /\ receipt' = receipt
    BY <1>2, <2>1 DEF Take, Claim, aside
  <2>3. job \in Job /\ job.id \in Deliveries
    BY <1>1 DEF Process, Job
  <2>4. x.pc = "send" /\ x.job.id = job.id
    BY <1>1, <2>3 DEF Process, Job
  <2> HIDE DEF x
  <2>5. delivery[job.id].status = "pending_retry"
    BY <2>1 DEF ClaimMatches
  <2>6. /\ delivery'[job.id].status # "pending_retry"
        /\ \A d \in Deliveries : d # job.id => delivery'[d] = delivery[d]
    BY <1>1, <2>1, <2>3
  <2>7. receipt[job.id] # "requeued" =>
          /\ receipt[job.id] # "ok"
          /\ \A q \in Processes : ~Has(q, job.id)
    BY <2>3, <2>5 DEF Single
  <2> QED
    BY <1>1, <2>2, <2>3, <2>4, <2>6, <2>7, Taking
<1>3. ASSUME NEW x, proc' = [proc EXCEPT ![w] = x],
             x.pc \in {"idle", "page", "mark-failed"},
             UNCHANGED <<delivery, receipt>>
      PROVE  Single'
  BY <1>1, <1>3, Released
<1>4. CASE Skip(w) \/ Crash(w)
  <2>1. UNCHANGED <<delivery, receipt>>
    BY <1>4 DEF Skip, Crash, aside
  <2>2. Idle.pc = "idle"
    BY DEF Idle
  <2>3. CASE proc' = [proc EXCEPT ![w] = Idle]
    BY <1>3, <2>1, <2>2, <2>3
  <2>4. ASSUME NEW job \in proc[w].page, proc[w].pc = "page",
               proc' = [proc EXCEPT ![w] =
                          [proc[w] EXCEPT !.page = proc[w].page \ {job}]]
        PROVE  Single'
    <3>1. [proc[w] EXCEPT !.page = proc[w].page \ {job}].pc = "page"
      BY <1>1, <2>4 DEF Process
    <3> QED
      BY <1>3, <2>1, <2>4, <3>1
  <2> QED
    BY <1>4, <2>3, <2>4 DEF Skip, Crash
<1>5. CASE GiveUpUnsent(w)
  <2>1. PICK job \in proc[w].page : Take(w, job, "mark-failed", 0)
    BY <1>5 DEF GiveUpUnsent
  <2> DEFINE x == [proc[w] EXCEPT !.pc = "mark-failed", !.job = [job EXCEPT !.at = 0],
                                  !.page = proc[w].page \ {job}]
  <2>2. x.pc = "mark-failed" /\ proc' = [proc EXCEPT ![w] = x]
    BY <1>1, <2>1 DEF Process, Take
  <2> QED
    BY <1>3, <1>5, <2>2 DEF GiveUpUnsent
<1>6. ASSUME NEW due, FetchPending(w, due)
      PROVE  Single'
  <2>1. PICK page : proc' = [proc EXCEPT ![w] =
               [Idle EXCEPT !.pc = "page", !.seen = SeenNow,
                  !.page = {[id |-> d, attempts |-> delivery[d].attempts,
                             at |-> 0] : d \in {e \in page : ShouldRetry(e, due)}}]]
    BY <1>6 DEF FetchPending
  <2> DEFINE jobs == {[id |-> d, attempts |-> delivery[d].attempts, at |-> 0] :
                        d \in {e \in page : ShouldRetry(e, due)}}
             x == [Idle EXCEPT !.pc = "page", !.seen = SeenNow, !.page = jobs]
  <2>2. proc' = [proc EXCEPT ![w] = x]
    BY <2>1
  <2> HIDE DEF jobs
  <2>3. x.pc = "page"
    BY DEF Idle
  <2> QED
    BY <1>3, <1>6, <2>2, <2>3 DEF FetchPending, aside
<1> QED
  BY <1>2, <1>4, <1>5, <1>6 DEF Work

(* An answer is heard by the only process that has the row. *)
LEMMA SingleSend ==
    ASSUME IInv, Single, NEW p \in Processes, Send(p)
    PROVE  Single'
<1> DEFINE id == proc[p].job.id
<1>1. PICK ok \in BOOLEAN :
        /\ receipt' = IF ok /\ receipt[id] = "none"
                        THEN [receipt EXCEPT ![id] = "ok"]
                      ELSE receipt
        /\ Goto(p, AfterSend(p, ok))
        /\ delivery' = delivery /\ proc[p].pc = "send"
  BY DEF Send
<1>2. /\ proc[p] \in Process /\ id \in Deliveries /\ Has(p, id)
      /\ receipt \in [Deliveries -> {"none", "ok", "requeued"}]
  BY <1>1 DEF IInv, AllFit, Fits, Process, Job, TypeOK, Has
<1>3. receipt[id] # "ok"
  BY <1>1, <1>2 DEF Single
<1> DEFINE x == [proc[p] EXCEPT !.pc = AfterSend(p, ok)]
<1>4. AfterSend(p, ok) \in {"mark-success", "mark-failed", "mark-retry"}
  BY DEF AfterSend
<1>5. proc' = [proc EXCEPT ![p] = x]
  BY <1>1, <1>4 DEF Goto
<1>6. x.job.id = id /\ x.pc = AfterSend(p, ok)
  BY <1>2 DEF Process
<1>7. proc'[p] = x /\ \A q \in Processes : q # p => proc'[q] = proc[q]
  BY <1>5 DEF IInv, AllFit
<1> HIDE DEF x
<1>8. \A q \in Processes, d \in Deliveries :
        Has(q, d)' => Has(q, d) /\ ((q = p /\ d = id) \/ proc'[q] = proc[q])
  BY <1>1, <1>2, <1>6, <1>7 DEF Has
<1>9. \A d \in Deliveries : proc'[d].pc \in Early => proc[d].pc \in Early /\ d # p
  BY <1>4, <1>6, <1>7 DEF Processes, Early
<1>10. ok => AfterSend(p, ok) = "mark-success"
  BY DEF AfterSend
<1>11. \A d \in Deliveries : d # id => receipt'[d] = receipt[d]
  BY <1>1, <1>2
<1>12. proc[id].pc \notin Early
  <2>1. CASE p \in Workers
    BY <1>1, <2>1 DEF IInv, AllFit, Fits, HeldLate, Processes
  <2>2. CASE p \in Deliveries
    BY <1>1, <2>2 DEF IInv, AllFit, Fits, Processes, Early
  <2> QED
    BY <2>1, <2>2 DEF Processes
<1>13. receipt'[id] = "ok" => ok /\ receipt[id] = "none"
  BY <1>1, <1>2, <1>3
<1>14. receipt'[id] # "requeued" => receipt[id] # "requeued"
  BY <1>1, <1>2
<1> SUFFICES ASSUME NEW d \in Deliveries
             PROVE  /\ proc'[d].pc \in Early => receipt'[d] = "none"
                    /\ receipt'[d] # "requeued" =>
                         /\ \A r \in Processes : Has(r, d)' =>
                              /\ delivery'[d].status # "pending_retry"
                              /\ \A q \in Processes : Has(q, d)' => r = q
                              /\ receipt'[d] = "ok" => proc'[r].pc = "mark-success"
                         /\ receipt'[d] = "ok" =>
                              delivery'[d].status # "pending_retry"
  BY DEF Single
<1>15. CASE d = id
  <2>1. proc'[d].pc \notin Early
    BY <1>9, <1>12, <1>15
  <2>2. ASSUME receipt'[d] # "requeued"
        PROVE  /\ delivery'[d].status # "pending_retry"
               /\ \A r \in Processes : Has(r, d)' => r = p
    BY <1>1, <1>2, <1>8, <1>14, <1>15, <2>2 DEF Single
  <2> QED
    BY <1>6, <1>7, <1>10, <1>13, <1>15, <2>1, <2>2
<1>16. CASE d # id
  <2>1. receipt'[d] = receipt[d] /\ delivery'[d] = delivery[d]
    BY <1>1, <1>11, <1>16
  <2>2. \A r \in Processes : Has(r, d)' => Has(r, d) /\ proc'[r] = proc[r]
    BY <1>8, <1>16
  <2> QED
    BY <1>9, <2>1, <2>2 DEF Single
<1> QED
  BY <1>15, <1>16

(* The writes let go of the row; only a failure that may be retried makes it
   wait, and it is the only process that has it. *)
LEMMA SingleFinish ==
    ASSUME IInv, Single, NEW p \in Processes, Finish(p) \/ Throws(p)
    PROVE  Single'
<1>1. \E pc \in {"next", "reset", "increment"} : Goto(p, pc) /\ proc[p].pc # "idle"
  BY DEF Finish, Throws, MarkDeliverySuccess, MarkDeliveryFailed, MarkRetry,
         MarkDelivery, ResetWebhookFailureState, IncrementFailure, WriteLost,
         AfterWrite, Writes
<1>2. PICK x : /\ proc' = [proc EXCEPT ![p] = x]
               /\ x.pc \notin {"send", "mark-success", "mark-retry"}
               /\ p \in Deliveries /\ x.pc \in Early => proc[p].pc \in Early
  BY <1>1, GoesOff
<1>3. /\ receipt' = receipt /\ delivery \in [Deliveries -> Delivery]
  BY DEF Finish, Throws, MarkDeliverySuccess, MarkDeliveryFailed, MarkRetry,
         MarkDelivery, ResetWebhookFailureState, IncrementFailure, WriteLost,
         aside, IInv, TypeOK
<1>4. CASE MarkRetry(p)
  <2> DEFINE id == proc[p].job.id
  <2>1. /\ proc[p].pc = "mark-retry"
        /\ delivery' = [delivery EXCEPT ![id].status = "pending_retry",
                                        ![id].last_retry_at = proc[p].job.at]
    BY <1>4 DEF MarkRetry
  <2>2. id \in Deliveries /\ Has(p, id)
    BY <2>1 DEF Has, IInv, AllFit, Fits, Process, Job
  <2>3. receipt[id] # "requeued" =>
          receipt[id] # "ok" /\ \A q \in Processes : Has(q, id) => q = p
    BY <2>1, <2>2 DEF Single
  <2>4. \A d \in Deliveries : d # id => delivery'[d] = delivery[d]
    BY <1>3, <2>1
  <2> QED
    BY <1>2, <1>3, <2>3, <2>4, Released
<1>5. CASE ~MarkRetry(p)
  <2>1. \A d \in Deliveries : delivery'[d].status = "pending_retry" =>
                                delivery[d].status = "pending_retry"
    BY <1>3, <1>5 DEF Finish, Throws, MarkDeliverySuccess, MarkDeliveryFailed,
                      MarkDelivery, ResetWebhookFailureState,
                      IncrementFailure, WriteLost, Delivery
  <2> QED
    BY <1>2, <1>3, <2>1, Released
<1> QED
  BY <1>4, <1>5

(* A requeue is the end of the promise. *)
LEMMA SinglePeople ==
    ASSUME IInv, Single,
           EditWebhook \/ \E d \in Deliveries : InspectDelivery(d) \/ RequeueDelivery(d)
    PROVE  Single'
<1>1. proc' = proc
  BY DEF EditWebhook, InspectDelivery, RequeueDelivery
<1>2. CASE UNCHANGED <<delivery, receipt>>
  BY <1>1, <1>2 DEF Single, Has
<1>3. ASSUME NEW d \in Deliveries,
             delivery[d].status \in {"failed", "pending_retry"},
             delivery' = [delivery EXCEPT ![d].status = "pending_retry",
                                          ![d].last_retry_at = 0],
             receipt' = [receipt EXCEPT ![d] = "requeued"]
      PROVE  Single'
  <2>1. proc[d].pc \notin Early
    BY <1>3 DEF IInv, Fresh
  <2>2. /\ receipt'[d] = "requeued"
        /\ \A e \in Deliveries : e # d => /\ receipt'[e] = receipt[e]
                                          /\ delivery'[e] = delivery[e]
    BY <1>3 DEF IInv, TypeOK
  <2> QED
    BY <1>1, <2>1, <2>2 DEF Single, Has
<1> QED
  BY <1>2, <1>3 DEF EditWebhook, InspectDelivery, RequeueDelivery, aside

(* Every step keeps a row single. *)
LEMMA NextSingle == IInv /\ Single /\ [Next]_vars => Single'
<1> SUFFICES ASSUME IInv, Single, [Next]_vars PROVE Single'
  OBVIOUS
<1>1. CASE UNCHANGED vars
  BY <1>1 DEF vars, Single, Has
<1>2. CASE Next
  BY <1>2, SingleFirst, SingleWork, SingleSend, SingleFinish, SinglePeople
     DEF Next, Processes
<1> QED
  BY <1>1, <1>2

(* No request leaves for a delivery that was acknowledged. *)
LEMMA NeverAgain == IInv /\ Single /\ [Next]_vars => ~SendsAgain
<1> SUFFICES ASSUME IInv, Single, [Next]_vars, SendsAgain PROVE FALSE
  OBVIOUS
<1>1. PICK r \in requests' \ requests : receipt[r.id] = "ok"
  BY DEF SendsAgain
<1>2. requests' # requests
  BY <1>1
<1>3. PICK p \in Processes : Send(p)
  BY <1>2 DEF vars, aside, Next, FirstAttempt, Deliver, InsertDelivery,
              ResolveHost, CountAttempt, EnqueueBySweep, Work, FetchPending,
              Claim, Skip, GiveUpUnsent, Crash, Finish, MarkDeliverySuccess,
              MarkDeliveryFailed, MarkRetry, MarkDelivery,
              ResetWebhookFailureState, IncrementFailure, WriteLost, Throws,
              EditWebhook, InspectDelivery, RequeueDelivery, Processes
<1>4. r = Request(p) /\ proc[p].pc = "send"
  BY <1>1, <1>3 DEF Send
<1>5. r.id = proc[p].job.id /\ r.id \in Deliveries
  BY <1>4 DEF Request, IInv, AllFit, Fits, Process, Job
<1>6. Has(p, r.id)
  BY <1>4, <1>5 DEF Has
<1> QED
  BY <1>1, <1>4, <1>5, <1>6 DEF Single

(* Whatever is lost or dies after the answer, an acknowledged delivery is not
   sent again unless an operator requeues it. *)
THEOREM AcknowledgedStays == Spec => AcknowledgedOnce
<1>1. Init => Single
  BY DEF Init, Single, Has, Idle, Processes
<1>2. IInv /\ Single /\ [Next]_vars => Single'
  BY NextSingle
<1>3. IInv /\ Single /\ [Next]_vars => [~SendsAgain]_vars
  BY NeverAgain
<1> QED
  BY <1>1, <1>2, <1>3, DeliveriesInvariant, PTL DEF Spec, AcknowledgedOnce
=============================================================================
