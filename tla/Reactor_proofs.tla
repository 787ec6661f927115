--------------------------- MODULE Reactor_proofs ---------------------------
(***************************************************************************)
(* What the reactor keeps, for any number of events, messages and          *)
(* reactors, and any number of interrupted passes.                         *)
(***************************************************************************)
EXTENDS Reactor, TLAPS

(* Whoever is in a pass holds the lease, so one reactor is. *)
LeaseHeld == \A r \in Reactors : pass[r].pc # "idle" => lease = r

(* A pass has seen and kept nothing until it reads. *)
FreshPass == \A r \in Reactors :
    ~Draining(r) => pass[r].retained = <<>> /\ pass[r].seen = {}

(* The events a pass still has in its hands. *)
InHand(r) == Range(pass[r].events) \cup Range(pass[r].retained)

(* The file holds an event once, and so does a pass, all of it from the file. *)
NoRepeats ==
    /\ IsInjective(queue)
    /\ \A r \in Reactors : Draining(r) =>
          /\ IsInjective(pass[r].events)
          /\ Range(pass[r].events) \cap Range(pass[r].retained) = {}
          /\ IsInjective(pass[r].retained)
          /\ InHand(r) \subseteq Queued

(* Rewriting the file loses nothing but what was written behind the pass. *)
PassAccounts ==
    \A r \in Reactors : Draining(r) =>
        Queued \subseteq settled \cup dropped \cup late \cup InHand(r)

(* A delivery will survive the rewriting of a pass that is under way. *)
Survives(f) == /\ f \in Queued
               /\ \A r \in Reactors : Draining(r) => f \in InHand(r)

(* A key counts as seen because one of its deliveries was handled or is kept. *)
SeenForAReason ==
    \A r \in Reactors : Draining(r) => \A m \in pass[r].seen :
        \E f \in Events : /\ content[f].key = m
                          /\ f \in settled \/ f \in Range(pass[r].retained)

KeyKept ==
    \A e \in dropped : \E f \in Events :
        content[f].key = content[e].key /\ (f \in settled \/ Survives(f))

(* Without interruptions a completed event is out of the file, or about to be. *)
DoneIsGone ==
    /\ \A e \in worked : delivery[e] = "received"
    /\ breaks = 0 =>
          /\ reworked = {}
          /\ \A e \in worked :
                /\ \A r \in Reactors : Draining(r) => e \notin InHand(r)
                /\ e \in Queued => \E r \in Reactors : Draining(r)

IInv == /\ TypeOK /\ LeaseHeld /\ FreshPass /\ NoRepeats /\ PassAccounts /\ SeenForAReason
        /\ LostOnlyBehindAPass /\ KeyKept /\ DoneIsGone /\ ClosedOnlyWhenApproved

-----------------------------------------------------------------------------
(* Sequences *)

LEMMA TailElements ==
    ASSUME NEW S, NEW s \in Seq(S), s # <<>>
    PROVE  /\ Head(s) \in S /\ Tail(s) \in Seq(S)
           /\ Range(s) = {Head(s)} \cup Range(Tail(s))
           /\ IsInjective(s) => /\ IsInjective(Tail(s))
                                /\ Head(s) \notin Range(Tail(s))
<1>1. /\ Len(s) \in Nat \ {0} /\ DOMAIN s = 1 .. Len(s) /\ Head(s) = s[1]
      /\ Head(s) \in S /\ Tail(s) \in Seq(S)
  OBVIOUS
<1>2. /\ DOMAIN Tail(s) = 1 .. (Len(s) - 1)
      /\ \A i \in 1 .. (Len(s) - 1) : Tail(s)[i] = s[i + 1]
  OBVIOUS
<1>3. ASSUME NEW x \in Range(s) PROVE x \in {Head(s)} \cup Range(Tail(s))
  <2>1. PICK i \in 1 .. Len(s) : x = s[i]
    BY <1>1, <1>3 DEF Range
  <2>2. CASE i = 1
    BY <1>1, <2>1, <2>2
  <2>3. CASE i # 1
    <3>1. i - 1 \in 1 .. (Len(s) - 1) /\ x = Tail(s)[i - 1]
      BY <1>1, <1>2, <2>1, <2>3
    <3> QED
      BY <1>2, <3>1 DEF Range
  <2> QED
    BY <2>2, <2>3
<1>4. ASSUME NEW x \in {Head(s)} \cup Range(Tail(s)) PROVE x \in Range(s)
  <2>1. CASE x = Head(s)
    BY <1>1, <2>1 DEF Range
  <2>2. CASE x \in Range(Tail(s))
    <3>1. PICK i \in 1 .. (Len(s) - 1) : x = s[i + 1]
      BY <1>2, <2>2 DEF Range
    <3> QED
      BY <1>1, <3>1 DEF Range
  <2> QED
    BY <1>4, <2>1, <2>2
<1>5. ASSUME IsInjective(s)
      PROVE  IsInjective(Tail(s)) /\ Head(s) \notin Range(Tail(s))
  BY <1>1, <1>2, <1>5 DEF IsInjective, Range
<1> QED
  BY <1>1, <1>3, <1>4, <1>5

LEMMA AppendElements ==
    ASSUME NEW S, NEW s \in Seq(S), NEW e \in S
    PROVE  /\ Append(s, e) \in Seq(S)
           /\ Range(Append(s, e)) = Range(s) \cup {e}
           /\ IsInjective(s) /\ e \notin Range(s) => IsInjective(Append(s, e))
<1>1. /\ Len(s) \in Nat /\ DOMAIN s = 1 .. Len(s) /\ Append(s, e) \in Seq(S)
      /\ DOMAIN Append(s, e) = 1 .. (Len(s) + 1)
      /\ Append(s, e)[Len(s) + 1] = e
      /\ \A i \in 1 .. Len(s) : Append(s, e)[i] = s[i]
  OBVIOUS
<1>2. Range(Append(s, e)) \subseteq Range(s) \cup {e}
  BY <1>1 DEF Range
<1>3. Range(s) \cup {e} \subseteq Range(Append(s, e))
  <2>1. \A i \in 1 .. Len(s) : i \in 1 .. (Len(s) + 1)
    BY <1>1
  <2>2. Len(s) + 1 \in 1 .. (Len(s) + 1)
    BY <1>1
  <2> QED
    BY <1>1, <2>1, <2>2 DEF Range
<1>4. ASSUME IsInjective(s), e \notin Range(s) PROVE IsInjective(Append(s, e))
  BY <1>1, <1>4 DEF IsInjective, Range
<1> QED
  BY <1>1, <1>2, <1>3, <1>4

LEMMA EmptyElements ==
    /\ Range(<<>>) = {} /\ IsInjective(<<>>)
    /\ \A S : <<>> \in Seq(S)
  BY DEF Range, IsInjective

-----------------------------------------------------------------------------
(* The steps *)

(* At most one reactor drains. *)
LEMMA OneDrains ==
    ASSUME LeaseHeld, NEW r \in Reactors, NEW q \in Reactors,
           pass[r].pc # "idle", pass[q].pc # "idle"
    PROVE  r = q
  BY DEF LeaseHeld

LEMMA InitHolds == Init => IInv
<1> SUFFICES ASSUME Init PROVE IInv
  OBVIOUS
<1>1. \A r \in Reactors : ~Draining(r) /\ pass[r].pc = "idle"
  BY DEF Init, Idle, Draining
<1>2. TypeOK
  BY EmptyElements, ReactorAssumption DEF Init, TypeOK, Idle, Passes, Queued
<1>3. LeaseHeld /\ FreshPass /\ NoRepeats /\ PassAccounts /\ SeenForAReason
  BY <1>1, EmptyElements
     DEF Init, Idle, LeaseHeld, FreshPass, NoRepeats, PassAccounts, SeenForAReason
<1>4. LostOnlyBehindAPass /\ KeyKept /\ DoneIsGone /\ ClosedOnlyWhenApproved
  BY DEF Init, LostOnlyBehindAPass, KeyKept, DoneIsGone, ClosedOnlyWhenApproved
<1> QED
  BY <1>2, <1>3, <1>4 DEF IInv

(* Steps that touch neither the file nor a pass: opening, aging, stuttering. *)
LEMMA OutsideStep ==
    ASSUME IInv,
           UNCHANGED <<content, queue, lease, pass, tracked, history>>,
           delivery' \in [Events -> {"coming", "opened", "orphaned", "received"}],
           \A e \in Events : delivery'[e] = "received" <=> delivery[e] = "received",
           stale' \subseteq Events
    PROVE  IInv'
<1>1. TypeOK'
  <2>1. Queued \subseteq Events
    BY DEF IInv, TypeOK, Queued, Range
  <2> QED
    BY <2>1 DEF IInv, TypeOK, Queued, history
<1>2. (LeaseHeld /\ FreshPass /\ NoRepeats /\ PassAccounts /\ SeenForAReason)'
  BY DEF IInv, LeaseHeld, FreshPass, NoRepeats, PassAccounts, SeenForAReason, Queued,
         InHand, Draining, history
<1>3. (LostOnlyBehindAPass /\ KeyKept /\ ClosedOnlyWhenApproved)'
  BY DEF IInv, LostOnlyBehindAPass, KeyKept, ClosedOnlyWhenApproved, Queued,
         InHand, Draining, Survives, history
<1>4. DoneIsGone'
  BY DEF IInv, TypeOK, DoneIsGone, Queued, InHand, Draining, history
<1> QED
  BY <1>1, <1>2, <1>3, <1>4 DEF IInv

(* An append puts a new event into the file, or behind a pass. *)
LEMMA AppendStep ==
    ASSUME IInv, NEW e \in Events, AppendEvent(e)
    PROVE  IInv'
<1>1. /\ queue \in Seq(Events) /\ e \notin Queued /\ e \notin worked
      /\ delivery \in [Events -> {"coming", "opened", "orphaned", "received"}]
  BY DEF IInv, TypeOK, DoneIsGone, AppendEvent
<1>2. /\ queue' \in Seq(Events) /\ IsInjective(queue')
      /\ Queued \subseteq Queued' /\ Queued' \subseteq Queued \cup {e}
  <2>1. CASE queue' = queue
    BY <1>1, <2>1 DEF IInv, NoRepeats, Queued
  <2>2. CASE queue' = Append(queue, e)
    BY <1>1, <2>2, AppendElements DEF IInv, NoRepeats, Queued
  <2> QED
    BY <2>1, <2>2 DEF AppendEvent
<1>3. /\ UNCHANGED <<content, stale, lease, pass, tracked, settled, dropped,
                     worked, reworked, breaks>>
      /\ delivery' = [delivery EXCEPT ![e] = "received"]
      /\ late \subseteq late' /\ late' \subseteq late \cup {e}
      /\ \A r \in Reactors : Draining(r) => e \in late'
      /\ e \in Queued' \/ e \in late'
  <2>1. CASE delivery[e] = "opened"
    BY <1>1, <2>1, AppendElements DEF AppendEvent, Queued
  <2>2. CASE delivery[e] # "opened"
    BY <1>1, <2>2 DEF AppendEvent
  <2> QED
    BY <2>1, <2>2
<1>4. \A r \in Reactors : (Draining(r))' = Draining(r) /\ (InHand(r))' = InHand(r)
  BY <1>3 DEF Draining, InHand
<1>5. TypeOK'
  BY <1>1, <1>2, <1>3 DEF IInv, TypeOK
<1>6. (LeaseHeld /\ FreshPass /\ NoRepeats /\ PassAccounts /\ SeenForAReason)'
  BY <1>2, <1>3, <1>4 DEF IInv, LeaseHeld, FreshPass, NoRepeats, PassAccounts, SeenForAReason,
                          Draining
<1>7. (LostOnlyBehindAPass /\ KeyKept /\ ClosedOnlyWhenApproved)'
  BY <1>1, <1>2, <1>3, <1>4
     DEF IInv, LostOnlyBehindAPass, KeyKept, ClosedOnlyWhenApproved, Survives
<1>8. DoneIsGone'
  BY <1>1, <1>2, <1>3, <1>4 DEF IInv, TypeOK, DoneIsGone
<1> QED
  BY <1>5, <1>6, <1>7, <1>8 DEF IInv

(* A pass that takes the lease, or lets go of it, has nothing in hand. *)
LEMMA EdgeStep ==
    ASSUME IInv, NEW r \in Reactors, NEW to \in Passes, to.pc # "drain",
           to.retained = <<>>, to.seen = {},
           to.pc # "idle" => lease' = r,
           to.pc = "idle" => lease' = Nobody,
           pass' = [pass EXCEPT ![r] = to],
           lease = Nobody \/ pass[r].pc # "idle",
           breaks' \in 0 .. MaxBreaks, breaks' >= breaks,
           Draining(r) => breaks' > breaks,
           UNCHANGED <<content, queue, delivery, stale, tracked, settled, dropped,
                       worked, reworked, late>>
    PROVE  IInv'
<1>0. pass \in [Reactors -> Passes] /\ breaks \in Nat /\ breaks' \in Nat
  BY ReactorAssumption DEF IInv, TypeOK
<1>1. \A q \in Reactors : q # r => pass[q].pc = "idle"
  BY ReactorAssumption DEF IInv, LeaseHeld
<1>2. \A q \in Reactors : pass'[q] = IF q = r THEN to ELSE pass[q]
  BY <1>0
<1>3. \A q \in Reactors : ~(Draining(q))'
  BY <1>1, <1>2 DEF Draining
<1>4. TypeOK'
  BY <1>0, ReactorAssumption DEF IInv, TypeOK, Queued
<1>5. LeaseHeld' /\ FreshPass'
  BY <1>1, <1>2 DEF IInv, LeaseHeld, FreshPass, Draining
<1>6. (NoRepeats /\ PassAccounts /\ SeenForAReason)'
  BY <1>3 DEF IInv, NoRepeats, PassAccounts, SeenForAReason
<1>7. (LostOnlyBehindAPass /\ ClosedOnlyWhenApproved)'
  BY DEF IInv, LostOnlyBehindAPass, ClosedOnlyWhenApproved, Queued
<1>8. KeyKept'
  BY <1>3 DEF IInv, KeyKept, Survives, Queued
<1>9. DoneIsGone'
  <2>1. \A e \in worked' : delivery'[e] = "received"
    BY DEF IInv, DoneIsGone
  <2>2. ASSUME breaks' = 0
        PROVE  reworked' = {} /\ \A e \in worked' : e \notin Queued'
    <3>1. breaks = 0 /\ ~Draining(r)
      BY <1>0, <2>2
    <3>2. \A q \in Reactors : ~Draining(q)
      BY <1>1, <3>1 DEF Draining
    <3> QED
      BY <3>1, <3>2 DEF IInv, DoneIsGone, Queued
  <2> QED
    BY <1>3, <2>1, <2>2 DEF DoneIsGone
<1> QED
  BY <1>4, <1>5, <1>6, <1>7, <1>8, <1>9 DEF IInv

LEMMA WakeStep ==
    ASSUME IInv, NEW r \in Reactors, Wake(r) \/ Release(r) \/ Interrupt(r)
    PROVE  IInv'
<1>0. /\ pass \in [Reactors -> Passes] /\ pass[r] \in Passes
      /\ breaks \in 0 .. MaxBreaks /\ MaxBreaks \in Nat
  BY ReactorAssumption DEF IInv, TypeOK
<1>1. Idle \in Passes /\ Idle.retained = <<>> /\ Idle.seen = {}
  BY EmptyElements DEF Idle, Passes
<1>2. CASE Wake(r)
  <2> DEFINE to == [pass[r] EXCEPT !.pc = "read"]
  <2>1. to \in Passes /\ to.pc = "read" /\ to.retained = <<>> /\ to.seen = {}
    BY <1>0, <1>2 DEF Passes, Wake, IInv, FreshPass, Draining
  <2>2. pass' = [pass EXCEPT ![r] = to]
    BY <1>0, <1>2 DEF Wake
  <2>3. /\ lease = Nobody /\ lease' = r /\ breaks' = breaks /\ ~Draining(r)
        /\ UNCHANGED <<content, queue, delivery, stale, tracked, settled, dropped,
                       worked, reworked, late>>
    BY <1>2 DEF Wake, LeaseFree, history, Draining
  <2>4. breaks' \in 0 .. MaxBreaks /\ breaks' >= breaks
    BY <1>0, <2>3
  <2> HIDE DEF to
  <2> QED
    BY <2>1, <2>2, <2>3, <2>4, EdgeStep
<1>3. CASE Release(r)
  <2>1. /\ pass[r].pc = "release" /\ lease' = Nobody /\ breaks' = breaks
        /\ ~Draining(r) /\ pass' = [pass EXCEPT ![r] = Idle]
        /\ UNCHANGED <<content, queue, delivery, stale, tracked, settled, dropped,
                       worked, reworked, late>>
    BY <1>3 DEF Release, history, Draining
  <2>2. breaks' \in 0 .. MaxBreaks /\ breaks' >= breaks
    BY <1>0, <2>1
  <2>3. Idle.pc = "idle"
    BY DEF Idle
  <2> QED
    BY <1>1, <2>1, <2>2, <2>3, EdgeStep
<1>4. CASE Interrupt(r)
  <2>1. /\ pass[r].pc # "idle" /\ lease' = Nobody /\ breaks' = breaks + 1
        /\ breaks' \in 0 .. MaxBreaks /\ breaks' > breaks
        /\ pass' = [pass EXCEPT ![r] = Idle]
        /\ UNCHANGED <<content, queue, delivery, stale, tracked, settled, dropped,
                       worked, reworked, late>>
    BY <1>0, <1>4 DEF Interrupt
  <2>2. Idle.pc = "idle"
    BY DEF Idle
  <2>3. breaks' >= breaks
    BY <1>0, <2>1
  <2> QED
    BY <1>1, <2>1, <2>2, <2>3, EdgeStep
<1> QED
  BY <1>2, <1>3, <1>4

(* What is read is the file, every event of it in hand. *)
LEMMA ReadStep ==
    ASSUME IInv, NEW r \in Reactors, ReadQueue(r)
    PROVE  IInv'
<1>0. /\ pass \in [Reactors -> Passes] /\ pass[r] \in Passes /\ pass[r].pc = "read"
      /\ queue \in Seq(Events)
  BY DEF IInv, TypeOK, ReadQueue
<1>1. \A q \in Reactors : q # r => pass[q].pc = "idle"
  BY <1>0 DEF IInv, LeaseHeld
<1>2. \A q \in Reactors : (Draining(q))' <=> q = r
  BY <1>0, <1>1 DEF Draining, ReadQueue
<1>3. \A q \in Reactors : ~Draining(q)
  BY <1>0, <1>1 DEF Draining
<1>4. /\ pass'[r].events = queue /\ pass'[r].retained = <<>> /\ pass'[r].seen = {}
      /\ (InHand(r))' = Queued
  BY <1>0, EmptyElements
     DEF ReadQueue, InHand, Queued, IInv, FreshPass, Draining, Passes
<1>5. TypeOK'
  <2>1. pass' \in [Reactors -> Passes]
    BY <1>0 DEF ReadQueue, Passes
  <2> QED
    BY <2>1 DEF IInv, TypeOK, ReadQueue, Queued, history
<1>6. LeaseHeld' /\ FreshPass'
  BY <1>0, <1>1, <1>2 DEF IInv, LeaseHeld, FreshPass, ReadQueue, Draining
<1>7. NoRepeats' /\ PassAccounts'
  BY <1>2, <1>4, EmptyElements
     DEF IInv, NoRepeats, PassAccounts, Queued, ReadQueue, history
<1>8. SeenForAReason'
  BY <1>2, <1>4 DEF SeenForAReason
<1>9. (LostOnlyBehindAPass /\ ClosedOnlyWhenApproved)'
  BY DEF IInv, LostOnlyBehindAPass, ClosedOnlyWhenApproved, Queued, ReadQueue, history
<1>10. KeyKept'
  BY <1>2, <1>3, <1>4 DEF IInv, KeyKept, Survives, Queued, ReadQueue, history
<1>11. DoneIsGone'
  BY <1>2, <1>3, <1>4 DEF IInv, DoneIsGone, Queued, ReadQueue, history
<1> QED
  BY <1>5, <1>6, <1>7, <1>8, <1>9, <1>10, <1>11 DEF IInv

(* What every way of handling an event has in common. *)
Handles(r, e, handled) ==
    /\ Draining(r) /\ pass[r].events # <<>> /\ e = Head(pass[r].events)
    /\ Advance(r, handled)
    /\ settled' \in {settled, settled \cup {e}}
    /\ dropped' \in {dropped, dropped \cup {e}}
    /\ handled => e \in settled' \cup dropped'
    /\ e \in dropped' \ dropped => content[e].key \in pass[r].seen
    /\ handled /\ e \notin settled' => content[e].key \in pass[r].seen
    /\ handled /\ SeenAfter(e, pass[r].seen) # pass[r].seen => e \in settled'
    /\ worked' \in {worked, worked \cup {e}}
    /\ worked' # worked => handled
    /\ reworked' \in {reworked, reworked \cup (worked \cap {e})}
    /\ reworked' \subseteq worked'
    /\ tracked' \in SUBSET tracked
    /\ UNCHANGED <<content, queue, delivery, stale, lease, late, breaks>>

LEMMA HandleStep ==
    ASSUME IInv, NEW r \in Reactors, NEW e \in Events, NEW handled \in BOOLEAN,
           Handles(r, e, handled), ClosedOnlyWhenApproved'
    PROVE  IInv'
<1> DEFINE events == pass[r].events
           retained == pass[r].retained
<1>0. /\ pass \in [Reactors -> Passes] /\ pass[r] \in Passes /\ pass[r].pc = "drain"
      /\ events \in Seq(Events) /\ retained \in Seq(Events) /\ events # <<>>
      /\ e = Head(events) /\ pass[r].seen \subseteq Messages
  BY DEF IInv, TypeOK, Handles, Draining, Passes
<1>1. \A q \in Reactors : q # r => pass[q].pc = "idle"
  BY <1>0 DEF IInv, LeaseHeld
<1>2. /\ pass'[r].events = Tail(events)
      /\ pass'[r].seen = SeenAfter(e, pass[r].seen)
      /\ pass'[r].retained = IF handled THEN retained ELSE Append(retained, e)
      /\ pass'[r].pc = "drain"
      /\ \A q \in Reactors : q # r => pass'[q] = pass[q]
  BY <1>0 DEF Handles, Advance, Passes
<1>3. \A q \in Reactors : (Draining(q))' <=> q = r
  BY <1>0, <1>1, <1>2 DEF Draining
<1>4. /\ Tail(events) \in Seq(Events) /\ IsInjective(Tail(events))
      /\ Range(events) = {e} \cup Range(Tail(events)) /\ e \notin Range(Tail(events))
      /\ e \notin Range(retained) /\ IsInjective(retained)
      /\ Range(events) \cap Range(retained) = {}
      /\ Range(events) \cup Range(retained) \subseteq Queued
  <2>1. /\ IsInjective(events) /\ Range(events) \cap Range(retained) = {}
        /\ IsInjective(retained) /\ Range(events) \cup Range(retained) \subseteq Queued
    BY <1>0 DEF IInv, NoRepeats, Draining, InHand
  <2>2. /\ Tail(events) \in Seq(Events) /\ IsInjective(Tail(events))
        /\ Range(events) = {e} \cup Range(Tail(events)) /\ e \notin Range(Tail(events))
    BY <1>0, <2>1, TailElements
  <2> QED
    BY <2>1, <2>2
<1>5. /\ pass'[r].retained \in Seq(Events) /\ IsInjective(pass'[r].retained)
      /\ Range(pass'[r].retained) = Range(retained) \cup (IF handled THEN {} ELSE {e})
  BY <1>0, <1>2, <1>4, AppendElements
<1>6. (InHand(r))' = IF handled THEN InHand(r) \ {e} ELSE InHand(r)
  BY <1>2, <1>4, <1>5 DEF InHand
<1>7. /\ pass'[r].seen \subseteq Messages
      /\ pass'[r].seen \subseteq pass[r].seen \cup {content[e].key}
  <2>1. content[e].key \in Messages \cup {NoKey}
    BY ReactorAssumption DEF IInv, TypeOK, Deliveries
  <2> QED
    BY <1>0, <1>2, <2>1 DEF SeenAfter
<1>8. TypeOK'
  <2>1. pass' \in [Reactors -> Passes]
    BY <1>0, <1>2, <1>4, <1>5, <1>7 DEF Handles, Advance, Passes
  <2> QED
    BY <2>1 DEF IInv, TypeOK, Handles, Queued
<1>9. LeaseHeld' /\ FreshPass'
  <2>1. lease' = lease /\ lease = r
    BY <1>0 DEF IInv, LeaseHeld, Handles
  <2>2. \A q \in Reactors : q # r => pass'[q] = pass[q] /\ pass[q].pc = "idle"
    BY <1>1, <1>2
  <2>3. LeaseHeld'
    BY ONLY <2>1, <2>2 DEF LeaseHeld
  <2>4. \A q \in Reactors : q # r => pass[q].retained = <<>> /\ pass[q].seen = {}
    BY <1>1 DEF IInv, FreshPass, Draining
  <2>5. FreshPass'
    <3> SUFFICES ASSUME NEW q \in Reactors, ~(Draining(q))'
                 PROVE  pass'[q].retained = <<>> /\ pass'[q].seen = {}
      BY DEF FreshPass
    <3>1. q # r
      BY ONLY <1>3, ~(Draining(q))'
    <3> QED
      BY ONLY <2>2, <2>4, <3>1
  <2> QED
    BY <2>3, <2>5
<1>10. NoRepeats'
  <2>1. queue' = queue /\ Queued' = Queued /\ IsInjective(queue)
    BY DEF IInv, NoRepeats, Handles, Queued
  <2>2. Range(events) \cup Range(retained) \subseteq Queued
    BY <1>4
  <2>3. (InHand(r))' \subseteq Queued'
    BY <1>6, <2>1, <2>2 DEF InHand
  <2>4. Range(pass'[r].events) \cap Range(pass'[r].retained) = {}
    BY <1>2, <1>4, <1>5
  <2>5. IsInjective(pass'[r].events) /\ IsInjective(pass'[r].retained)
    BY <1>2, <1>4, <1>5
  <2> QED
    BY ONLY <1>3, <2>1, <2>3, <2>4, <2>5 DEF NoRepeats
<1>11. PassAccounts'
  <2>1. Queued' = Queued
    BY DEF Handles, Queued
  <2>2. settled \cup dropped \subseteq settled' \cup dropped'
        /\ (handled => e \in settled' \cup dropped')
    BY DEF Handles
  <2>3. Queued \subseteq settled \cup dropped \cup late \cup InHand(r)
    BY <1>0 DEF IInv, PassAccounts, Draining
  <2>4. Queued' \subseteq settled' \cup dropped' \cup late \cup (InHand(r))'
    BY ONLY <1>6, <2>1, <2>2, <2>3
  <2>5. late' = late
    BY DEF Handles
  <2> QED
    BY ONLY <1>3, <2>4, <2>5 DEF PassAccounts
<1>12. SeenForAReason'
  <2> SUFFICES ASSUME NEW m \in pass'[r].seen
               PROVE  \E f \in Events :
                        /\ content'[f].key = m
                        /\ f \in settled' \/ f \in Range(pass'[r].retained)
    BY <1>3 DEF SeenForAReason
  <2>1. CASE m \in pass[r].seen
    BY <1>0, <1>5, <2>1 DEF IInv, SeenForAReason, Draining, Handles
  <2>2. CASE m \notin pass[r].seen
    <3>1. m = content[e].key /\ pass'[r].seen # pass[r].seen
      BY <1>7, <2>2
    <3> QED
      BY <1>2, <1>5, <3>1 DEF Handles
  <2> QED
    BY <2>1, <2>2
<1>13. KeyKept'
  <2> SUFFICES ASSUME NEW x \in dropped'
               PROVE  \E f \in Events :
                        /\ content'[f].key = content'[x].key
                        /\ f \in settled' \/ (Survives(f))'
    BY DEF KeyKept
  <2>1. \A f \in Events : (Survives(f))' <=> f \in Queued /\ f \in (InHand(r))'
    BY <1>3 DEF Survives, Handles, Queued
  <2>2. \A m \in pass[r].seen : \E f \in Events :
            content[f].key = m /\ (f \in settled' \/ f \in Range(retained))
    BY <1>0 DEF IInv, SeenForAReason, Draining, Handles
  <2>3. Range(retained) \subseteq Queued /\ Range(retained) \subseteq (InHand(r))'
    BY <1>4, <1>6 DEF InHand
  <2>4. ASSUME content[x].key \in pass[r].seen
        PROVE  \E f \in Events : /\ content'[f].key = content'[x].key
                                 /\ f \in settled' \/ (Survives(f))'
    BY <2>1, <2>2, <2>3, <2>4 DEF Handles
  <2>5. CASE x \notin dropped
    BY <2>4, <2>5 DEF Handles
  <2>6. CASE x \in dropped
    <3>1. PICK f \in Events : /\ content[f].key = content[x].key
                              /\ f \in settled \/ Survives(f)
      BY <2>6 DEF IInv, KeyKept
    <3>2. CASE f \in settled
      BY <3>1, <3>2 DEF Handles
    <3>3. CASE f \notin settled /\ (~handled \/ f # e)
      <4>1. f \in Queued /\ f \in (InHand(r))'
        BY <1>0, <1>6, <3>1, <3>3 DEF Survives, Draining
      <4> QED
        BY <2>1, <3>1, <4>1 DEF Handles
    <3>4. CASE f = e /\ handled
      <4>1. CASE e \in settled'
        BY <3>1, <3>4, <4>1 DEF Handles
      <4>2. CASE e \notin settled'
        <5>1. content[x].key \in pass[r].seen
          BY <3>1, <3>4, <4>2 DEF Handles
        <5> QED
          BY <2>4, <5>1
      <4> QED
        BY <4>1, <4>2
    <3> QED
      BY <3>1, <3>2, <3>3, <3>4
  <2> QED
    BY <2>5, <2>6
<1>14. LostOnlyBehindAPass'
  BY DEF IInv, LostOnlyBehindAPass, Handles, Queued
<1>15. DoneIsGone'
  <2>1. e \in InHand(r) /\ e \in Queued
    BY <1>4 DEF InHand
  <2>2. delivery[e] = "received"
    BY <2>1 DEF IInv, TypeOK
  <2>3. breaks = 0 => e \notin worked
    BY <1>0, <2>1 DEF IInv, DoneIsGone, Draining
  <2>4. \A q \in Reactors : Draining(q) <=> q = r
    BY <1>0, <1>1 DEF Draining
  <2> QED
    BY <1>3, <1>6, <2>1, <2>2, <2>3, <2>4 DEF IInv, DoneIsGone, Handles, Queued
<1> QED
  BY <1>8, <1>9, <1>10, <1>11, <1>12, <1>13, <1>14, <1>15 DEF IInv

(* Only an approved contract is read as completed. *)
LEMMA AcceptedWasApproved ==
    ASSUME NEW c \in Contents, NEW e \in Events, WorkWasAccepted(c[e].closure)
    PROVE  c[e].closure.completion_approved_at
<1>1. c[e].closure \in Closures
  BY ReactorAssumption DEF Deliveries
<1> QED
  BY <1>1, ReactorAssumption
     DEF WorkWasAccepted, ReadCloseOutcome, ResolveCloseOutcome, InferredOutcome, Closures

LEMMA ClosedStays ==
    ASSUME IInv, tracked' = tracked, settled \subseteq settled', content' = content
    PROVE  ClosedOnlyWhenApproved'
  BY DEF IInv, ClosedOnlyWhenApproved

LEMMA HandlesStep ==
    ASSUME IInv, NEW r \in Reactors, Handle(r)
    PROVE  IInv'
<1>1. PICK e \in Events : \/ DropDuplicate(r, e) \/ SettleUnworked(r, e)
                          \/ ReconcileClosure(r, e) \/ SpawnWorker(r, e)
  BY DEF Handle
<1>2. reworked \subseteq worked
  BY DEF IInv, TypeOK
<1>3. CASE DropDuplicate(r, e)
  <2>1. content[e].key \in pass[r].seen /\ SeenAfter(e, pass[r].seen) = pass[r].seen
    BY <1>3 DEF DropDuplicate, Facing, Triage, SeenAfter
  <2>2. Handles(r, e, TRUE)
    BY <1>2, <1>3, <2>1 DEF DropDuplicate, Facing, Handles
  <2> QED
    BY <1>3, <2>2, HandleStep, ClosedStays DEF DropDuplicate
<1>4. CASE SettleUnworked(r, e)
  <2>1. Handles(r, e, TRUE)
    BY <1>2, <1>4 DEF SettleUnworked, Facing, Handles
  <2> QED
    BY <1>4, <2>1, HandleStep, ClosedStays DEF SettleUnworked
<1>5. CASE ReconcileClosure(r, e)
  <2>1. Handles(r, e, TRUE)
    BY <1>2, <1>5 DEF ReconcileClosure, Facing, Handles
  <2>2. ClosedOnlyWhenApproved'
    <3>1. content \in Contents
      BY DEF IInv, TypeOK
    <3>2. \/ tracked' = tracked
          \/ /\ tracked' = tracked \ {content[e].contract}
             /\ content[e].closure.completion_approved_at
      BY <1>5, <3>1, AcceptedWasApproved DEF ReconcileClosure
    <3>3. content' = content /\ settled' = settled \cup {e} /\ content[e].kind = "closure"
      BY <1>5 DEF ReconcileClosure
    <3> QED
      BY <3>2, <3>3 DEF IInv, ClosedOnlyWhenApproved
  <2> QED
    BY <2>1, <2>2, HandleStep
<1>6. CASE SpawnWorker(r, e)
  <2>1. PICK outcome \in {"acted", "needs_human", "failed"} :
          /\ Advance(r, WorkerHandled(outcome))
          /\ settled' = IF outcome # "failed" THEN settled \cup {e} ELSE settled
          /\ worked' = IF outcome = "acted" THEN worked \cup {e} ELSE worked
          /\ reworked' = IF outcome = "acted" THEN reworked \cup (worked \cap {e})
                                              ELSE reworked
    BY <1>6 DEF SpawnWorker
  <2>2. WorkerHandled(outcome) \in BOOLEAN
    BY DEF WorkerHandled
  <2>3. Handles(r, e, WorkerHandled(outcome))
    BY <1>2, <1>6, <2>1 DEF SpawnWorker, Facing, Handles, WorkerHandled
  <2>4. ClosedOnlyWhenApproved'
    BY <1>6, <2>1, ClosedStays DEF SpawnWorker
  <2> QED
    BY <2>2, <2>3, <2>4, HandleStep
<1> QED
  BY <1>1, <1>3, <1>4, <1>5, <1>6

(* The new file is what the pass kept. *)
LEMMA WriteStep ==
    ASSUME IInv, NEW r \in Reactors, WriteQueue(r)
    PROVE  IInv'
<1>0. /\ pass \in [Reactors -> Passes] /\ pass[r].pc = "drain"
      /\ pass[r].retained \in Seq(Events) /\ pass[r].events = <<>>
      /\ queue' = pass[r].retained
      /\ pass' = [pass EXCEPT ![r] = [Idle EXCEPT !.pc = "release"]]
  BY DEF IInv, TypeOK, WriteQueue, Draining, Passes
<1>1. \A q \in Reactors : q # r => pass[q].pc = "idle"
  BY <1>0 DEF IInv, LeaseHeld
<1>2. /\ pass'[r] = [Idle EXCEPT !.pc = "release"]
      /\ \A q \in Reactors : q # r => pass'[q] = pass[q]
  BY <1>0
<1>3. /\ pass'[r].pc = "release" /\ pass'[r].events = <<>>
      /\ pass'[r].seen = {} /\ pass'[r].retained = <<>>
  BY <1>2 DEF Idle
<1>4. \A q \in Reactors : ~(Draining(q))'
  BY <1>1, <1>2, <1>3 DEF Draining
<1>5. Queued' = InHand(r) /\ InHand(r) \subseteq Queued /\ Draining(r)
  BY <1>0, EmptyElements DEF Queued, InHand, IInv, NoRepeats, Draining
<1>6. TypeOK'
  <2>1. [Idle EXCEPT !.pc = "release"] \in Passes
    BY EmptyElements DEF Idle, Passes
  <2>2. pass' \in [Reactors -> Passes]
    BY <1>0, <2>1
  <2>3. \A e \in Queued' : delivery'[e] = "received"
    <3>1. Queued \subseteq Events
      BY DEF IInv, TypeOK, Queued, Range
    <3> QED
      BY <1>5, <3>1 DEF IInv, TypeOK, WriteQueue
  <2> QED
    BY <1>0, <2>2, <2>3 DEF IInv, TypeOK, WriteQueue, history
<1>7. LeaseHeld' /\ FreshPass'
  BY <1>0, <1>1, <1>2, <1>3 DEF IInv, LeaseHeld, FreshPass, WriteQueue, Draining
<1>8. (NoRepeats /\ PassAccounts /\ SeenForAReason)'
  BY <1>0, <1>4, <1>5 DEF IInv, NoRepeats, PassAccounts, SeenForAReason
<1>9. LostOnlyBehindAPass'
  BY <1>5 DEF IInv, TypeOK, LostOnlyBehindAPass, PassAccounts, WriteQueue, history
<1>10. ClosedOnlyWhenApproved'
  BY ClosedStays DEF WriteQueue, history
<1>11. KeyKept'
  BY <1>4, <1>5 DEF IInv, KeyKept, Survives, WriteQueue, history
<1>12. DoneIsGone'
  <2>1. \A e \in worked : e \in Events
    BY DEF IInv, TypeOK
  <2> QED
    BY <1>4, <1>5, <2>1 DEF IInv, DoneIsGone, TypeOK, WriteQueue, history
<1> QED
  BY <1>6, <1>7, <1>8, <1>9, <1>10, <1>11, <1>12 DEF IInv

LEMMA NextStep == IInv /\ [Next]_vars => IInv'
<1> SUFFICES ASSUME IInv, [Next]_vars PROVE IInv'
  OBVIOUS
<1>1. ASSUME NEW e \in Events, OpenQueue(e) PROVE IInv'
  <2>1. /\ delivery \in [Events -> {"coming", "opened", "orphaned", "received"}]
        /\ stale \subseteq Events
    BY DEF IInv, TypeOK
  <2> QED
    BY <1>1, <2>1, OutsideStep DEF OpenQueue
<1>2. ASSUME NEW e \in Events, Age(e) PROVE IInv'
  <2>1. /\ delivery \in [Events -> {"coming", "opened", "orphaned", "received"}]
        /\ stale \subseteq Events
    BY DEF IInv, TypeOK
  <2> QED
    BY <1>2, <2>1, OutsideStep DEF Age
<1>3. CASE UNCHANGED vars
  <2>1. /\ delivery \in [Events -> {"coming", "opened", "orphaned", "received"}]
        /\ stale \subseteq Events
    BY DEF IInv, TypeOK
  <2> QED
    BY <1>3, <2>1, OutsideStep DEF vars, history
<1> QED
  BY <1>1, <1>2, <1>3, AppendStep, WakeStep, ReadStep, HandlesStep, WriteStep
     DEF Next, Step

-----------------------------------------------------------------------------
(* The theorems *)

(* The inductive invariant: one reactor in a pass, and an account of where every
   event of the file is. *)
THEOREM Invariant == Spec => []IInv
  BY InitHolds, NextStep, PTL DEF Spec

(* Every reachable state is well typed. *)
THEOREM TypeCorrect == Spec => []TypeOK
<1>1. IInv => TypeOK
  BY DEF IInv
<1> QED
  BY Invariant, <1>1, PTL

(* No crash, failing worker or interrupted pass loses an event; only a write
   behind the back of a pass can. *)
THEOREM NothingElseLost == Spec => []LostOnlyBehindAPass
<1>1. IInv => LostOnlyBehindAPass
  BY DEF IInv
<1> QED
  BY Invariant, <1>1, PTL

(* A redelivery is dropped only in favour of a delivery that was handled or is
   still queued. *)
THEOREM RedeliveriesDropSafely == Spec => []MessageKept
<1>1. IInv => MessageKept
  BY DEF IInv, KeyKept, MessageKept, Survives
<1> QED
  BY Invariant, <1>1, PTL

(* With the lease, only an interruption makes a worker do an event twice. *)
THEOREM WorkedOnce == Spec => []WorkedAgainOnlyAfterBreak
<1>1. IInv => WorkedAgainOnlyAfterBreak
  BY ReactorAssumption DEF IInv, TypeOK, DoneIsGone, WorkedAgainOnlyAfterBreak
<1> QED
  BY Invariant, <1>1, PTL

(* Tracked work is closed only on evidence that it was accepted. *)
THEOREM ClosedOnEvidence == Spec => []ClosedOnlyWhenApproved
<1>1. IInv => ClosedOnlyWhenApproved
  BY DEF IInv
<1> QED
  BY Invariant, <1>1, PTL
=============================================================================
