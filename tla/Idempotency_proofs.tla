------------------------- MODULE Idempotency_proofs -------------------------
(***************************************************************************)
(* What a retry may rely on, for any number of attempts.                   *)
(***************************************************************************)
EXTENDS Idempotency, TLAPS

(* Every row is a stored answer of an operation that took effect: the claim
   never becomes a row. *)
RowsTrue == \A k \in keys : /\ k.status_code = 201
                            /\ k.response \in effects
                            /\ k.expired => lapsed

(* An attempt that is about to store has done its operation. *)
StoresTrue == \A r \in Requests : pc[r] = "store" => r \in effects

(* Until an answer expires nobody deletes the row, so it stays to be read by
   the attempts that arrive after it. *)
KeptToRead ==
    ~lapsed =>
        /\ \A r \in Requests : pc[r] # "delete"
        /\ late # {} => keys # {}
        /\ \A r \in late : pc[r] \in {"work", "store"} => r \in blind

(* Nothing has happened in the name of an attempt before it goes to work. *)
NotYet == \A r \in Requests :
            pc[r] \in {"arrive", "read"} => r \notin effects

Arrived == \A r \in late : pc[r] # "arrive"

IInv == /\ KeysTypeOK /\ AnswersTrue /\ NoRepeatAfterAnswer
        /\ RowsTrue /\ StoresTrue /\ KeptToRead /\ NotYet /\ Arrived

-----------------------------------------------------------------------------
(* The steps *)

(* A claim is refused by the column, so an arrival leaves the table alone. *)
LEMMA ArrivalReads ==
    ASSUME NEW r \in Requests, ClaimKey(r)
    PROVE  keys' = keys /\ pc' = [pc EXCEPT ![r] = "read"]
  BY DEF ClaimKey, NotNull, Sentinel, MoveTo

(* An attempt that arrives starts with nothing done. *)
LEMMA ClaimStep ==
    ASSUME IInv, NEW r \in Requests, ClaimKey(r)
    PROVE  IInv'
<1>1. keys' = keys /\ pc' = [pc EXCEPT ![r] = "read"]
  BY ArrivalReads
<1>2. /\ pc[r] = "arrive"
      /\ UNCHANGED <<answer, effects, blind, lapsed>>
      /\ late' = IF \E k \in keys : Fresh(k) THEN late \cup {r} ELSE late
  BY DEF ClaimKey
<1>3. late' \subseteq late \cup {r} /\ (late' # {} => late # {} \/ keys # {})
  BY <1>2
<1>4. KeysTypeOK'
  BY <1>1, <1>2, <1>3 DEF IInv, KeysTypeOK, Positions
<1>5. (AnswersTrue /\ RowsTrue /\ StoresTrue /\ NotYet)'
  BY <1>1, <1>2 DEF IInv, AnswersTrue, RowsTrue, StoresTrue, NotYet, KeysTypeOK
<1>6. (KeptToRead /\ Arrived /\ NoRepeatAfterAnswer)'
  BY <1>1, <1>2, <1>3
     DEF IInv, KeptToRead, Arrived, NotYet, NoRepeatAfterAnswer, KeysTypeOK
<1> QED
  BY <1>4, <1>5, <1>6 DEF IInv

(* A late attempt finds the row and is told what it says. *)
LEMMA ReadStep ==
    ASSUME IInv, NEW r \in Requests, ReadKey(r)
    PROVE  IInv'
<1>1. /\ pc[r] = "read"
      /\ pc' = [pc EXCEPT ![r] = AfterRead]
      /\ UNCHANGED <<keys, effects, late, blind, lapsed>>
      /\ \/ \E k \in keys : answer' = [answer EXCEPT ![r] = k.response]
         \/ answer' = answer
  BY DEF ReadKey, MoveTo, history
<1>2. AfterRead \in {"work", "delete", "done"}
  BY DEF AfterRead
<1>3. ~lapsed => AfterRead # "delete"
  BY DEF IInv, RowsTrue, AfterRead
<1>4. ~lapsed /\ r \in late => AfterRead = "done"
  BY <1>3 DEF IInv, KeptToRead, AfterRead
<1>5. \A k \in keys : k.response \in effects /\ k.response \in Requests
  BY DEF IInv, RowsTrue, KeysTypeOK
<1>6. KeysTypeOK'
  BY <1>1, <1>2, <1>5 DEF IInv, KeysTypeOK, Positions
<1>7. (AnswersTrue /\ RowsTrue /\ StoresTrue /\ NotYet /\ NoRepeatAfterAnswer)'
  BY <1>1, <1>2, <1>5 DEF IInv, AnswersTrue, RowsTrue, StoresTrue, NotYet,
                          NoRepeatAfterAnswer, KeysTypeOK
<1>8. (KeptToRead /\ Arrived)'
  BY <1>1, <1>2, <1>3, <1>4 DEF IInv, KeptToRead, Arrived, KeysTypeOK
<1> QED
  BY <1>6, <1>7, <1>8 DEF IInv

(* A failed read, an expired row and a death: nothing is done yet or anymore. *)
LEMMA DetourStep ==
    ASSUME IInv, NEW r \in Requests,
           ReadFails(r) \/ DeleteKey(r) \/ AttemptDies(r)
    PROVE  IInv'
<1>1. CASE ReadFails(r)
  BY <1>1 DEF ReadFails, MoveTo, IInv, KeysTypeOK, Positions, AnswersTrue,
              NoRepeatAfterAnswer, RowsTrue, StoresTrue, KeptToRead, NotYet,
              Arrived
<1>2. CASE DeleteKey(r)
  <2>1. lapsed
    BY <1>2 DEF DeleteKey, IInv, KeptToRead
  <2> QED
    BY <1>2, <2>1 DEF DeleteKey, MoveTo, history, IInv, KeysTypeOK, Positions,
                      AnswersTrue, NoRepeatAfterAnswer, RowsTrue, StoresTrue,
                      KeptToRead, NotYet, Arrived
<1>3. CASE AttemptDies(r)
  BY <1>3 DEF AttemptDies, MoveTo, history, IInv, KeysTypeOK, Positions, AnswersTrue,
              NoRepeatAfterAnswer, RowsTrue, StoresTrue, KeptToRead, NotYet,
              Arrived
<1> QED
  BY <1>1, <1>2, <1>3

(* An operation that takes effect is the attempt's own. *)
LEMMA WorkStep ==
    ASSUME IInv, NEW r \in Requests, Work(r)
    PROVE  IInv'
<1>1. CASE MoveTo(r, "done") /\ effects' = effects
  BY <1>1 DEF Work, MoveTo, history, IInv, KeysTypeOK, Positions, AnswersTrue,
              NoRepeatAfterAnswer, RowsTrue, StoresTrue, KeptToRead, NotYet,
              Arrived
<1>2. CASE MoveTo(r, "store") /\ effects' = effects \cup {r}
  BY <1>2 DEF Work, MoveTo, history, IInv, KeysTypeOK, Positions, AnswersTrue,
              NoRepeatAfterAnswer, RowsTrue, StoresTrue, KeptToRead, NotYet,
              Arrived
<1> QED
  BY <1>1, <1>2 DEF Work

(* The answer stored is that of an operation done. *)
LEMMA StoreStep ==
    ASSUME IInv, NEW r \in Requests, Store(r)
    PROVE  IInv'
<1>1. StoredAnswer(r) \in KeyRow /\ StoredAnswer(r).status_code = 201
      /\ StoredAnswer(r).response = r /\ ~StoredAnswer(r).expired
  BY DEF StoredAnswer, KeyRow
<1>2. r \in effects
  BY DEF IInv, StoresTrue, Store
<1>3. /\ keys' = {StoredAnswer(r)} \/ keys' = keys
      /\ answer' = [answer EXCEPT ![r] = r]
      /\ pc' = [pc EXCEPT ![r] = "done"]
      /\ UNCHANGED <<effects, late, blind, lapsed>>
  BY DEF Store, MoveTo, history
<1>4. KeysTypeOK'
  BY <1>1, <1>3 DEF IInv, KeysTypeOK, Positions
<1>5. (AnswersTrue /\ RowsTrue)'
  BY <1>1, <1>2, <1>3 DEF IInv, AnswersTrue, RowsTrue, KeysTypeOK
<1>6. (StoresTrue /\ KeptToRead /\ NotYet /\ Arrived /\ NoRepeatAfterAnswer)'
  BY <1>3 DEF IInv, StoresTrue, KeptToRead, NotYet, Arrived,
              NoRepeatAfterAnswer, KeysTypeOK
<1> QED
  BY <1>4, <1>5, <1>6 DEF IInv

(* Expiry changes nothing else of a row. *)
LEMMA ExpiredRow ==
    ASSUME NEW k \in KeyRow
    PROVE  /\ [k EXCEPT !.expired = TRUE] \in KeyRow
           /\ [k EXCEPT !.expired = TRUE].status_code = k.status_code
           /\ [k EXCEPT !.expired = TRUE].response = k.response
  BY DEF KeyRow

(* From the first expiry on the promise to a late attempt is void. *)
LEMMA ExpireStep ==
    ASSUME IInv, KeyExpires
    PROVE  IInv'
<1>1. lapsed' /\ UNCHANGED <<pc, answer, effects, late, blind>>
  BY DEF KeyExpires
<1>2. \A k \in keys : /\ [k EXCEPT !.expired = TRUE] \in KeyRow
                      /\ [k EXCEPT !.expired = TRUE].status_code = k.status_code
                      /\ [k EXCEPT !.expired = TRUE].response = k.response
  BY ExpiredRow DEF IInv, KeysTypeOK
<1>3. keys' = {[k EXCEPT !.expired = TRUE] : k \in keys}
  BY DEF KeyExpires
<1>4. KeysTypeOK'
  BY <1>1, <1>2, <1>3 DEF IInv, KeysTypeOK
<1>5. RowsTrue'
  <2> SUFFICES ASSUME NEW j \in keys'
      PROVE  j.status_code = 201 /\ j.response \in effects
    BY <1>1 DEF RowsTrue
  <2>1. PICK k \in keys : j = [k EXCEPT !.expired = TRUE]
    BY <1>3
  <2>2. j.status_code = k.status_code /\ j.response = k.response
    BY <1>2, <2>1
  <2> QED
    BY <2>2 DEF IInv, RowsTrue
<1> QED
  BY <1>1, <1>4, <1>5 DEF IInv, AnswersTrue, StoresTrue, KeptToRead, NotYet,
                          Arrived, NoRepeatAfterAnswer

-----------------------------------------------------------------------------
(* The theorems *)

(* The invariant is inductive: a late attempt is safe because the row it will
   read can be overwritten but not deleted before it expires. *)
THEOREM Invariant == KeysSpec => []IInv
<1>1. KeysInit => IInv
  BY DEF KeysInit, IInv, KeysTypeOK, Positions, AnswersTrue, NoRepeatAfterAnswer,
         RowsTrue, StoresTrue, KeptToRead, NotYet, Arrived
<1>2. IInv /\ [KeysNext]_attemptVars => IInv'
  <2> SUFFICES ASSUME IInv, [KeysNext]_attemptVars PROVE IInv'
    OBVIOUS
  <2>1. CASE UNCHANGED attemptVars
    BY <2>1 DEF attemptVars, IInv, KeysTypeOK, AnswersTrue, NoRepeatAfterAnswer, RowsTrue,
                StoresTrue, KeptToRead, NotYet, Arrived
  <2> QED
    BY <2>1, ClaimStep, ReadStep, DetourStep, WorkStep, StoreStep, ExpireStep
       DEF KeysNext
<1> QED
  BY <1>1, <1>2, PTL DEF KeysSpec

(* The rows, the attempts and what they were told have their types. *)
THEOREM KeysTyped == KeysSpec => []KeysTypeOK
  BY Invariant, PTL DEF IInv

(* Nobody is told of a success that did not happen. *)
THEOREM ToldTheTruth == KeysSpec => []AnswersTrue
  BY Invariant, PTL DEF IInv

(* A retry that arrives after the answer was stored, and can read it, changes
   nothing until an answer has expired. *)
THEOREM LateRetrySafe == KeysSpec => []NoRepeatAfterAnswer
  BY Invariant, PTL DEF IInv

-----------------------------------------------------------------------------
(* What the claim would have to do *)

(* Let through by its read, and without an answer stored yet. *)
AtWork(r) == pc[r] \in {"work", "store"}

(* What a claim is for: no attempt that could read the key goes to work beside
   another. *)
ClaimHolds == \A s \in Requests :
    pc[s] = "read" /\ pc'[s] = "work" /\ s \notin blind' => \A r \in Requests : ~AtWork(r)

(* The answer of an operation is stored: no death and no error in between. *)
AnswerKept == \A r \in Requests :
    pc[r] = "store" /\ pc'[r] # "store" => keys' = {StoredAnswer(r)}

(* One attempt at a time is at work, and none once an answer is there; what took
   effect has its answer stored, or is about to. *)
OneAtATime ==
    ~lapsed /\ blind = {} =>
        /\ \A r, s \in Requests : AtWork(r) /\ AtWork(s) => r = s
        /\ keys # {} => \A r \in Requests : ~AtWork(r)
        /\ keys = {} => \A r \in effects : pc[r] = "store"
        /\ \A r, s \in effects : r = s

(* Whoever goes to work comes from a read that found no row. *)
LEMMA ReadsNone ==
    ASSUME IInv, ~lapsed, NEW r \in Requests, ReadKey(r), pc'[r] = "work"
    PROVE  keys = {}
  BY DEF IInv, KeysTypeOK, RowsTrue, ReadKey, MoveTo, AfterRead

LEMMA OneAtATimeStep ==
    ASSUME IInv, OneAtATime, ClaimHolds, AnswerKept, [KeysNext]_attemptVars
    PROVE  OneAtATime'
<1> SUFFICES ASSUME ~lapsed', blind' = {} PROVE OneAtATime'
  BY DEF OneAtATime
<1>0. /\ pc \in [Requests -> Positions] /\ effects \subseteq Requests
      /\ \A r \in Requests : pc[r] # "delete" \/ lapsed
  BY DEF IInv, KeysTypeOK, KeptToRead
<1>1. ~lapsed /\ blind = {}
  BY DEF KeysNext, ClaimKey, ReadKey, ReadFails, DeleteKey, Work, Store, AttemptDies,
         KeyExpires,
         attemptVars, history
<1>2. /\ \A r, s \in Requests : AtWork(r) /\ AtWork(s) => r = s
      /\ keys # {} => \A r \in Requests : ~AtWork(r)
      /\ keys = {} => \A r \in effects : pc[r] = "store"
      /\ \A r, s \in effects : r = s
  BY <1>1 DEF OneAtATime
<1>3. ASSUME NEW r \in Requests, ClaimKey(r) PROVE OneAtATime'
  <2>1. keys' = keys /\ effects' = effects /\ pc[r] = "arrive"
        /\ pc' = [pc EXCEPT ![r] = "read"]
    BY <1>3, ArrivalReads DEF ClaimKey
  <2>2. \A s \in Requests : (AtWork(s))' => AtWork(s)
    BY <1>0, <2>1 DEF AtWork
  <2>3. \A s \in Requests : pc[s] = "store" => pc'[s] = "store"
    BY <1>0, <2>1
  <2> QED
    BY <1>0, <1>2, <2>1, <2>2, <2>3 DEF OneAtATime
<1>4. ASSUME NEW r \in Requests, ReadKey(r) PROVE OneAtATime'
  <2>1. keys' = keys /\ effects' = effects /\ pc[r] = "read"
        /\ pc' = [pc EXCEPT ![r] = AfterRead]
    BY <1>4 DEF ReadKey, MoveTo
  <2>2. \A s \in Requests : pc[s] = "store" => pc'[s] = "store"
    BY <1>0, <2>1
  <2>3. CASE AfterRead = "work"
    <3>1. pc'[r] = "work"
      BY <1>0, <2>1, <2>3
    <3>2. keys = {} /\ \A s \in Requests : ~AtWork(s)
      BY <1>1, <1>4, <2>1, <3>1, ReadsNone DEF ClaimHolds
    <3>3. \A s \in Requests : (AtWork(s))' => s = r
      BY <1>0, <2>1, <3>2 DEF AtWork
    <3> QED
      BY <1>0, <1>2, <2>1, <2>2, <3>2, <3>3 DEF OneAtATime
  <2>4. CASE AfterRead # "work"
    <3>1. \A s \in Requests : (AtWork(s))' => AtWork(s)
      BY <1>0, <2>1, <2>4 DEF AtWork, AfterRead
    <3> QED
      BY <1>0, <1>2, <2>1, <2>2, <3>1 DEF OneAtATime
  <2> QED
    BY <2>3, <2>4
<1>5. ASSUME NEW r \in Requests, ReadFails(r) PROVE FALSE
  BY <1>5 DEF ReadFails
<1>6. ASSUME NEW r \in Requests, DeleteKey(r) PROVE FALSE
  BY <1>0, <1>1, <1>6 DEF DeleteKey
<1>7. ASSUME NEW r \in Requests, Work(r) PROVE OneAtATime'
  <2>1. /\ pc[r] = "work" /\ keys' = keys /\ AtWork(r)
        /\ \/ pc' = [pc EXCEPT ![r] = "done"] /\ effects' = effects
           \/ pc' = [pc EXCEPT ![r] = "store"] /\ effects' = effects \cup {r}
    BY <1>7 DEF Work, MoveTo, AtWork
  <2>2. keys = {}
    BY <1>2, <2>1
  <2>3. effects = {}
    <3> SUFFICES ASSUME NEW s \in effects PROVE FALSE
      OBVIOUS
    <3>1. pc[s] = "store" /\ AtWork(s) /\ s \in Requests
      BY <1>0, <1>2, <2>2 DEF AtWork
    <3>2. s = r
      BY <1>2, <2>1, <3>1
    <3> QED
      BY <2>1, <3>1, <3>2
  <2>4. \A s \in Requests : (AtWork(s))' => s = r
    BY <1>0, <1>2, <2>1 DEF AtWork
  <2>5. effects' \subseteq {r} /\ (r \in effects' => pc'[r] = "store")
    BY <1>0, <2>1, <2>3
  <2> QED
    BY <2>1, <2>2, <2>4, <2>5 DEF OneAtATime
<1>8. ASSUME NEW r \in Requests, Store(r) \/ AttemptDies(r) PROVE OneAtATime'
  <2>1. PICK to \in {"done", "dead"} : pc' = [pc EXCEPT ![r] = to] /\ effects' = effects
    BY <1>8 DEF Store, AttemptDies, MoveTo
  <2>2. CASE pc[r] = "store"
    <3>1. keys' = {StoredAnswer(r)}
      BY <1>0, <2>1, <2>2 DEF AnswerKept
    <3>2. \A s \in Requests : ~(AtWork(s))'
      BY <1>0, <1>2, <2>1, <2>2 DEF AtWork
    <3> QED
      BY <1>2, <2>1, <3>1, <3>2 DEF OneAtATime
  <2>3. CASE pc[r] # "store"
    <3>1. keys' = keys
      BY <1>8, <2>3 DEF Store, AttemptDies
    <3>2. \A s \in Requests : (AtWork(s))' => AtWork(s)
      BY <1>0, <2>1 DEF AtWork
    <3>3. \A s \in Requests : pc[s] = "store" => pc'[s] = "store"
      BY <1>0, <2>1, <2>3
    <3> QED
      BY <1>0, <1>2, <2>1, <3>1, <3>2, <3>3 DEF OneAtATime
  <2> QED
    BY <2>2, <2>3
<1>9. ASSUME KeyExpires PROVE FALSE
  BY <1>9 DEF KeyExpires
<1>10. CASE UNCHANGED attemptVars
  BY <1>2, <1>10 DEF attemptVars, OneAtATime, AtWork
<1> QED
  BY <1>3, <1>4, <1>5, <1>6, <1>7, <1>8, <1>9, <1>10 DEF KeysNext

(* Overlap is all that makes attempts with one key take effect twice, apart from a
   lost answer: were the claim to keep every other attempt from going to work, and
   every answer stored, they would take effect once, whichever order they come in
   (checkIdempotency). *)
THEOREM OnceIfClaimed ==
    KeysSpec /\ [][ClaimHolds]_attemptVars /\ [][AnswerKept]_attemptVars => []TakesEffectOnce
<1>1. KeysInit => OneAtATime
  BY DEF KeysInit, OneAtATime, AtWork
<1>2. IInv /\ OneAtATime /\ [KeysNext]_attemptVars
          /\ [ClaimHolds]_attemptVars /\ [AnswerKept]_attemptVars
        => OneAtATime'
  <2>1. CASE UNCHANGED attemptVars
    BY <2>1 DEF attemptVars, OneAtATime, AtWork
  <2> QED
    BY <2>1, OneAtATimeStep
<1>3. OneAtATime => TakesEffectOnce
  BY DEF OneAtATime, TakesEffectOnce
<1> QED
  BY <1>1, <1>2, <1>3, Invariant, PTL DEF KeysSpec
=============================================================================
