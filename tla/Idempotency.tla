---------------------------- MODULE Idempotency ----------------------------
(***************************************************************************)
(* One X-Idempotency-Key of one agent on one endpoint, and the attempts of *)
(* that agent to get one operation done: what src/src/lib/idempotency.ts   *)
(* does around the operation of a write route.                             *)
(*                                                                         *)
(* Each attempt runs once: it inserts the key, reads it, works, stores the *)
(* answer.  Every one of these is a statement of its own.                  *)
(***************************************************************************)
CONSTANTS
    Requests,    \* the attempts; each has an answer of its own
    Null         \* SQL's NULL, and no answer

ASSUME IdempotencyAssumption == Null \notin Requests

VARIABLES
    keys,        \* idempotency_keys, the rows of this key
    pc,          \* where each attempt stands
    answer,      \* the successful answer an attempt was given
    effects,     \* the attempts whose operation took effect
    late,        \* history: attempts that arrived after an answer was stored
    blind,       \* history: attempts whose read of the key failed
    lapsed       \* history: an answer has expired

attemptVars == <<keys, pc, answer, effects, late, blind, lapsed>>
history == <<late, blind, lapsed>>

-----------------------------------------------------------------------------
(* Rows *)

(* Status 0 is a claim, 201 a stored answer; expired is expires_at < now. *)
KeyRow == [status_code : {0, 201},
           response : Requests \cup {Null},
           expired : BOOLEAN]

Sentinel == [status_code |-> 0, response |-> Null, expired |-> FALSE]

StoredAnswer(r) == [status_code |-> 201, response |-> r, expired |-> FALSE]

(* response JSONB NOT NULL: PostgreSQL refuses the row before it looks for a
   conflict, and the adapter hands the statement's error to the caller. *)
NotNull(row) == row.response # Null

Positions == {"arrive", "read", "delete", "work", "store", "done", "dead"}

KeysInit ==
    /\ keys = {}
    /\ pc = [r \in Requests |-> "arrive"]
    /\ answer = [r \in Requests |-> Null]
    /\ effects = {}
    /\ late = {} /\ blind = {} /\ lapsed = FALSE

MoveTo(r, to) == pc' = [pc EXCEPT ![r] = to]

Fresh(row) == row.status_code # 0 /\ ~row.expired

-----------------------------------------------------------------------------
(* checkIdempotency *)

(* The upsert with ignoreDuplicates; anything but one inserted row is an error
   to the caller, who then reads. *)
ClaimKey(r) ==
    LET claimed == NotNull(Sentinel) /\ keys = {} IN
    /\ pc[r] = "arrive"
    /\ keys' = IF claimed THEN {Sentinel} ELSE keys
    /\ MoveTo(r, IF claimed THEN "work" ELSE "read")
    /\ late' = IF \E k \in keys : Fresh(k) THEN late \cup {r} ELSE late
    /\ UNCHANGED <<answer, effects, blind, lapsed>>

(* Mutant of AfterRead: the expiry is compared the wrong way round. *)
AfterReadInverted ==
    IF keys = {} THEN "work"
    ELSE IF \E k \in keys : k.status_code # 0 /\ ~k.expired THEN "delete"
    ELSE "done"

(* No row: go on.  A claim: 409.  An answer: replay it, or drop it when it has
   expired. *)
AfterRead ==
    IF keys = {} THEN "work"
    ELSE IF \E k \in keys : k.status_code # 0 /\ k.expired THEN "delete"
    ELSE "done"

ReadKey(r) ==
    /\ pc[r] = "read"
    /\ MoveTo(r, AfterRead)
    /\ \/ \E k \in keys : /\ Fresh(k)
                          /\ answer' = [answer EXCEPT ![r] = k.response]
       \/ (\A k \in keys : ~Fresh(k)) /\ answer' = answer
    /\ UNCHANGED <<keys, effects, history>>

(* A read that fails is taken for a key that was never used. *)
ReadFails(r) ==
    /\ pc[r] = "read"
    /\ MoveTo(r, "work")
    /\ blind' = blind \cup {r}
    /\ UNCHANGED <<keys, answer, effects, late, lapsed>>

(* The delete names the key alone, whatever row is there by now; its error is
   ignored.  The attempt goes on without a claim. *)
DeleteKey(r) ==
    /\ pc[r] = "delete"
    /\ keys' \in {{}, keys}
    /\ MoveTo(r, "work")
    /\ UNCHANGED <<answer, effects, history>>

-----------------------------------------------------------------------------
(* The route *)

(* Mutant of Work: a refusal is stored like an answer. *)
WorkStoresRefusals(r) ==
    /\ pc[r] = "work"
    /\ effects' \in {effects, effects \cup {r}}
    /\ MoveTo(r, "store")
    /\ UNCHANGED <<keys, answer, history>>

(* The operation is refused and nothing is stored, or it takes effect. *)
Work(r) ==
    /\ pc[r] = "work"
    /\ \/ MoveTo(r, "done") /\ effects' = effects
       \/ MoveTo(r, "store") /\ effects' = effects \cup {r}
    /\ UNCHANGED <<keys, answer, history>>

(* Mutant of Store: an insert beside the row that is there. *)
StoreBeside(r) ==
    /\ pc[r] = "store"
    /\ keys' = keys \cup {StoredAnswer(r)}
    /\ answer' = [answer EXCEPT ![r] = r]
    /\ MoveTo(r, "done")
    /\ UNCHANGED <<effects, history>>

(* storeIdempotencyResponse overwrites the row; its error is ignored. *)
Store(r) ==
    /\ pc[r] = "store"
    /\ keys' \in {{StoredAnswer(r)}, keys}
    /\ answer' = [answer EXCEPT ![r] = r]
    /\ MoveTo(r, "done")
    /\ UNCHANGED <<effects, history>>

(* The process dies, or an error after the operation ends the attempt. *)
AttemptDies(r) ==
    /\ pc[r] \notin {"arrive", "done", "dead"}
    /\ MoveTo(r, "dead")
    /\ UNCHANGED <<keys, answer, effects, history>>

(* Twenty-four hours pass. *)
KeyExpires ==
    /\ \E k \in keys : ~k.expired
    /\ keys' = {[k EXCEPT !.expired = TRUE] : k \in keys}
    /\ lapsed' = TRUE
    /\ UNCHANGED <<pc, answer, effects, late, blind>>

KeysNext ==
    \/ \E r \in Requests :
         \/ ClaimKey(r) \/ ReadKey(r) \/ ReadFails(r) \/ DeleteKey(r)
         \/ Work(r) \/ Store(r) \/ AttemptDies(r)
    \/ KeyExpires

KeysSpec == KeysInit /\ [][KeysNext]_attemptVars

-----------------------------------------------------------------------------
(* Properties *)

(* Types; the primary key leaves one row at most. *)
KeysTypeOK ==
    /\ keys \subseteq KeyRow
    /\ \A j, k \in keys : j = k
    /\ pc \in [Requests -> Positions]
    /\ answer \in [Requests -> Requests \cup {Null}]
    /\ effects \subseteq Requests
    /\ late \subseteq Requests
    /\ blind \subseteq Requests
    /\ lapsed \in BOOLEAN

(* An attempt that is told of success, its own or a replayed one, is told of
   an operation that took effect: neither a refusal nor the claim's empty
   response is ever replayed (checkIdempotency). *)
AnswersTrue == \A r \in Requests : answer[r] # Null => answer[r] \in effects

(* Until an answer has expired, an attempt that arrives after one was stored
   and can read it changes nothing, whatever other attempts are in flight
   (checkIdempotency): a retry that waits for the answer is safe. *)
NoRepeatAfterAnswer ==
    ~lapsed => \A r \in late : r \in effects => r \in blind

(* Until an answer has expired, attempts that can read the key take effect
   once: "Atomic upsert: try to claim the key with a sentinel response.  If
   another request already claimed it, the upsert returns the existing row"
   (idempotency.ts:42). *)
TakesEffectOnce ==
    ~lapsed /\ blind = {} => \A r, s \in effects : r = s
=============================================================================
