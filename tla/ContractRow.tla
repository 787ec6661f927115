---------------------------- MODULE ContractRow ----------------------------
(***************************************************************************)
(* What a contract promises the two sides, whatever the handlers do to its *)
(* row: it is offered, runs only once every invited agent consented,       *)
(* spends at most its budget of turns, and ends for good.  The work has at *)
(* most one verdict, and a gated contract is concluded only with one.      *)
(***************************************************************************)
EXTENDS Naturals

CONSTANTS Parties,   \* the agents whose consent is needed
          Budget,    \* the turns that may be spent
          Gated      \* whether the work needs the proposer's verdict

VARIABLES phase,     \* "offered", "running", "concluded" or "lapsed"
          consent,   \* the parties that said yes
          spent,     \* turns spent
          verdict    \* "none", "accepted" or "refused"

rowVars == <<phase, consent, spent, verdict>>

RowInit ==
    /\ phase = "offered"
    /\ consent = {}
    /\ spent = 0
    /\ verdict = "none"

(* An agent consents; the answer may come too late to matter. *)
Consent ==
    /\ \E p \in Parties \ consent : consent' = consent \cup {p}
    /\ UNCHANGED <<phase, spent, verdict>>

Start ==
    /\ phase = "offered"
    /\ consent = Parties
    /\ phase' = "running"
    /\ UNCHANGED <<consent, spent, verdict>>

(* The last turn concludes the contract, unless a verdict is still owed. *)
Talk ==
    /\ phase = "running"
    /\ spent < Budget
    /\ spent' = spent + 1
    /\ phase' = IF spent' = Budget /\ (Gated => verdict = "accepted")
                  THEN "concluded" ELSE "running"
    /\ UNCHANGED <<consent, verdict>>

(* Accepting the work after the last turn concludes the contract. *)
Approve ==
    /\ phase = "running"
    /\ verdict' = "accepted"
    /\ phase' = IF Gated /\ spent = Budget THEN "concluded" ELSE "running"
    /\ UNCHANGED <<consent, spent>>

(* Ended by one of the sides while no verdict is owed. *)
Conclude ==
    /\ phase = "running"
    /\ Gated => verdict = "accepted"
    /\ phase' = "concluded"
    /\ UNCHANGED <<consent, spent, verdict>>

(* Ended by an explicit refusal of the work. *)
Refuse ==
    /\ phase = "running"
    /\ Gated
    /\ verdict = "none"
    /\ verdict' = "refused"
    /\ phase' = "concluded"
    /\ UNCHANGED <<consent, spent>>

(* Rejected, cancelled, expired or frozen: it ends with no new verdict.  The
   expiry of a contract may be written over an ending it already had. *)
Lapse ==
    /\ phase # "lapsed"
    /\ phase' = "lapsed"
    /\ UNCHANGED <<consent, spent, verdict>>

RowNext == Consent \/ Start \/ Talk \/ Approve \/ Conclude \/ Refuse \/ Lapse

RowSpec == RowInit /\ [][RowNext]_rowVars
=============================================================================
