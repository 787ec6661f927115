----------------------------- MODULE MCReactor -----------------------------
(***************************************************************************)
(* A message in two deliveries with a contract that spent its turns; or an *)
(* artifact that needs a person, a receipt and an approved closure; two    *)
(* reactors and one interrupted pass.  The second delivery has no date.    *)
(***************************************************************************)
EXTENDS Reactor, TLC

CONSTANTS e1, e2, e3, m1, m2, c1, r1, r2

MCEvents == {e1, e2, e3}
MCUndated == {e2}

AgentClosed == [legacy |-> TRUE, closed_by |-> "agent",
                completion_approved_at |-> FALSE,
                completion_requires_approval |-> FALSE,
                closed_without_approval |-> FALSE]
Spent == [AgentClosed EXCEPT !.closed_by = "system:max-turns"]
Approved == [AgentClosed EXCEPT !.closed_by = "system:completion-approved",
                                !.legacy = FALSE, !.completion_approved_at = TRUE]

Delivers(key, kind, closure) ==
    [key |-> key, contract |-> c1, kind |-> kind, closure |-> closure]

MCContents ==
    { e1 :> Delivers(m1, "actionable", AgentClosed) @@
      e2 :> Delivers(m1, "actionable", AgentClosed) @@
      e3 :> Delivers(NoKey, "closure", Spent),
      e1 :> Delivers(m1, "blocked", AgentClosed) @@
      e2 :> Delivers(m2, "informational", AgentClosed) @@
      e3 :> Delivers(NoKey, "closure", Approved) }
=============================================================================
