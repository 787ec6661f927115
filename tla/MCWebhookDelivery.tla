------------------------- MODULE MCWebhookDelivery -------------------------
(***************************************************************************)
(* One worker with pages of two of three deliveries, two workers on the    *)
(* same delivery, and each of them with the owner or an operator; two      *)
(* retries; a webhook is disabled by two deliveries that are given up.     *)
(***************************************************************************)
EXTENDS WebhookDelivery, TLC

CONSTANTS d1, d2, d3, d4, w1, w2

MCDeliveries == {d1, d2, d3, d4}
MCWorkers == {w1, w2}
MCSwept == {d2, d3, d4}
MCScenarios == {{w1, w2, d1, Owner}, {w1, w2, d2, Operator},
                {w1, d1, d2}, {w1, d2, d3, d4}}
=============================================================================
