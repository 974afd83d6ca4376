------------------------- MODULE MCWebhookManager -------------------------
(* Instances of WebhookManager for TLC. *)
EXTENDS WebhookManager, TLC

CONSTANTS w1, w2, a, b

TwoWorkers == {w1, w2}
TwoCalls == {a, b}

\* The calls share a shard.
Together == a :> w1 @@ b :> w1

OnlyB == {b}
=============================================================================
