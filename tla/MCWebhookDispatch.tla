------------------------- MODULE MCWebhookDispatch -------------------------
(* Finite instances of WebhookDispatch: one dispatcher gives an event up   *)
(* at once, the other retries it.                                          *)
EXTENDS WebhookDispatch, TLC

CONSTANTS d1, d2

MCMaxAttempts      == d1 :> 1 @@ d2 :> 3
MCMaxAttemptsAlone == d1 :> 2
=============================================================================
