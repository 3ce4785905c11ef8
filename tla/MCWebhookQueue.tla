--------------------------- MODULE MCWebhookQueue ---------------------------
(* The instances of WebhookQueue that TLC explores. *)
EXTENDS WebhookQueue
=============================================================================
