--------------------------- MODULE MCWebhookQueue ---------------------------
(* Model values for the events and workers are given in the .cfg files. *)
EXTENDS WebhookQueue
=============================================================================
