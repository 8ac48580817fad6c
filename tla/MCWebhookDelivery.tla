-------------------------- MODULE MCWebhookDelivery --------------------------
(* WebhookDelivery on small instances; the values are in the .cfg.  No     *)
(* symmetry: liveness is checked.                                          *)
EXTENDS WebhookDelivery
=============================================================================
