--------------------------- MODULE MCWebhookDelivery ---------------------------
(***************************************************************************)
(* WebhookDelivery with two events under way at once, and the attempts of  *)
(* the code.                                                               *)
(***************************************************************************)
EXTENDS WebhookDelivery
================================================================================
