------------------------------ MODULE MCWebhook -----------------------------
(***************************************************************************)
(* Small instances of the webhook lifecycle for TLC; the configurations    *)
(* give the constants.                                                     *)
(***************************************************************************)
EXTENDS WebhookContract
=============================================================================
