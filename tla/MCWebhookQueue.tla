-------------------------- MODULE MCWebhookQueue --------------------------
(* WebhookQueue for TLC: one webhook, with the attempts and stalls the     *)
(* code configures.                                                        *)
EXTENDS WebhookQueue, TLC

Alike == Permutations(Slots)
=============================================================================
