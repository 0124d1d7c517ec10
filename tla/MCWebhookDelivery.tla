-------------------------- MODULE MCWebhookDelivery --------------------------
(* Instances of WebhookDelivery for TLC. *)
EXTENDS WebhookDelivery, TLC

(* The workers are alike: all run the same loop and share everything. *)
WorkerSymmetry == Permutations(Workers)

=============================================================================
