------------------------- MODULE MCWebhookDelivery -------------------------
(* Small instances of WebhookDelivery for TLC. *)
EXTENDS WebhookDelivery, TLC

Symmetry == Permutations(Events) \cup Permutations(Workers) \cup Permutations(Tokens)

=============================================================================
