------------------------ MODULE MCAdminIdempotency -------------------------
(* Attempts, keys and payloads are interchangeable model values. *)
EXTENDS AdminIdempotency, TLC

Symmetry == Permutations(Attempts) \cup Permutations(Keys) \cup Permutations(Payloads)
=============================================================================
