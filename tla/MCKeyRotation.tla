--------------------------- MODULE MCKeyRotation ---------------------------
(* Interchangeable model values for the rows, replicas and runs. *)
EXTENDS KeyRotation, TLC

Symmetry == Permutations(Rows) \cup Permutations(Replicas) \cup Permutations(Campaigns)
=============================================================================
