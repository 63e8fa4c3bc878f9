--------------------------- MODULE MCAuditExport ---------------------------
(* Interchangeable model values; two makers can work on the same job. *)
EXTENDS AuditExport, TLC

Symmetry == Permutations(Jobs) \cup Permutations(Filters) \cup Permutations(Makers)
            \cup Permutations(Readers)
=============================================================================
