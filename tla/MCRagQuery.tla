----------------------------- MODULE MCRagQuery -----------------------------
(* RagQuery for TLC: the chunks of a tenant are interchangeable. *)
EXTENDS RagQuery

Symmetry == Permutations(Own)
=============================================================================
