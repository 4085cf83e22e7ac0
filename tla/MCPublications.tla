--------------------------- MODULE MCPublications ---------------------------
(* Instances of Publications for TLC. *)
EXTENDS Publications, TLC

Symmetry == Permutations(Services) \cup Permutations(JobIds) \cup Permutations(Requests)
============================================================================
