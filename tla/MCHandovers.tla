---------------------------- MODULE MCHandovers ----------------------------
(* Instances of Handovers for TLC. *)
EXTENDS Handovers, TLC

Symmetry == Permutations(Offers) \cup Permutations(Requests)
============================================================================
