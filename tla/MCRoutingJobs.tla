--------------------------- MODULE MCRoutingJobs ---------------------------
(* Instances of RoutingJobs for TLC. *)
EXTENDS RoutingJobs, TLC

RequestSymmetry == Permutations(Requests) \cup Permutations(JobIds)
============================================================================
