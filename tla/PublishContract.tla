-------------------------- MODULE PublishContract --------------------------
(***************************************************************************)
(* What routing.Publisher promises enqueueIsochrone, which is all that      *)
(* RoutingJobs uses of it: a publish that returns nil has put its message   *)
(* in the queue; one that returns an error says nothing, the message may be *)
(* in the queue by then, get there later or never.                          *)
(***************************************************************************)
CONSTANT Messages

VARIABLES call, queued
contractVars == <<call, queued>>

ContractInit ==
  /\ call = [m \in Messages |-> "none"]
  /\ queued = {}

Begin(m) ==
  /\ call[m] = "none"
  /\ call' = [call EXCEPT ![m] = "open"]
  /\ UNCHANGED queued

Deliver(m) ==
  /\ call[m] # "none"
  /\ queued' = queued \cup {m}
  /\ UNCHANGED call

ReturnNil(m) ==
  /\ call[m] = "open" /\ m \in queued
  /\ call' = [call EXCEPT ![m] = "nil"]
  /\ UNCHANGED queued

ReturnError(m) ==
  /\ call[m] = "open"
  /\ call' = [call EXCEPT ![m] = "error"]
  /\ UNCHANGED queued

ContractNext ==
  \E m \in Messages : Begin(m) \/ Deliver(m) \/ ReturnNil(m) \/ ReturnError(m)

ContractSpec == ContractInit /\ [][ContractNext]_contractVars

============================================================================
