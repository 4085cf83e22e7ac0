------------------------ MODULE RoutingJobLifecycle ------------------------
(***************************************************************************)
(* What the API promises about the status of a routing job, whoever writes *)
(* it and in whatever order: a row is inserted once, as queued; its message *)
(* is sent only after that; only a row that is not terminal is started; only *)
(* a job whose message was sent is computed; a terminal row is never        *)
(* reopened.  Which of the two terminal statuses a row ends in is left      *)
(* open, because the code lets the later writer win.                        *)
(***************************************************************************)
CONSTANT JobIds

VARIABLES status, sent
lifecycleVars == <<status, sent>>

LifecycleInit ==
  /\ status = [j \in JobIds |-> "none"]
  /\ sent = {}

Submit(j) ==
  /\ status[j] = "none"
  /\ status' = [status EXCEPT ![j] = "queued"]
  /\ UNCHANGED sent

Send(j) ==
  /\ status[j] # "none"
  /\ j \notin sent
  /\ sent' = sent \cup {j}
  /\ UNCHANGED status

Start(j) ==
  /\ j \in sent
  /\ status[j] \in {"queued", "running"}
  /\ status' = [status EXCEPT ![j] = "running"]
  /\ UNCHANGED sent

\* Only a row the worker started, or gave up on while it ran, gets a result.
Succeed(j) ==
  /\ j \in sent
  /\ status[j] \in {"running", "succeeded", "failed"}
  /\ status' = [status EXCEPT ![j] = "succeeded"]
  /\ UNCHANGED sent

Fail(j) ==
  /\ status[j] \notin {"none", "deleted"}
  /\ status' = [status EXCEPT ![j] = "failed"]
  /\ UNCHANGED sent

\* The jobs of a deleted compile go together; none of them comes back.
Delete(J) ==
  /\ \A j \in J : status[j] # "none"
  /\ status' = [j \in JobIds |-> IF j \in J THEN "deleted" ELSE status[j]]
  /\ UNCHANGED sent

LifecycleNext ==
  \/ \E j \in JobIds : Submit(j) \/ Send(j) \/ Start(j) \/ Succeed(j) \/ Fail(j)
  \/ \E J \in SUBSET JobIds : Delete(J)

LifecycleSpec == LifecycleInit /\ [][LifecycleNext]_lifecycleVars

============================================================================
