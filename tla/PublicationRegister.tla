------------------------ MODULE PublicationRegister ------------------------
(***************************************************************************)
(* What publishing promises (ADR-0005): a publication is a register that    *)
(* one atomic step writes from the draft and a compile that is current at   *)
(* that very moment, that one atomic step empties, and that goes with its   *)
(* service.  Nothing else changes what the public reads.                    *)
(***************************************************************************)
EXTENDS Naturals

CONSTANTS Services, None

VARIABLES draft, graphs, shown
registerVars == <<draft, graphs, shown>>

Nothing == [job |-> None, version |-> 0]

RegisterInit ==
  /\ draft = [s \in Services |-> [state |-> "none", version |-> 0, updated |-> 0]]
  /\ graphs = {}
  /\ shown = [s \in Services |-> Nothing]

\* A draft is created or edited.
Write(s) ==
  /\ draft[s].state # "gone"
  /\ draft'[s].updated \in Nat
  /\ draft' = [draft EXCEPT ![s] = [state |-> "there", version |-> draft[s].version + 1,
                                    updated |-> draft'[s].updated]]
  /\ UNCHANGED <<graphs, shown>>

\* A compile of a draft that exists succeeds.
Compiled(g) ==
  /\ draft[g.svc].state = "there"
  /\ graphs' = graphs \cup {g}
  /\ UNCHANGED <<draft, shown>>

\* Publish a graph no older than the draft, with the prose of the draft.
Publish(s, g) ==
  /\ draft[s].state = "there"
  /\ g \in graphs
  /\ g.svc = s /\ draft[s].updated <= g.created
  /\ shown' = [shown EXCEPT ![s] = [job |-> g.job, version |-> draft[s].version]]
  /\ UNCHANGED <<draft, graphs>>

Unpublish(s) ==
  /\ shown' = [shown EXCEPT ![s] = Nothing]
  /\ UNCHANGED <<draft, graphs>>

Delete(s) ==
  /\ draft[s].state = "there"
  /\ draft' = [draft EXCEPT ![s] = [state |-> "gone", version |-> 0, updated |-> 0]]
  /\ graphs' = {g \in graphs : g.svc # s}
  /\ shown' = [shown EXCEPT ![s] = Nothing]

RegisterNext ==
  \/ \E s \in Services : Write(s) \/ Unpublish(s) \/ Delete(s)
  \/ \E s \in Services, g \in graphs : Publish(s, g)
  \/ \E g \in graphs' : Compiled(g)

RegisterSpec == RegisterInit /\ [][RegisterNext]_registerVars

============================================================================
