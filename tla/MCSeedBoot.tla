----------------------------- MODULE MCSeedBoot -----------------------------
(* An instance of SeedBoot for TLC: two releases of a scenario. *)
EXTENDS SeedBoot

CONSTANTS b1, t1, t2, n1, v1

\* The second release has a new route, a corrected station and a service with
\* another provenance.
MCYaml == <<
  [i \in Items |-> IF i = t2 THEN None ELSE [body |-> 1, provenance |-> 1]],
  [i \in Items |-> [body |-> IF i = n1 THEN 2 ELSE 1,
                    provenance |-> IF i = v1 THEN 2 ELSE 1]] >>
MCUses == [i \in Items |-> IF i = v1 THEN {b1, t1, n1} ELSE IF i = Times THEN {t1} ELSE {}]
=============================================================================
