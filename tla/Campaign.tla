------------------------------ MODULE Campaign ------------------------------
(***************************************************************************)
(* A target under continuous patrol: each snapshot is patrolled for        *)
(* findings and projected to a security graph that is saved under its id.  *)
(***************************************************************************)
EXTENDS Patrol, SecurityGraph

vars == <<patrolVars, graphs>>

Init == PatrolInit /\ GraphInit

\* run_patrol and the patrols of its callers; the graph of a snapshot is saved
\* apart from its patrol.
Next ==
    \/ \E t \in Snapshots : Observe(t) /\ UNCHANGED graphs
    \/ Run /\ UNCHANGED graphs
    \/ \E k \in Surfaces : RunRaises(k) /\ UNCHANGED graphs
    \/ \E i \in SnapshotIds, p \in Scopes, g \in Graphs : Save(i, p, g) /\ UNCHANGED patrolVars

Spec == Init /\ [][Next]_vars

TypeOK == PatrolTypeOK /\ GraphTypeOK
=============================================================================
