------------------------------- MODULE MCSyncLWW -------------------------------
(* Instances of SyncLWW for TLC: up to three daemons, a task, a project and  *)
(* a path under it.                                                          *)
EXTENDS SyncLWW, TLC
CONSTANTS h1, h2, h3, task, project, path
MCBelow == [n \in Nodes |-> IF n = project THEN Nodes ELSE {n}]
HostSymmetry == Permutations(Hosts)
================================================================================
