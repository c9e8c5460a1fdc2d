----------------------------- MODULE MCTaskWorkflow -----------------------------
(* Instances of TaskWorkflow for TLC: an app for ios, one for android that  *)
(* waits for it, and a site that waits for android.                         *)
EXTENDS TaskWorkflow, TLC
CONSTANTS s1, s2, ios, android, site, pr1, pr2
MCDependsOn == [r \in Repos |-> CASE r = android -> ios [] r = site -> android
                                 [] OTHER -> NoRepo]
SessionSymmetry == Permutations(Sessions)
================================================================================
