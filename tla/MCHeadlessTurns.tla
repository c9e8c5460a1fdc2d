---------------------------- MODULE MCHeadlessTurns ----------------------------
(* Instances of HeadlessTurns for TLC. *)
EXTENDS HeadlessTurns, TLC
CONSTANTS p1, p2, p3, p4, a1
PromptSymmetry == Permutations(Prompts)
\* A bound for the run about the queue: enough prompts for several to wait
\* behind a turn, but no step of the scanner, which never looks at the queue,
\* and no question.
QueueOnly == scan.at = "idle" /\ \A p \in Work : asked[p] = "no"
================================================================================
