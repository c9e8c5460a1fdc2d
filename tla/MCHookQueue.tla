------------------------------ MODULE MCHookQueue ------------------------------
(* Instances of HookQueue for TLC: a conversation, its subagent, the         *)
(* subagent of that, and a conversation that may take over the first.        *)
EXTENDS HookQueue, TLC
CONSTANTS e1, e2, e3, main, sub, nested, fresh
MCParentOf == [k \in Keys |-> CASE k = sub    -> main
                                [] k = nested -> sub
                                [] OTHER      -> NoKey]
MCDepth == [k \in Keys |-> CASE k \in {main, fresh} -> 0 [] k = sub -> 1 [] OTHER -> 2]
EventSymmetry == Permutations(Events)
================================================================================
