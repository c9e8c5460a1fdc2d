----------------------------- MODULE TreePaths -----------------------------
(***************************************************************************)
(* Paths of the project tree and directories of the file system, as        *)
(* sequences of names (numbers), and what the daemon and the clients ask   *)
(* of them.  Names have one length, and are longer than the three          *)
(* characters up to which a name never matches.                            *)
(***************************************************************************)
EXTENDS Naturals, SequencesExt

In(p, q) == IsPrefix(q, p)                          \* p is q or below it
Groups(paths) == UNION {{SubSeq(p, 1, k) : k \in 1 .. Len(p)} : p \in paths}
Rebase(p, old, new) == new \o SubSeq(p, Len(old) + 1, Len(p))

(* The order of paths as strings: a group before what is in it. *)
Before(p, q) ==
    \/ IsStrictPrefix(p, q)
    \/ \E k \in DOMAIN p \cap DOMAIN q :
          /\ \A j \in 1 .. k - 1 : p[j] = q[j]
          /\ p[k] < q[k]
FirstOf(set) == CHOOSE p \in set : \A q \in set \ {p} : Before(p, q)
LongestOf(set) == FirstOf({p \in set : \A q \in set : Len(q) <= Len(p)})
=============================================================================
