------------------------------- MODULE FifoLock -------------------------------
(***************************************************************************)
(* What the per-session hook lock of ackbard promises: for each key a line *)
(* of tickets, served strictly in the order of their reservation, one at a *)
(* time.  HookQueue implements this module (see Lock there).               *)
(***************************************************************************)
EXTENDS Sequences

CONSTANTS Tickets, Keys

VARIABLES line,     \* for each key the tickets that are not released, in order
          inside    \* the tickets that have been let in and not released

vars == <<line, inside>>

Init == line = [k \in Keys |-> <<>>] /\ inside = {}

Join(t, k) == /\ \A q \in Keys : \A i \in DOMAIN line[q] : line[q][i] # t
              /\ line' = [line EXCEPT ![k] = Append(@, t)]
              /\ UNCHANGED inside

Enter(t, k) == /\ line[k] # <<>> /\ t = Head(line[k]) /\ t \notin inside
               /\ inside' = inside \cup {t}
               /\ UNCHANGED line

Leave(t, k) == /\ line[k] # <<>> /\ t = Head(line[k]) /\ t \in inside
               /\ inside' = inside \ {t}
               /\ line' = [line EXCEPT ![k] = Tail(@)]

Next == \E t \in Tickets, k \in Keys : Join(t, k) \/ Enter(t, k) \/ Leave(t, k)

Spec == Init /\ [][Next]_vars
===============================================================================
