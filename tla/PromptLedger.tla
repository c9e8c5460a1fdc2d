----------------------------- MODULE PromptLedger -----------------------------
(***************************************************************************)
(* What the headless engine owes to the prompts of one session, whatever   *)
(* its goroutines do: a prompt is accepted into a FIFO line or handed      *)
(* directly to a launcher; it leaves the line from the head, unless the    *)
(* user removes it; a launched prompt starts at most one turn or is        *)
(* dropped; what has started, was dropped or was removed stays so.         *)
(* HeadlessTurns implements this module (see Ledger there).                *)
(***************************************************************************)
EXTENDS Sequences, SequencesExt

CONSTANT Work          \* prompts and answers, each submitted at most once

VARIABLES fate,        \* what has become of each prompt
          line         \* the prompts that wait, oldest first

vars == <<fate, line>>

Fates == {"new", "queued", "taken", "started", "dropped", "removed"}

Init == /\ fate = [p \in Work |-> "new"]
        /\ line = <<>>

Enqueue(p) == /\ fate[p] = "new"
              /\ fate' = [fate EXCEPT ![p] = "queued"]
              /\ line' = Append(line, p)

Direct(p) == /\ fate[p] = "new"
             /\ fate' = [fate EXCEPT ![p] = "taken"]
             /\ UNCHANGED line

TakeHead == /\ line # <<>>
            /\ fate[Head(line)] = "queued"
            /\ fate' = [fate EXCEPT ![Head(line)] = "taken"]
            /\ line' = Tail(line)

Start(p) == /\ fate[p] = "taken"
            /\ fate' = [fate EXCEPT ![p] = "started"]
            /\ UNCHANGED line

Drop(p) == /\ fate[p] = "taken"
           /\ fate' = [fate EXCEPT ![p] = "dropped"]
           /\ UNCHANGED line

Withdraw(i) == /\ fate[line[i]] = "queued"
               /\ fate' = [fate EXCEPT ![line[i]] = "removed"]
               /\ line' = RemoveAt(line, i)

WithdrawAll == /\ fate' = [p \in Work |->
                           IF fate[p] = "queued" THEN "removed" ELSE fate[p]]
               /\ line' = <<>>

\* A daemon restart: the line and the launchers live in memory only.
Forget == /\ fate' \in [Work -> Fates]
          /\ \A p \in Work :
               \/ fate'[p] = fate[p] /\ fate[p] \notin {"queued", "taken"}
               \/ fate'[p] = "dropped" /\ fate[p] \in {"new", "queued", "taken"}
          /\ line' = <<>>

Next == \/ \E p \in Work : Enqueue(p) \/ Direct(p) \/ Start(p) \/ Drop(p)
        \/ \E i \in 1..Len(line) : Withdraw(i)
        \/ TakeHead \/ WithdrawAll \/ Forget

Spec == Init /\ [][Next]_vars
===============================================================================
