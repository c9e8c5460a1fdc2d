------------------------------- MODULE HookQueue -------------------------------
(***************************************************************************)
(* The hook intake of ackbard (internal/daemon/server_hooks.go): how the   *)
(* events of agent conversations are put in line and applied to session    *)
(* rows.  handleHook reserves a ticket of the conversation before it       *)
(* answers the agent; a goroutine of its own waits for the ticket before   *)
(* it, reads the row, changes it and saves it.  An event of a subagent     *)
(* changes the row of its parent, for which it takes a second ticket while *)
(* it holds the first.  The first event of a conversation may take the row *)
(* of another conversation over, and for that row it takes no ticket.      *)
(*                                                                         *)
(* A ticket is a channel that is closed when its owner releases it, and    *)
(* each ticket knows only the one before it; arrived and gone are history  *)
(* variables that name the line these channels make up.                    *)
(***************************************************************************)
EXTENDS Naturals, Sequences

CONSTANTS Events,     \* hook events, each delivered once
          Keys,       \* conversations (agent and native ID)
          ParentOf,   \* the conversation a subagent reports to, or NoKey
          NoKey,      \* a conversation that is no subagent has this parent
          Depth       \* how deep a conversation is nested

ASSUME KeyAssumption == NoKey \notin Keys
ASSUME ParentAssumption == ParentOf \in [Keys -> Keys \cup {NoKey}]
\* Conversations are started by their parents: no conversation is its own
\* ancestor.
ASSUME NestingAssumption ==
  /\ Depth \in [Keys -> Nat]
  /\ \A k \in Keys : ParentOf[k] # NoKey => Depth[ParentOf[k]] < Depth[k]

Own(e)     == <<e, "own">>
Second(e)  == <<e, "parent">>
Tickets    == Events \X {"own", "parent"}
NoTicket   == <<"none", "none">>

ASSUME TicketAssumption == NoTicket \notin Tickets

VARIABLES
  pc,        \* where the goroutine of each event is
  key,       \* the conversation of each event
  tail,      \* sessionHookQueue.tail of each conversation
  prev,      \* the ticket each ticket waits for
  closed,    \* the tickets whose channel is closed
  row,       \* the session row: the events whose change is in it
  copy,      \* the row as the goroutine has read it
  other,     \* the conversation whose row the event takes over, or NoKey
  cleared,   \* the conversations whose row is archived as cleared
  saved,     \* the events that have saved a row (history)
  arrived,   \* the tickets of a conversation, in order of reservation (history)
  gone       \* how many of them have been released (history)

rows == <<row, copy, other, cleared, saved>>
vars == <<pc, key, tail, prev, closed, rows, arrived, gone>>

Init == /\ pc = [e \in Events |-> "new"]
        /\ key = [e \in Events |-> NoKey]
        /\ tail = [k \in Keys |-> NoTicket]
        /\ prev = [t \in Tickets |-> NoTicket]
        /\ closed = {}
        /\ row = [k \in Keys |-> <<>>]
        /\ copy = [e \in Events |-> <<>>]
        /\ other = [e \in Events |-> NoKey]
        /\ cleared = {}
        /\ saved = {}
        /\ arrived = [k \in Keys |-> <<>>]
        /\ gone = [k \in Keys |-> 0]

HasParent(e) == ParentOf[key[e]] # NoKey
\* The conversation whose row the event changes.
Target(e) == IF HasParent(e) THEN ParentOf[key[e]] ELSE key[e]

Goto(e, phase) == pc' = [pc EXCEPT ![e] = phase]

\* Mutant of Reserve: the new channel is not made the tail.
ReserveKeepsTail(t, k) ==
  /\ prev' = [prev EXCEPT ![t] = tail[k]]
  /\ tail' = [tail EXCEPT ![k] = IF @ = NoTicket THEN t ELSE @]
  /\ arrived' = [arrived EXCEPT ![k] = Append(@, t)]

\* reserveSessionHook, under the mutex of the queue.
Reserve(t, k) ==
  /\ prev' = [prev EXCEPT ![t] = tail[k]]
  /\ tail' = [tail EXCEPT ![k] = t]
  /\ arrived' = [arrived EXCEPT ![k] = Append(@, t)]

\* Mutant of MayEnter: a plain mutex, which anyone may win when it is free.
MayEnterUnordered(t) == \A e \in Events : pc[e] \in {"new", "wait", "done"}

\* The wait function of a ticket returns.
MayEnter(t) == prev[t] = NoTicket \/ prev[t] \in closed

\* Mutant of Release: the channel of the ticket before is closed.
ReleasePrevious(t, k) ==
  /\ closed' = closed \cup {prev[t]}
  /\ gone' = [gone EXCEPT ![k] = @ + 1]

Release(t, k) ==
  /\ closed' = closed \cup {t}
  /\ gone' = [gone EXCEPT ![k] = @ + 1]
-------------------------------------------------------------------------------
\* handleHook: the ticket is taken before the agent gets its answer.
Receive(e, k) ==
  /\ pc[e] = "new"
  /\ key' = [key EXCEPT ![e] = k]
  /\ Reserve(Own(e), k)
  /\ Goto(e, "wait")
  /\ UNCHANGED <<closed, rows, gone>>

\* processParsedHookEvent goes two ways.  (A subagent has no row of its own;
\* one that is left from before it was known as a subagent is deleted here.)
TakeTurn(e) ==
  /\ pc[e] = "wait" /\ MayEnter(Own(e))
  /\ Goto(e, IF HasParent(e) THEN "join" ELSE "read")
  /\ UNCHANGED <<key, tail, prev, closed, rows, arrived, gone>>

\* Mutant of JoinParent: the parent's row is changed without its lock.
JoinNothing(e) ==
  /\ pc[e] = "join"
  /\ Goto(e, "waitParent")
  /\ UNCHANGED <<key, tail, prev, closed, rows, arrived, gone>>

\* lockSessionHook on the parent, with the own lock held: the reservation...
JoinParent(e) ==
  /\ pc[e] = "join"
  /\ Reserve(Second(e), ParentOf[key[e]])
  /\ Goto(e, "waitParent")
  /\ UNCHANGED <<key, closed, rows, gone>>

\* ... and the wait.
TakeParent(e) ==
  /\ pc[e] = "waitParent" /\ MayEnter(Second(e))
  /\ Goto(e, "read")
  /\ UNCHANGED <<key, tail, prev, closed, rows, arrived, gone>>

\* resolveOrAdoptHookSession, or resolveSession of the parent: the row is read;
\* or the conversation has no row, or an archived one, and the event is ignored;
\* or it has none yet and takes over the row of another one, which it has read
\* from the list of sessions.
Read(e) ==
  /\ pc[e] = "read"
  /\ \/ /\ ParentOf[Target(e)] = NoKey
        /\ HasParent(e) \/ key[e] \notin cleared
        /\ copy' = [copy EXCEPT ![e] = row[Target(e)]]
        /\ Goto(e, "save")
        /\ UNCHANGED other
     \/ /\ Goto(e, IF HasParent(e) THEN "leaveParent" ELSE "leave")
        /\ UNCHANGED <<copy, other>>
     \/ /\ ~HasParent(e) /\ row[key[e]] = <<>> /\ key[e] \notin cleared
        /\ \E k \in Keys \ (cleared \cup {key[e]}) :
             /\ ParentOf[k] = NoKey
             /\ other' = [other EXCEPT ![e] = k]
             /\ copy' = [copy EXCEPT ![e] = row[k]]
        /\ Goto(e, "take")
  /\ UNCHANGED <<key, tail, prev, closed, row, cleared, saved, arrived, gone>>

\* The adoption of a session that is still spawning deletes its row; a rotation
\* archives the row of the managed conversation, saving the copy of the list.
\* Neither takes a ticket of that conversation.
TakeOver(e) ==
  /\ pc[e] = "take"
  /\ \/ /\ row' = [row EXCEPT ![other[e]] = <<>>]
        /\ cleared' = cleared \ {other[e]}
     \/ /\ row' = [row EXCEPT ![other[e]] = copy[e]]
        /\ cleared' = cleared \cup {other[e]}
  /\ copy' = [copy EXCEPT ![e] = <<>>]
  /\ Goto(e, "save")
  /\ UNCHANGED <<key, tail, prev, closed, other, saved, arrived, gone>>

\* The transition is made on the copy, and the whole row is saved: with that, a
\* row that was archived meanwhile is managed again.  (The event of a subagent
\* may leave its parent's row as it is, archived or not.)
Save(e) ==
  /\ pc[e] = "save"
  /\ row' = [row EXCEPT ![Target(e)] = Append(copy[e], e)]
  /\ \/ cleared' = cleared \ {Target(e)}
     \/ HasParent(e) /\ UNCHANGED cleared
  /\ saved' = saved \cup {e}
  /\ Goto(e, IF HasParent(e) THEN "leaveParent" ELSE "leave")
  /\ UNCHANGED <<key, tail, prev, closed, copy, other, arrived, gone>>

\* Mutant of LeaveParent: the release of the parent's lock is forgotten.
LeaveParentLocked(e) ==
  /\ pc[e] = "leaveParent"
  /\ Goto(e, "leave")
  /\ UNCHANGED <<key, tail, prev, closed, rows, arrived, gone>>

\* The deferred releases run in reverse order.
LeaveParent(e) ==
  /\ pc[e] = "leaveParent"
  /\ Release(Second(e), ParentOf[key[e]])
  /\ Goto(e, "leave")
  /\ UNCHANGED <<key, tail, prev, rows, arrived>>

Leave(e) ==
  /\ pc[e] = "leave"
  /\ Release(Own(e), key[e])
  /\ Goto(e, "done")
  /\ UNCHANGED <<key, tail, prev, rows, arrived>>

Process(e) == \/ TakeTurn(e) \/ JoinParent(e) \/ TakeParent(e) \/ Read(e) \/ TakeOver(e)
              \/ Save(e) \/ LeaveParent(e) \/ Leave(e)

Next == \E e \in Events : Process(e) \/ \E k \in Keys : Receive(e, k)

Spec == Init /\ [][Next]_vars

\* The goroutines are scheduled; nothing obliges an agent to send.
FairSpec == Spec /\ \A e \in Events : WF_vars(Process(e))
-------------------------------------------------------------------------------
(* Properties.                                                             *)

\* Types of the variables.
TypeOK ==
  /\ pc \in [Events -> {"new", "wait", "join", "waitParent", "read", "take",
                        "save", "leaveParent", "leave", "done"}]
  /\ key \in [Events -> Keys \cup {NoKey}]
  /\ tail \in [Keys -> Tickets \cup {NoTicket}]
  /\ prev \in [Tickets -> Tickets \cup {NoTicket}]
  /\ closed \in SUBSET Tickets
  /\ row \in [Keys -> Seq(Events)]
  /\ copy \in [Events -> Seq(Events)]
  /\ other \in [Events -> Keys \cup {NoKey}]
  /\ cleared \in SUBSET Keys
  /\ saved \in SUBSET Events
  /\ arrived \in [Keys -> Seq(Tickets)]
  /\ gone \in [Keys -> Nat]

\* Where a ticket stands, and the conversation it is for.
Status(t) ==
  LET phase == pc[t[1]]  own == t[2] = "own" IN
  IF phase = "new" \/ (~own /\ (phase \in {"wait", "join"} \/ ~HasParent(t[1]))) THEN "none"
  ELSE IF phase = (IF own THEN "wait" ELSE "waitParent") THEN "waiting"
  ELSE IF phase = "done" \/ (~own /\ phase = "leave") THEN "released"
  ELSE "inside"
KeyOf(t) == IF t[2] = "own" THEN key[t[1]] ELSE Target(t[1])

Holds(e, k) == \E t \in Tickets : t[1] = e /\ Status(t) = "inside" /\ KeyOf(t) = k

\* One event at a time works on a conversation, as its own or as its parent's.
Exclusive == \A e, f \in Events, k \in Keys : Holds(e, k) /\ Holds(f, k) => e = f

\* The conversations whose row the first event of another one has taken over.
TakenOver == {other[f] : f \in {g \in Events : pc[g] # "take"}}

\* A change that an event has saved is missing from its row only if another
\* conversation has taken that row over: two events that hold tickets, of the
\* conversation itself or of its subagents, never overwrite each other.
NoChangeLost ==
  \A e \in saved : \/ Target(e) \in TakenOver
                   \/ \E i \in 1..Len(row[Target(e)]) : row[Target(e)][i] = e

\* A row shows the events of its conversation in the order in which they were
\* received, whatever the scheduling of their goroutines.
ArrivalOrder ==
  \A k \in Keys, e, f \in Events :
    LET Shown(a, b) == \E i, j \in 1..Len(row[k]) : i < j /\ row[k][i] = a /\ row[k][j] = b
        Came(a, b)  == \E i, j \in 1..Len(arrived[k]) :
                          i < j /\ arrived[k][i] = Own(a) /\ arrived[k][j] = Own(b)
    IN key[e] = k /\ key[f] = k /\ Shown(e, f) => Came(e, f)

\* Why the lock works: the channels of a conversation form one chain, of which
\* a prefix is closed, and only the ticket behind that prefix is let in.
Links(k) ==
  \A i \in 1..Len(arrived[k]) :
    /\ Status(arrived[k][i]) # "none" /\ KeyOf(arrived[k][i]) = k
    /\ prev[arrived[k][i]] = IF i = 1 THEN NoTicket ELSE arrived[k][i-1]
    /\ Status(arrived[k][i]) = "released" <=> i <= gone[k]
    /\ Status(arrived[k][i]) = "inside" => i = gone[k] + 1
Ends(k) ==
  /\ \A i, j \in 1..Len(arrived[k]) : arrived[k][i] = arrived[k][j] => i = j
  /\ gone[k] <= Len(arrived[k])
  /\ tail[k] = IF arrived[k] = <<>> THEN NoTicket ELSE arrived[k][Len(arrived[k])]
InLine(t) ==
  /\ Status(t) # "none" =>
       /\ KeyOf(t) \in Keys
       /\ \E i \in 1..Len(arrived[KeyOf(t)]) : arrived[KeyOf(t)][i] = t
  /\ t \in closed <=> Status(t) = "released"
Routed(e) == /\ pc[e] # "new" => key[e] \in Keys
             /\ pc[e] \in {"join", "waitParent", "leaveParent"} => HasParent(e)
Chain == /\ \A k \in Keys : Links(k) /\ Ends(k)
         /\ \A t \in Tickets : InLine(t)
         /\ \A e \in Events : Routed(e)

\* Each conversation's tickets are served by a FIFO lock.
Lock == INSTANCE FifoLock WITH
          line   <- [k \in Keys |-> SubSeq(arrived[k], gone[k] + 1, Len(arrived[k]))],
          inside <- {t \in Tickets : Status(t) = "inside"}
LockSpec == Lock!Spec

\* Every event that was received is processed in the end: no ticket waits for
\* itself, not even through the lock of a parent.
EveryEventServed == \A e \in Events : (pc[e] = "wait") ~> (pc[e] = "done")
================================================================================
