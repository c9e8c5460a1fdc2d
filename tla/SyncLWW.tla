-------------------------------- MODULE SyncLWW --------------------------------
(***************************************************************************)
(* Replication of tasks and project nodes between the daemons of a fleet   *)
(* (internal/daemon/server_sync.go, db.go): last write wins, by a row's    *)
(* updated_at.  A daemon that changes a row pushes it to its peers and     *)
(* forgets about it; what a push does not bring, a pull does: every daemon *)
(* asks every peer for the rows that were changed since the time the peer  *)
(* stamped its last answer with.  A deletion leaves a tombstone.           *)
(*                                                                         *)
(* The database runs statements, not handlers, one at a time: a handler    *)
(* takes its time stamp before it writes, and ApplySyncState reads a row's *)
(* stamp with one statement and writes the row with another.               *)
(*                                                                         *)
(* A version of a row is its time stamp and whether it is live: the stamp  *)
(* stands for the rest of the row's columns.  Stamps come from one clock,  *)
(* which no two edits read at the same instant.  A version that is to be   *)
(* pushed is lost when it is sent or never, which no daemon can tell apart *)
(* from a loss on the way.                                                 *)
(***************************************************************************)
EXTENDS Naturals, FiniteSets

CONSTANTS Hosts, Tasks,
          Nodes,       \* paths of the project tree
          Below,       \* Below[n]: the path n and those under it
          Racing,      \* may two handlers of one daemon overlap?
          MaxStamp,    \* bound: how often rows are edited
          MaxPushes,   \* bound: how many pushes are under way
          MaxCrashes   \* bound: how many daemons crash

Items == Tasks \cup Nodes

ASSUME ItemAssumption  == Tasks \cap Nodes = {} /\ Below \in [Nodes -> SUBSET Nodes]
ASSUME RacingAssumption == Racing \in BOOLEAN
ASSUME BoundAssumption == MaxStamp \in Nat /\ MaxPushes \in Nat /\ MaxCrashes \in Nat

Rows      == [stamp : Nat, live : BOOLEAN]
NoRow     == [stamp |-> 0, live |-> FALSE]
Versions  == [item : Items, stamp : Nat \ {0}, live : BOOLEAN]
NoVersion == [stamp |-> 0]
Edits     == [host : Hosts, op : {"save", "update", "delete"}, item : Items, stamp : Nat \ {0}]
Jobs      == [kind : {"push", "pull"}, to : Hosts, from : Hosts, at : Nat,
              left : SUBSET Versions, next : Versions \cup {NoVersion}, absent : BOOLEAN]

VARIABLES
  clock,    \* the last time stamp taken
  row,      \* the tables of a daemon
  edits,    \* handlers that have their time stamp and have not written yet
  jobs,     \* payloads that a daemon is applying, or that are on their way
  since,    \* the setting last_sync_<peer>: what the next pull asks for
  crashes   \* how many daemons have crashed (bound)

vars == <<clock, row, edits, jobs, since, crashes>>

Init == /\ clock = 0 /\ crashes = 0
        /\ row = [h \in Hosts |-> [i \in Items |-> NoRow]]
        /\ edits = {} /\ jobs = {}
        /\ since = [h \in Hosts |-> [p \in Hosts |-> 0]]

\* No handler is between its reading and its writing, or that does not matter.
Ready == Racing \/ (edits = {} /\ \A j \in jobs : j.next = NoVersion)

\* GetSyncStateSince: the rows with updated_at after t.
Export(h, t) ==
  {[item |-> i, stamp |-> row[h][i].stamp, live |-> row[h][i].live] :
      i \in {i \in Items : row[h][i].stamp > t}}

NewJob(kind, to, from, versions) ==
  [kind |-> kind, to |-> to, from |-> from, at |-> clock, left |-> versions,
   next |-> NoVersion, absent |-> FALSE]

Pushes == {j \in jobs : j.kind = "push"}

\* pushSyncPayload: one goroutine per peer; a peer that does not answer in two
\* seconds is given up.
Push(h, versions) ==
  \E peers \in SUBSET (Hosts \ {h}) :
    /\ peers # {} => Cardinality(Pushes) + Cardinality(peers) <= MaxPushes
    /\ jobs' = jobs \cup {NewJob("push", p, h, versions) : p \in peers}

Put(h, i, version) == row' = [row EXCEPT ![h][i] = version]
-------------------------------------------------------------------------------
(* The edits of a daemon's own users.                                      *)

\* A handler looks for its row and takes the time: POST /v1/tasks updates a
\* task that is there and not deleted, and saves a new one otherwise.
Begin(h, op, i) ==
  /\ Ready /\ clock < MaxStamp
  /\ i \in Tasks => (op # "save" <=> row[h][i].live)
  /\ i \in Nodes => op # "update"
  /\ clock' = clock + 1
  /\ edits' = edits \cup {[host |-> h, op |-> op, item |-> i, stamp |-> clock + 1]}
  /\ UNCHANGED <<row, jobs, since, crashes>>

\* Mutant of Save: the task is pushed as the client sent it, without the stamp.
SaveUnstamped(e) ==
  /\ e \in edits /\ e.op # "delete"
  /\ IF e.item \in Tasks /\ e.op = "save" /\ row[e.host][e.item] # NoRow
     THEN UNCHANGED <<row, jobs>>
     ELSE /\ Put(e.host, e.item, [stamp |-> e.stamp, live |-> TRUE])
          /\ Push(e.host, {[item |-> e.item, stamp |-> 0, live |-> TRUE]})
  /\ edits' = edits \ {e}
  /\ UNCHANGED <<clock, since, crashes>>

\* CreateTask inserts a row, UpdateTask and SaveNode overwrite it, and make it
\* live again if it was deleted meanwhile.
Save(e) ==
  /\ e \in edits /\ e.op # "delete"
  /\ IF e.item \in Tasks /\ e.op = "save" /\ row[e.host][e.item] # NoRow
     THEN UNCHANGED <<row, jobs>>
     ELSE /\ Put(e.host, e.item, [stamp |-> e.stamp, live |-> TRUE])
          /\ Push(e.host, {[item |-> e.item, stamp |-> e.stamp, live |-> TRUE]})
  /\ edits' = edits \ {e}
  /\ UNCHANGED <<clock, since, crashes>>

\* DELETE /v1/tasks leaves a tombstone, and takes the time once more for the one
\* that it pushes.
DeleteTask(e) ==
  /\ e \in edits /\ e.op = "delete" /\ e.item \in Tasks
  /\ edits' = edits \ {e}
  /\ IF row[e.host][e.item].live
     THEN /\ Put(e.host, e.item, [stamp |-> e.stamp, live |-> FALSE])
          /\ Push(e.host, {[item |-> e.item, stamp |-> clock + 1, live |-> FALSE]})
          /\ clock' = clock + 1
     ELSE UNCHANGED <<clock, row, jobs>>
  /\ UNCHANGED <<since, crashes>>

\* DELETE /v1/nodes leaves tombstones for what is live at the path and under it,
\* and pushes what has changed since just before.
DeleteNode(e) ==
  LET gone == {n \in Below[e.item] : row[e.host][n].live} IN
  /\ e \in edits /\ e.op = "delete" /\ e.item \in Nodes
  /\ row' = [row EXCEPT ![e.host] = [i \in Items |->
                IF i \in gone THEN [stamp |-> e.stamp, live |-> FALSE] ELSE row[e.host][i]]]
  /\ Push(e.host, {[item |-> i, stamp |-> row'[e.host][i].stamp, live |-> row'[e.host][i].live] :
                      i \in {i \in Items : row'[e.host][i].stamp >= e.stamp}})
  /\ edits' = edits \ {e}
  /\ UNCHANGED <<clock, since, crashes>>
-------------------------------------------------------------------------------
(* Payloads.                                                               *)

\* PullFromPeer and handleSyncState: h asks p, and has its answer.
Pull(h, p) ==
  /\ Ready /\ h # p
  /\ ~\E j \in jobs : j.kind = "pull" /\ j.to = h /\ j.from = p
  /\ jobs' = jobs \cup {NewJob("pull", h, p, Export(p, since[h][p]))}
  /\ UNCHANGED <<clock, row, edits, since, crashes>>

\* pushSyncStateToPeer, when h finds that p is back: what has changed since a
\* push that p has acknowledged, whenever that was.
PushState(h, p) ==
  /\ Ready /\ h # p /\ Cardinality(Pushes) < MaxPushes
  /\ \E t \in 0..clock : jobs' = jobs \cup {NewJob("push", p, h, Export(h, t))}
  /\ UNCHANGED <<clock, row, edits, since, crashes>>

\* Mutant of Newer: the time stamps are not compared.
NewerOrNot(v, current) == TRUE

\* A version wins against the one that is there if its time stamp is later.
Newer(v, current) == v.stamp > current.stamp

\* ApplySyncState reads the stamp of the row that a version is for.
Compare(j) ==
  /\ Ready /\ j.next = NoVersion
  /\ \E v \in j.left :
       LET current == row[j.to][v.item] IN
       jobs' = (jobs \ {j}) \cup
               {IF Newer(v, current)
                THEN [j EXCEPT !.next = v, !.absent = current = NoRow]
                ELSE [j EXCEPT !.left = @ \ {v}]}
  /\ UNCHANGED <<clock, row, edits, since, crashes>>

\* Mutant of Bury: a tombstone below keeps the stamp that it had.
BuryUnstamped(h, v) ==
  row' = [row EXCEPT ![h] = [i \in Items |->
            IF i \in Below[v.item] /\ row[h][i].live
            THEN [row[h][i] EXCEPT !.live = FALSE] ELSE row[h][i]]]

\* The tombstone of a node buries what is live below it, whatever its stamp; a
\* node that has no row gets none.
Bury(h, v) ==
  row' = [row EXCEPT ![h] = [i \in Items |->
            IF i \in Below[v.item] /\ row[h][i] # NoRow
               /\ (row[h][i].live \/ row[h][i].stamp < v.stamp)
            THEN [stamp |-> v.stamp, live |-> FALSE] ELSE row[h][i]]]

\* ApplySyncState writes the version that has won.  The tombstone of a task that
\* had no row is inserted, which fails if another handler was faster.
Write(j) ==
  LET v == j.next IN
  /\ v # NoVersion
  /\ IF v.item \in Nodes /\ ~v.live
     THEN Bury(j.to, v)
     ELSE IF v.item \in Tasks /\ ~v.live /\ j.absent /\ row[j.to][v.item] # NoRow
     THEN UNCHANGED row
     ELSE Put(j.to, v.item, [stamp |-> v.stamp, live |-> v.live])
  /\ jobs' = (jobs \ {j}) \cup {[j EXCEPT !.next = NoVersion, !.left = @ \ {v}, !.absent = FALSE]}
  /\ UNCHANGED <<clock, edits, since, crashes>>

\* Mutant of Finish: the daemon asks next time for what is new by its own clock.
FinishByOwnClock(j) ==
  /\ j.left = {}
  /\ jobs' = jobs \ {j}
  /\ since' = IF j.kind = "pull" THEN [since EXCEPT ![j.to][j.from] = clock] ELSE since
  /\ UNCHANGED <<clock, row, edits, crashes>>

\* The payload is applied; a pull remembers the time of the peer's answer.
Finish(j) ==
  /\ j.left = {}
  /\ jobs' = jobs \ {j}
  /\ since' = IF j.kind = "pull" THEN [since EXCEPT ![j.to][j.from] = j.at] ELSE since
  /\ UNCHANGED <<clock, row, edits, crashes>>

\* A daemon crashes and is started again: its handlers are gone.
Crash(h) ==
  /\ crashes < MaxCrashes
  /\ crashes' = crashes + 1
  /\ edits' = {e \in edits : e.host # h}
  /\ jobs' = {j \in jobs : j.to # h}
  /\ UNCHANGED <<clock, row, since>>
-------------------------------------------------------------------------------
Commit(e) == Save(e) \/ DeleteTask(e) \/ DeleteNode(e)
Apply(j)  == Compare(j) \/ Write(j) \/ Finish(j)

Next == \/ \E h \in Hosts, op \in {"save", "update", "delete"}, i \in Items : Begin(h, op, i)
        \/ \E e \in edits : Commit(e)
        \/ \E h, p \in Hosts : Pull(h, p) \/ PushState(h, p)
        \/ \E j \in jobs : Apply(j)
        \/ \E h \in Hosts : Crash(h)

Spec == Init /\ [][Next]_vars

ApplyPull(h, p) == \E j \in jobs : j.kind = "pull" /\ j.to = h /\ j.from = p /\ Apply(j)

\* Handlers run on; every daemon pulls from every other again and again, and has
\* an answer in the end.
FairSpec == /\ Spec
            /\ WF_vars(\E e \in edits : Commit(e))
            /\ WF_vars(\E j \in jobs : Write(j))
            /\ \A h, p \in Hosts : WF_vars(Pull(h, p)) /\ WF_vars(ApplyPull(h, p))
-------------------------------------------------------------------------------
(* Properties.                                                             *)

\* Types of the variables.
TypeOK == /\ clock \in Nat /\ crashes \in 0..MaxCrashes
          /\ row \in [Hosts -> [Items -> Rows]]
          /\ edits \in SUBSET Edits
          /\ jobs \in SUBSET Jobs
          /\ since \in [Hosts -> [Hosts -> Nat]]

\* Two daemons that stamp a row alike hold the same version of it: comparing
\* stamps, which is all that the daemons ever do, is comparing versions.
OneVersion ==
  \A h, p \in Hosts, i \in Items : row[h][i].stamp = row[p][i].stamp => row[h][i] = row[p][i]

\* A task that a daemon holds is never replaced by an older version of it: an
\* edit, a payload that comes late or twice and a deletion all move it forward.
TaskNeverOlder ==
  [][\A h \in Hosts, t \in Tasks : row'[h][t].stamp >= row[h][t].stamp]_vars

\* What a daemon's user is shown of a task.
Shown(h, t) == IF row[h][t].live THEN row[h][t].stamp ELSE 0

\* Although pushes are lost and late and daemons crash, all daemons show the same
\* version of every task in the end.
TasksAgree == <>[](\A h, p \in Hosts, t \in Tasks : Shown(h, t) = Shown(p, t))

\* docs/voice-companion.md:70: tree_nodes "replicate across all hosts using
\* updated_at Last-Write-Wins", so a node is never replaced by an older version.
NodeNeverOlder ==
  [][\A h \in Hosts, n \in Nodes : row'[h][n].stamp >= row[h][n].stamp]_vars
================================================================================
