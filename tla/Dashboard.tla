----------------------------- MODULE Dashboard -----------------------------
(***************************************************************************)
(* The terminal dashboard (ackbar) of one daemon: the copies it keeps of   *)
(* the sessions and of the project tree, how events, fetches and the       *)
(* user's keys change them, and the commands it sends to the daemon while  *)
(* other clients and the agents change the same rows.                      *)
(*                                                                         *)
(* A session is identified by its id; its terminal, directory and          *)
(* supervisor mark are fixed.  Sections and times order the sessions of a  *)
(* group, here their ids do.                                               *)
(***************************************************************************)
EXTENDS TreePaths, FiniteSets

CONSTANTS
    Ids,            \* sessions, numbers
    None,           \* no id, no terminal, no dialog
    Paths,          \* paths of nodes
    Dir,            \* directory of each node when it is made, <<>> if it has none
    Cwd, Pane,      \* directory and terminal of each session
    Supervisors,    \* the sessions that are supervisors
    MaxQueue,       \* the buffer of a subscriber: 10
    MaxChanges, MaxKeys, MaxCmds    \* bounds on changes, keys and commands at work

VARIABLES
    store,      \* the daemon: rows of sessions, nodes of the tree with their directories
    sub,        \* the subscription: off, new (registered, nothing sent) or on
    chan,       \* its buffer
    wire,       \* what is sent and not yet handled
    tui,        \* list, nodes, cursor, view and dialog
    cmds,       \* commands and answers under way
    crashed,    \* the cursor was used outside the rows
    count,      \* changes and keys so far, sessions gone and those that took over a row
    doubt       \* the sessions whose last change was dropped, overtaken or never told

dashVars == <<store, sub, chan, wire, tui, cmds, crashed, count, doubt>>

Present == DOMAIN store.rows
Copy(i) == store.rows[i]
Fresh == [id |-> None, path |-> <<>>, ended |-> FALSE, archived |-> FALSE, unread |-> FALSE, old |-> None]
Within(p) == {q \in DOMAIN store.nodes : q = p \/ In(q, p)}

-----------------------------------------------------------------------------
(***************************************************************************)
(* buildVisibleRows: rows of one session or one terminal are merged into   *)
(* the first of them, in place; the rest are laid out as a tree.           *)
(***************************************************************************)
SameId(a, b) == a.id = b.id
Same(a, b) == a.id = b.id \/ (Pane[a.id] # None /\ Pane[a.id] = Pane[b.id])
First(list) == {k \in DOMAIN list : \A j \in 1 .. k - 1 : ~Same(list[j], list[k])}
Twins(list, k) == {j \in k .. Len(list) : Same(list[k], list[j])}
Filing(list, k) == {j \in Twins(list, k) : list[j].path # <<>>}
Merged(list) ==
    [k \in DOMAIN list |->
        IF k \notin First(list) THEN list[k]
        ELSE [list[k] EXCEPT
                !.ended = \A j \in Twins(list, k) : list[j].ended,
                !.archived = \E j \in Twins(list, k) : list[j].archived,
                !.path = IF Filing(list, k) = {} THEN <<>> ELSE list[Min(Filing(list, k))].path]]

(* Where a session is shown: its own path; else the longest node whose     *)
(* directory holds its own; else the node, or the top group, that a part   *)
(* of its directory is named after.                                        *)
Unassigned == <<1000>>
Named(c, name) == name \in Range(Cwd[c.id])
Holds(dir, c) == dir # <<>> /\ In(Cwd[c.id], dir)
Assigned(c, nodes) ==
    LET byDir == {p \in DOMAIN nodes : Holds(nodes[p], c)}
        byLeaf == {p \in DOMAIN nodes : Named(c, Last(p))}
        byTop == {p \in DOMAIN nodes : Named(c, p[1])}
    IN  IF c.path # <<>> THEN c.path
        ELSE IF c.id \in Supervisors THEN Unassigned
        ELSE IF byDir # {} THEN LongestOf(byDir)
        ELSE IF byLeaf # {} THEN LongestOf(byLeaf)
        ELSE IF byTop # {} THEN <<LongestOf(byTop)[1]>>
        ELSE Unassigned

Listed(t) == {t.list[k] : k \in {x \in First(t.list) :
                 /\ t.list[x].archived = t.archivedView
                 /\ t.supOnly => t.list[x].id \in Supervisors}}
(* A row is a group or a session; its key orders the rows. *)
AllRows(t) ==
    {[key |-> p, id |-> None, at |-> p] :
        p \in Groups((IF t.supOnly THEN {} ELSE DOMAIN t.nodes) \cup {Assigned(c, t.nodes) : c \in Listed(t)})}
    \cup {[key |-> Assigned(c, t.nodes) \o <<0, c.id>>, id |-> c.id,
           at |-> Assigned(c, t.nodes)] : c \in Listed(t)}
Rows(t) == {r \in AllRows(t) : \A p \in t.collapsed : ~IsStrictPrefix(p, r.key)}
Number(t, r) == Cardinality({q \in Rows(t) : Before(q.key, r.key)})
Under(t) == CHOOSE r \in Rows(t) : Number(t, r) = t.sel
OnRow(t) == t.sel < Cardinality(Rows(t))
Place(t, i) == CHOOSE k \in First(t.list) : t.list[k].id = i
Selected(t) == t.list[Place(t, Under(t).id)]

-----------------------------------------------------------------------------
Init ==
    /\ store = [rows |-> <<>>, nodes |-> <<>>]
    /\ sub = "off" /\ chan = <<>> /\ wire = <<>>
    /\ tui = [list |-> <<>>, nodes |-> <<>>, sel |-> 0, archivedView |-> FALSE,
              supOnly |-> FALSE, collapsed |-> {}, dialog |-> [op |-> None]]
    /\ cmds = {[op |-> "nodes"], [op |-> "fetch"]}
    /\ crashed = FALSE /\ count = [changes |-> 0, keys |-> 0, gone |-> {}, heirs |-> {}] /\ doubt = {}

Overtaking == \E c \in cmds : c.op = "sessions"

(* broadcast: a full buffer drops the event. *)
Broadcast(copies, silent) ==
    LET drops == sub # "off" /\ Len(chan) + Len(copies) > MaxQueue
        told == {c.id : c \in Range(copies)}
    IN  /\ chan' = IF sub = "off" \/ drops THEN chan ELSE chan \o copies
        /\ doubt' = (doubt \cup silent \cup (IF drops \/ Overtaking THEN told ELSE {}))
                      \ (IF drops \/ Overtaking THEN {} ELSE told)

Write(rows, nodes, copies, silent) ==
    /\ store' = [rows |-> rows, nodes |-> nodes]
    /\ Broadcast(copies, silent)

(***************************************************************************)
(* What the agents and the other clients do at the daemon.                 *)
(***************************************************************************)
Variants(r) ==
    {[r EXCEPT !.ended = ~@], [r EXCEPT !.archived = ~@], [r EXCEPT !.unread = ~@]}
      \cup {[r EXCEPT !.path = p] : p \in DOMAIN store.nodes}

Change(i) ==
    /\ i \in Present
    /\ \E r \in Variants(store.rows[i]) :
          Write([store.rows EXCEPT ![i] = r], store.nodes, <<r>>, {})

(* A new session, filed where its directory says, or one that takes over   *)
(* the row of another.                                                     *)
Arrive(i, old) ==
    /\ i \notin Present /\ i \notin count.gone
    /\ old # None => old \in Present
    /\ \E p \in DOMAIN store.nodes \cup {<<>>} :
       LET r == [Fresh EXCEPT !.id = i, !.old = old, !.path = p]
           rows == [k \in {i} \cup (Present \ {old}) |-> IF k = i THEN r ELSE store.rows[k]]
       IN  Write(rows, store.nodes, <<r>>, {})

PlantNode(p) ==
    /\ p \notin DOMAIN store.nodes
    /\ Write(store.rows, [q \in DOMAIN store.nodes \cup {p} |-> IF q = p THEN Dir[p] ELSE store.nodes[q]],
             <<>>, {})

Changes ==
    /\ count.changes < MaxChanges
    /\ \/ /\ \E i \in Ids : Change(i)
          /\ count' = [count EXCEPT !.changes = @ + 1]
       \/ /\ \E i \in Ids, old \in Ids \cup {None} :
                /\ i # old /\ Arrive(i, old)
                /\ count' = [count EXCEPT !.changes = @ + 1, !.gone = @ \cup ({old} \ {None}),
                                            !.heirs = @ \cup (IF old = None THEN {} ELSE {i})]
       \/ /\ \E p \in Paths : PlantNode(p)
          /\ count' = [count EXCEPT !.changes = @ + 1]
    /\ UNCHANGED <<sub, wire, tui, cmds, crashed>>

(***************************************************************************)
(* The event stream: the buffer is registered before the rows are listed.  *)
(***************************************************************************)
Nth(k) == CHOOSE i \in Present : Cardinality({j \in Present : j < i}) = k - 1
Listing == [k \in 1 .. Cardinality(Present) |-> Copy(Nth(k))]

Register ==
    /\ sub = "off" /\ tui.dialog.op # "attached" /\ ~crashed
    /\ sub' = "new" /\ chan' = <<>>
    /\ UNCHANGED <<store, wire, tui, cmds, crashed, count, doubt>>

SendListing ==
    /\ sub = "new"
    /\ sub' = "on" /\ wire' = wire \o Listing
    /\ doubt' = IF Overtaking THEN doubt ELSE doubt \cap {c.id : c \in Range(chan)}
    /\ UNCHANGED <<store, chan, tui, cmds, crashed, count>>

SendEvent ==
    /\ sub = "on" /\ chan # <<>>
    /\ wire' = Append(wire, Head(chan)) /\ chan' = Tail(chan)
    /\ UNCHANGED <<store, sub, tui, cmds, crashed, count, doubt>>

(* What the client has read of the stream is still handled. *)
Cut(s) == \E k \in 0 .. Len(wire) : wire' = SubSeq(wire, 1, k) /\ chan' = <<>> /\ sub' = s
Disconnect ==
    /\ sub # "off" /\ count.changes < MaxChanges
    /\ Cut("off") /\ count' = [count EXCEPT !.changes = @ + 1]
    /\ UNCHANGED <<store, tui, cmds, crashed, doubt>>

-----------------------------------------------------------------------------
(***************************************************************************)
(* Update, the messages.                                                   *)
(***************************************************************************)
Runs == ~crashed /\ tui.dialog.op # "attached"
Show(t) == tui' = [t EXCEPT !.list = Merged(@)]

Handle ==                                           \* sessionUpdateMsg
    /\ Runs /\ wire # <<>>
    /\ LET e == Head(wire)
           k == SelectInSeq(tui.list, LAMBDA c : c.id = e.id \/ (e.old # None /\ c.id = e.old))
       IN  Show([tui EXCEPT !.list = IF k = 0 THEN Append(@, e) ELSE [@ EXCEPT ![k] = e]])
    /\ wire' = Tail(wire)
    /\ UNCHANGED <<store, sub, chan, cmds, crashed, count, doubt>>

Answer(c) ==
    /\ Runs
    /\ \/ /\ c.op = "sessions"                      \* fetchSessionsResult
          /\ Show([tui EXCEPT !.list = c.rows, !.sel = 0])
       \/ /\ c.op = "tree"                          \* nodesMsg
          /\ Show([tui EXCEPT !.nodes = c.nodes])
       \/ /\ c.op = "exec"                          \* the terminal is the session's
          /\ Show([tui EXCEPT !.dialog = [op |-> "attached"]])
    /\ cmds' = cmds \ {c}
    /\ UNCHANGED <<store, sub, chan, wire, crashed, count, doubt>>

(* attachCmd's callback: a new subscription and a fetch. *)
Detach ==
    /\ tui.dialog.op = "attached"
    /\ Show([tui EXCEPT !.dialog = [op |-> None]])
    /\ cmds' = cmds \cup {[op |-> "fetch"]}
    /\ UNCHANGED <<store, sub, chan, wire, crashed, count, doubt>>

(***************************************************************************)
(* Update, the keys.                                                       *)
(***************************************************************************)
Keep == UNCHANGED <<sub, chan, wire>>
Press(t, new) == Show(t) /\ cmds' = cmds \cup new /\ Keep

(* markReadCmd: the copy at once, the daemon by command. *)
Marks(t) == OnRow(t) /\ Under(t).id # None /\ Selected(t).unread
Seen(list, i) ==
    [k \in DOMAIN list |->
        IF k \in First(list) /\ list[k].id = i THEN [list[k] EXCEPT !.unread = FALSE] ELSE list[k]]
Read(t) == IF Marks(t) THEN [t EXCEPT !.list = Seen(@, Under(t).id)] ELSE t
ReadCmd(t, next) == {[op |-> "read", id |-> Under(t).id, next |-> next]}
ReadCmds(t) == IF Marks(t) THEN ReadCmd(t, {}) ELSE {}

Move(to) == Press([Read(tui) EXCEPT !.sel = to], ReadCmds(tui))
UpDown == (tui.sel > 0 /\ Move(tui.sel - 1)) \/ (tui.sel + 1 < Cardinality(Rows(tui)) /\ Move(tui.sel + 1))
SwitchView ==
    Press([Read(tui) EXCEPT !.archivedView = ~@, !.sel = 0], ReadCmds(tui))
SwitchFilter == Press([tui EXCEPT !.supOnly = ~@, !.sel = 0], {})

Toggle(p) == Press([tui EXCEPT !.collapsed = IF p \in @ THEN @ \ {p} ELSE @ \cup {p}], {})
Attach(i) ==
    /\ Cut("off") /\ Show(Read(tui))
    /\ cmds' = cmds \cup (IF Marks(tui) THEN ReadCmd(tui, {[op |-> "exec"]}) ELSE {[op |-> "exec"]})
Ask(d) == Press([tui EXCEPT !.dialog = d], {})
Send(c) == Press(tui, {c})

(* A group is deleted only if the copies have no node below it and no      *)
(* session in it, by path or by directory.                                 *)
NodeBelow(t, p) == \E q \in DOMAIN t.nodes : q # p /\ In(q, p)
Occupied(t, p) ==
    \/ NodeBelow(t, p)
    \/ \E c \in Range(t.list) :
          \/ c.path # <<>> /\ In(c.path, p)
          \/ \E q \in DOMAIN t.nodes : In(q, p) /\ Holds(t.nodes[q], c)

(* The copies are those of the daemon. *)
UpToDate == tui.nodes = store.nodes /\ Range(tui.list) = {Copy(i) : i \in Present}
DeleteGroup(p) ==
    IF Occupied(tui, p) THEN Press(tui, {})
    ELSE Send([op |-> "deleteNode", path |-> p, basis |-> IF UpToDate THEN <<store>> ELSE <<>>])

OnGroup(p) == Toggle(p) \/ DeleteGroup(p) \/ Ask([op |-> "moveNode", path |-> p, to |-> <<>>])
OnSession(i) ==
    LET c == Selected(tui)
    IN  \/ IF Pane[i] # None THEN Attach(i) ELSE Ask([op |-> "restart", id |-> i])
        \/ Send([op |-> "archive", id |-> i, to |-> ~c.archived])
        \/ Send([op |-> "kill", id |-> i])
        \/ Send([op |-> "delete", id |-> i])
        \/ Ask([op |-> "move", id |-> i, to |-> <<>>])
        \/ IF c.ended \/ Pane[i] # None THEN Send([op |-> "restart", id |-> i])
           ELSE Ask([op |-> "restart", id |-> i])

OnCursor ==
    /\ Rows(tui) # {}
    /\ IF ~OnRow(tui) THEN crashed' = TRUE /\ Press(tui, {})
       ELSE /\ IF Under(tui).id = None THEN OnGroup(Under(tui).at) ELSE OnSession(Under(tui).id)
            /\ UNCHANGED crashed

InDialog ==
    LET d == tui.dialog
        closed == [tui EXCEPT !.dialog = [op |-> None]]
    IN  \/ Press(closed, {})
        \/ d.op = "restart" /\ Press(closed, {d})
        \/ d.op \in {"move", "moveNode"} /\ \E p \in Paths : Press(closed, {[d EXCEPT !.to = p]})

Keys ==
    /\ Runs /\ count.keys < MaxKeys /\ Cardinality(cmds) < MaxCmds
    /\ count' = [count EXCEPT !.keys = @ + 1]
    /\ IF tui.dialog.op # None THEN InDialog /\ UNCHANGED crashed
       ELSE \/ (UpDown \/ SwitchView \/ SwitchFilter) /\ UNCHANGED crashed
            \/ OnCursor
    /\ UNCHANGED <<store, doubt>>

-----------------------------------------------------------------------------
(***************************************************************************)
(* The commands, at the daemon.                                            *)
(***************************************************************************)
Set(i, r) == Write([store.rows EXCEPT ![i] = r], store.nodes, <<r>>, {})
Filed(p) == {i \in Present : store.rows[i].path # <<>> /\ In(store.rows[i].path, p)}
Refiled(p, to) ==
    [i \in Present |->
        IF i \in Filed(p)
        THEN [store.rows[i] EXCEPT !.path = IF to = <<>> THEN <<>> ELSE Rebase(@, p, to)]
        ELSE store.rows[i]]

SessionCommand(c) ==
    LET r == store.rows[c.id]
    IN  \/ c.op = "read" /\ Set(c.id, [r EXCEPT !.unread = FALSE])
        \/ c.op = "archive" /\ Set(c.id, [r EXCEPT !.archived = c.to])
        \/ c.op = "kill" /\ Set(c.id, [r EXCEPT !.ended = TRUE])
        \/ c.op = "restart" /\ Set(c.id, [r EXCEPT !.ended = FALSE])
        \/ c.op = "move" /\ Set(c.id, [r EXCEPT !.path = c.to])
        \/ /\ c.op = "delete"
           /\ Write(Restrict(store.rows, Present \ {c.id}), store.nodes,
                    <<[r EXCEPT !.ended = TRUE]>>, {})
(* A node is moved to free paths here; onto a taken one in NodeTree.       *)
Moved(c) == {Rebase(q, c.path, c.to) : q \in Within(c.path)}
NodeCommand(c) ==
    \/ /\ c.op = "deleteNode"
       /\ Write(Refiled(c.path, <<>>), Restrict(store.nodes, DOMAIN store.nodes \ Within(c.path)),
                <<>>, Filed(c.path))
    \/ /\ c.op = "moveNode"
       /\ Moved(c) \cap (DOMAIN store.nodes \ Within(c.path)) = {}
       /\ Write(Refiled(c.path, c.to),
                [q \in Moved(c) \cup (DOMAIN store.nodes \ Within(c.path)) |->
                    store.nodes[IF q \notin Moved(c) THEN q
                                ELSE CHOOSE p \in Within(c.path) : Rebase(p, c.path, c.to) = q]],
                <<>>, Filed(c.path))

Follow(c) ==
    CASE c.op = "read" -> c.next
      [] c.op \in {"move", "delete"} -> {[op |-> "fetch"]}
      [] c.op \in {"moveNode", "deleteNode"} -> {[op |-> "nodes"]}
      [] OTHER -> {}

Perform(c) ==
    /\ \/ "id" \in DOMAIN c /\ c.id \in Present /\ SessionCommand(c)
       \/ NodeCommand(c)
    /\ cmds' = (cmds \ {c}) \cup Follow(c)
    /\ count' = IF c.op = "delete" THEN [count EXCEPT !.gone = @ \cup {c.id}] ELSE count
    /\ UNCHANGED <<sub, wire, tui, crashed>>

(* A command of a session that is gone fails; its error is shown. *)
Fail(c) ==
    /\ "id" \in DOMAIN c /\ c.id \notin Present
    /\ cmds' = (cmds \ {c}) \cup (IF c.op = "read" THEN c.next ELSE {})
    /\ UNCHANGED <<store, sub, chan, wire, tui, crashed, count, doubt>>

Fetch(c) ==
    /\ \/ c.op = "fetch" /\ cmds' = (cmds \ {c}) \cup {[op |-> "sessions", rows |-> Listing]}
       \/ c.op = "nodes" /\ cmds' = (cmds \ {c}) \cup {[op |-> "tree", nodes |-> store.nodes]}
    /\ UNCHANGED <<store, sub, chan, wire, tui, crashed, count, doubt>>

Next ==
    \/ Changes
    \/ Register \/ SendListing \/ SendEvent \/ Disconnect
    \/ Handle \/ Detach \/ Keys
    \/ \E c \in cmds : Answer(c) \/ Perform(c) \/ Fail(c) \/ Fetch(c)

Spec == Init /\ [][Next]_dashVars
-----------------------------------------------------------------------------
TypeOK ==
    /\ Present \subseteq Ids /\ Range(store.nodes) \subseteq {Dir[p] : p \in Paths}
    /\ sub \in {"off", "new", "on"} /\ Len(chan) <= MaxQueue /\ doubt \subseteq Ids
    /\ \A k \in DOMAIN tui.list : tui.list[k].id \in Ids
    /\ \A c \in cmds : c.op \in {"read", "archive", "kill", "restart", "move", "delete", "deleteNode",
                                 "moveNode", "fetch", "nodes", "sessions", "tree", "exec"}

(* Once the stream is handled, and no mark-read is under way, the dashboard *)
(* shows every row as the daemon has it, except one whose last change was   *)
(* dropped by a full buffer, overtaken by the answer of a fetch or made     *)
(* with its node and told to nobody; rows that share a terminal are merged, *)
(* and a row taken over for the second time may be listed twice (README).   *)
Alone(i) ==
    /\ \A j \in Ids \ {i} : Pane[j] = None \/ Pane[j] # Pane[i]
    /\ Copy(i).old \notin count.heirs
Shown(i) == \E k \in First(tui.list) : tui.list[k] = Copy(i)
Caught ==
    sub = "on" /\ chan = <<>> /\ wire = <<>> /\ (\A c \in cmds : c.op # "read") =>
        \A i \in Present \ doubt : Alone(i) => Shown(i)

(* A session, and a terminal whose session was taken over by another id,   *)
(* has one row.                                                            *)
OneRow ==
    \A a, b \in Listed(tui) : a # b => a.id # b.id /\ (Pane[a.id] = None \/ Pane[a.id] # Pane[b.id])

(* Deleting a group on an up-to-date view, before anything else changes,   *)
(* removes that node alone: no node below it and no session's place.       *)
Spares ==
    \A c \in cmds \ cmds' :
        c.op = "deleteNode" /\ c.basis = <<store>> /\ store' # store =>
            store' = [store EXCEPT !.nodes = Restrict(@, DOMAIN @ \ {c.path})]
DeleteSpares == [][Spares]_dashVars
=============================================================================
