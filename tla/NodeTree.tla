------------------------------ MODULE NodeTree ------------------------------
(***************************************************************************)
(* The project tree of one daemon: the nodes, this host's directory of     *)
(* each (node_host_paths) and the node each session is filed under.  The   *)
(* three tables are written statement by statement, without a transaction, *)
(* by the API of the tree (save, create a project, delete, move) and by    *)
(* whoever files a session: its own events and the scan.                   *)
(***************************************************************************)
EXTENDS TreePaths, FiniteSets

CONSTANTS
    Ids,            \* sessions
    Paths,          \* paths of nodes that requests name
    Dirs,           \* directories that projects are created in
    Cwd,            \* the working directory of each session
    MaxRequests,    \* bound on requests to the tree
    Parties         \* bound on writers at work at one time

VARIABLES
    nodes,      \* tree_nodes that are not deleted: path -> directory, <<>> if it has none
    dirs,       \* node_host_paths of this host: path -> directory
    rows,       \* the path of each session in the table, <<>> if it is unassigned
    request,    \* the request at work, by its next statement
    filing,     \* sessions being filed: [id, path]
    requests,   \* requests so far
    removed,    \* paths deleted or moved away, nothing saved, moved or filed by hand there since
    torn        \* a move has failed after its first statements

treeVars == <<nodes, dirs, rows, request, filing, requests, removed, torn>>

Quiet == [op |-> "none"]
Present == DOMAIN rows
Within(table, p) == {q \in DOMAIN table : In(q, p)}
Put(table, p, d) == [q \in DOMAIN table \cup {p} |-> IF q = p THEN d ELSE table[q]]
Over(new, table) ==
    [q \in DOMAIN new \cup DOMAIN table |-> IF q \in DOMAIN new THEN new[q] ELSE table[q]]
Without(table, gone) == Restrict(table, DOMAIN table \ gone)

(***************************************************************************)
(* resolveSessionNodePath: the deepest directory that holds cwd, of a node *)
(* or of this host; else the first node, in the order of the paths, whose  *)
(* name occurs in cwd; else a name on the path of one, alone.              *)
(***************************************************************************)
Holding(table, cwd) == {p \in DOMAIN table : table[p] # <<>> /\ In(cwd, table[p])}
Deepest(table, cwd) ==
    FirstOf({p \in Holding(table, cwd) :
               \A q \in Holding(table, cwd) : Len(table[q]) <= Len(table[p])})
ByName(cwd) == {p \in DOMAIN nodes : Last(p) \in Range(cwd)}
ByGroup(cwd) == {p \in DOMAIN nodes : Range(p) \cap Range(cwd) # {}}
GroupName(p, cwd) == SelectInSeq(p, LAMBDA n : n \in Range(cwd))

Resolve(cwd) ==
    LET deeper == {p \in Holding(dirs, cwd) :
                     \A q \in Holding(nodes, cwd) : Len(nodes[q]) < Len(dirs[p])}
    IN  IF nodes = <<>> THEN <<>>
        ELSE IF deeper # {} THEN Deepest(dirs, cwd)
        ELSE IF Holding(nodes, cwd) # {} THEN Deepest(nodes, cwd)
        ELSE IF ByName(cwd) # {} THEN FirstOf(ByName(cwd))
        ELSE IF ByGroup(cwd) # {} THEN
            LET p == FirstOf(ByGroup(cwd)) IN <<p[GroupName(p, cwd)]>>
        ELSE <<>>

-----------------------------------------------------------------------------
TreeInit ==
    /\ nodes = <<>> /\ dirs = <<>> /\ rows = <<>>
    /\ request = Quiet /\ filing = {} /\ requests = 0 /\ removed = {} /\ torn = FALSE

Admit == Cardinality(filing) + (IF request = Quiet THEN 0 ELSE 1) < Parties
Request(r) ==
    /\ request = Quiet /\ Admit /\ requests < MaxRequests
    /\ requests' = requests + 1 /\ request' = r

(***************************************************************************)
(* handleNodes POST and handleCreateProject save the node and this host's  *)
(* directory; a project's directory also binds the sessions in it, unless  *)
(* they are filed under a longer path.                                     *)
(***************************************************************************)
SaveNode(p, d, op) ==
    /\ Request(IF d = <<>> THEN Quiet ELSE [op |-> op, path |-> p, dir |-> d])
    /\ nodes' = Put(nodes, p, d)
    /\ UNCHANGED <<dirs, rows, filing, torn>>
    /\ removed' = removed \ Groups({p})

SaveNodeHostPath ==
    /\ request.op \in {"save", "create"}
    /\ dirs' = Put(dirs, request.path, request.dir)
    /\ request' = IF request.op = "create" THEN [request EXCEPT !.op = "bind"] ELSE Quiet
    /\ UNCHANGED <<nodes, rows, filing, requests, removed, torn>>

Bound(i) == In(Cwd[i], request.dir) /\ (rows[i] = <<>> \/ Len(request.path) >= Len(rows[i]))
BindSessions ==
    /\ request.op = "bind"
    /\ rows' = [i \in Present |-> IF Bound(i) THEN request.path ELSE rows[i]]
    /\ request' = Quiet
    /\ UNCHANGED <<nodes, dirs, filing, requests, removed, torn>>

(* DeleteNode: the subtree, then its sessions, then its directories. *)
DeleteNode(p) ==
    /\ Request([op |-> "unassign", path |-> p])
    /\ nodes' = Without(nodes, Within(nodes, p))
    /\ UNCHANGED <<dirs, rows, filing, torn>>
    /\ removed' = removed \cup Within(nodes, p)

UnassignSessions ==
    /\ request.op = "unassign"
    /\ rows' = [i \in Present |-> IF In(rows[i], request.path) THEN <<>> ELSE rows[i]]
    /\ request' = [request EXCEPT !.op = "forget"]
    /\ UNCHANGED <<nodes, dirs, filing, requests, removed, torn>>

ForgetDirs ==
    /\ request.op = "forget"
    /\ dirs' = Without(dirs, Within(dirs, request.path))
    /\ request' = Quiet
    /\ UNCHANGED <<nodes, rows, filing, requests, removed, torn>>

(***************************************************************************)
(* MoveNode: the nodes of the subtree are read, deleted, and saved under   *)
(* their new paths; then the directories, unless one is in the way (the    *)
(* request fails and the sessions stay behind); then the sessions.         *)
(***************************************************************************)
Moved(table, old, new) ==
    LET moving == Within(table, old)
    IN  [q \in {Rebase(p, old, new) : p \in moving} |->
           table[CHOOSE p \in moving : Rebase(p, old, new) = q]]

MoveNode(old, new) ==
    /\ Request([op |-> "movedirs", path |-> old, to |-> new])
    /\ nodes' = Over(Moved(nodes, old, new), Without(nodes, Within(nodes, old)))
    /\ UNCHANGED <<dirs, rows, filing, torn>>
    /\ removed' = (removed \cup Within(nodes, old)) \ Groups({new} \cup DOMAIN Moved(nodes, old, new))

(* Rows of the subtree itself are in the way or not by their order. *)
MayClash == DOMAIN Moved(dirs, request.path, request.to) \cap DOMAIN dirs
MustClash == MayClash \ Within(dirs, request.path)
MoveDirs ==
    /\ request.op = "movedirs"
    /\ \/ /\ MayClash # {} /\ request.to # request.path
          /\ request' = Quiet /\ torn' = TRUE
          /\ UNCHANGED dirs
       \/ /\ MustClash = {}
          /\ dirs' = Over(Moved(dirs, request.path, request.to),
                          Without(dirs, Within(dirs, request.path)))
          /\ request' = [request EXCEPT !.op = "movesessions"]
          /\ UNCHANGED torn
    /\ UNCHANGED <<nodes, rows, filing, requests, removed>>

MovedTo(i) == Rebase(rows[i], request.path, request.to)
MoveSessions ==
    LET moving == {i \in Present : In(rows[i], request.path)}
    IN  /\ request.op = "movesessions"
        /\ rows' = [i \in Present |-> IF i \in moving THEN MovedTo(i) ELSE rows[i]]
        /\ removed' = removed \ {MovedTo(i) : i \in moving}
        /\ request' = Quiet
        /\ UNCHANGED <<nodes, dirs, filing, requests, torn>>

(* MoveSessionNode: the user files a session under any path, whether there *)
(* is a node or not.                                                       *)
MoveSession(i, p) ==
    /\ Admit /\ i \in Present /\ requests < MaxRequests
    /\ requests' = requests + 1
    /\ rows' = [rows EXCEPT ![i] = p]
    /\ removed' = removed \ {p}
    /\ UNCHANGED <<nodes, dirs, request, filing, torn>>

(***************************************************************************)
(* A new session, or one without a node, is filed where its directory      *)
(* says, by its own events and by the scan: resolved, then saved as a      *)
(* whole row.                                                              *)
(***************************************************************************)
File(i) ==
    /\ Admit /\ \A x \in filing : x.id # i
    /\ i \in Present => rows[i] = <<>>
    /\ filing' = filing \cup {[id |-> i, path |-> Resolve(Cwd[i])]}
    /\ UNCHANGED <<nodes, dirs, rows, request, requests, removed, torn>>

SaveFiled(x) ==
    /\ rows' = Put(rows, x.id, x.path)
    /\ filing' = filing \ {x}
    /\ UNCHANGED <<nodes, dirs, request, requests, removed, torn>>

TreeNext ==
    \/ \E p \in Paths, d \in Dirs : SaveNode(p, d, "create")
    \/ \E p \in Paths, d \in Dirs \cup {<<>>} : SaveNode(p, d, "save")
    \/ SaveNodeHostPath
    \/ BindSessions
    \/ \E p \in Paths : DeleteNode(p)
    \/ UnassignSessions
    \/ ForgetDirs
    \/ \E p, q \in Paths : MoveNode(p, q)
    \/ MoveDirs
    \/ MoveSessions
    \/ \E i \in Ids, p \in Paths \cup {<<>>} : MoveSession(i, p)
    \/ \E i \in Ids : File(i)
    \/ \E x \in filing : SaveFiled(x)

-----------------------------------------------------------------------------
TreeTypeOK ==
    /\ \A p \in DOMAIN nodes : nodes[p] \in Dirs \cup {<<>>}
    /\ \A p \in DOMAIN dirs : dirs[p] \in Dirs
    /\ DOMAIN rows \subseteq Ids /\ filing \subseteq [id : Ids, path : {x.path : x \in filing}]
    /\ request.op \in {"none", "save", "create", "bind", "unassign", "forget",
                       "movedirs", "movesessions"}
    /\ requests \in 0 .. MaxRequests

(* Between requests no session is filed under a path that was deleted or   *)
(* moved away, unless the path or one below it was saved again, a group    *)
(* was moved there or the user filed a session there by hand, and every    *)
(* directory belongs to a node: the statements that write the three tables *)
(* one after the other leave no session in a group that is gone, and no    *)
(* directory that files a later one there.                                 *)
Housed ==
    request = Quiet /\ filing = {} /\ ~torn =>
        /\ \A i \in Present : rows[i] \notin removed
        /\ DOMAIN dirs \subseteq DOMAIN nodes

TreeSpec == TreeInit /\ [][TreeNext]_treeVars
=============================================================================
