--------------------------- MODULE ServicesProofs ---------------------------
(***************************************************************************)
(* Theorems about Services: the properties that hold of whichever          *)
(* component a behaviour is one of (TypesOK, RowTrue, FleetTrue,           *)
(* SafeUpdates, DeleteSpares).                                             *)
(*                                                                         *)
(* RowProofs has the components that keep a session's row; here are the    *)
(* others.  Of the dashboard, for any tree, sessions and keys: it shows    *)
(* each session once and every change that it has heard of, and deleting a *)
(* group on an up-to-date view takes nothing else with it.  Of updates,    *)
(* for any versions, binaries and hosts, and updates of which no two are   *)
(* of one host at one time: a file that is partly written never takes a    *)
(* binary's place, what counts as updated is, and no update of all hosts   *)
(* takes one of them back.  Of routing, for any fleet and requests: a      *)
(* spawn is passed on once at most and goes to a host that has what it     *)
(* needs, and hosts that are alike share the work by weight.               *)
(***************************************************************************)
EXTENDS Services, RowProofs

-----------------------------------------------------------------------------
(***************************************************************************)
(* The dashboard.                                                          *)
(***************************************************************************)
\* Rows, nodes and what the dashboard keeps are records; of commands, what
\* they ask for counts.
Records ==
  /\ store = [rows |-> store.rows, nodes |-> store.nodes]
  /\ store.rows = [i \in DOMAIN store.rows |-> store.rows[i]]
  /\ \A i \in DOMAIN store.rows : "path" \in DOMAIN store.rows[i]
  /\ \A f \in {"list", "nodes", "sel", "archivedView", "supOnly", "collapsed", "dialog"} :
       f \in DOMAIN tui
  /\ tui = [f \in DOMAIN tui |-> tui[f]]
  /\ "op" \in DOMAIN tui.dialog

\* Nothing but the node itself is at or below a path.
Lone(s, p) ==
  /\ \A q \in DOMAIN s.nodes : Board!In(q, p) => q = p
  /\ \A i \in DOMAIN s.rows : s.rows[i].path = <<>> \/ ~Board!In(s.rows[i].path, p)

Meant ==
  \A c \in cmds :
    /\ c.op = "deleteNode" => \A s : c.basis = <<s>> => Lone(s, c.path)
    /\ c.op = "read" => \A d \in c.next : d.op = "exec"

BoardIInv == Records /\ Meant

-----------------------------------------------------------------------------
LEMMA BoardKept ==
  ASSUME BoardIInv, UNCHANGED <<store, tui>>, \A c \in cmds' \ cmds : c.op \notin {"deleteNode", "read"}
  PROVE  BoardIInv'
BY DEF BoardIInv, Records, Meant

\* A step of the dashboard alone.
LEMMA Looks ==
  ASSUME BoardIInv, UNCHANGED store, NEW t, Board!Show(t), t = [f \in DOMAIN t |-> t[f]],
         DOMAIN t = DOMAIN tui, "op" \in DOMAIN t.dialog,
         \A c \in cmds' \ cmds :
           /\ c.op = "deleteNode" => \A s : c.basis = <<s>> => Lone(s, c.path)
           /\ c.op = "read" => \A d \in c.next : d.op = "exec"
  PROVE  BoardIInv'
<1>1. tui' = [t EXCEPT !.list = Board!Merged(t.list)]
  BY DEF Board!Show
<1>2. DOMAIN tui' = DOMAIN tui /\ tui' = [f \in DOMAIN tui' |-> tui'[f]] /\ tui'.dialog = t.dialog
  BY <1>1 DEF BoardIInv, Records
<1>3. Records'
  BY <1>2 DEF BoardIInv, Records
<1>4. Meant'
  BY DEF BoardIInv, Meant
<1> QED BY <1>3, <1>4 DEF BoardIInv

LEMMA StepChanges ==
  ASSUME BoardIInv, Board!Changes
  PROVE  BoardIInv'
<1>1. UNCHANGED <<tui, cmds>>
  BY DEF Board!Changes
<1>2. ASSUME NEW table, NEW tree, NEW copies, NEW silent, Board!Write(table, tree, copies, silent),
             table = [i \in DOMAIN table |-> table[i]],
             \A i \in DOMAIN table : "path" \in DOMAIN table[i]
      PROVE  BoardIInv'
  <2>1. store' = [rows |-> table, nodes |-> tree]
    BY <1>2 DEF Board!Write
  <2>2. Records'
    BY <1>1, <1>2, <2>1 DEF BoardIInv, Records
  <2> QED BY <1>1, <2>2 DEF BoardIInv, Meant
<1>3. CASE \E i \in Sessions : Board!Change(i)
  <2>0. PICK i \in Board!Present : Board!Change(i)
    BY <1>3 DEF Board!Change
  <2>1. PICK r \in Board!Variants(store.rows[i]) :
          Board!Write([store.rows EXCEPT ![i] = r], store.nodes, <<r>>, {})
    BY <2>0 DEF Board!Change
  <2>2. "path" \in DOMAIN r
    BY <2>1 DEF Board!Variants, BoardIInv, Records, Board!Present
  <2> DEFINE table == [store.rows EXCEPT ![i] = r]
  <2>3. DOMAIN table = Board!Present /\ table = [k \in DOMAIN table |-> table[k]]
        /\ \A k \in DOMAIN table : "path" \in DOMAIN table[k]
    BY <2>1, <2>2 DEF BoardIInv, Records, Board!Present
  <2> QED BY <1>2, <2>1, <2>3
<1>4. CASE \E i \in Sessions, old \in Sessions \cup {NoId} : Board!Arrive(i, old)
  <2> DEFINE R(i, old, p) == [Board!Fresh EXCEPT !.id = i, !.old = old, !.path = p]
             Rs(i, old, p) == [k \in {i} \cup (Board!Present \ {old}) |->
                                 IF k = i THEN R(i, old, p) ELSE store.rows[k]]
  <2>1. PICK i \in Sessions : \E old \in Sessions \cup {NoId} : Board!Arrive(i, old)
    BY <1>4
  <2>2. PICK old \in Sessions \cup {NoId} : Board!Arrive(i, old)
    BY <2>1
  <2>3. PICK p \in DOMAIN store.nodes \cup {<<>>} :
          Board!Write(Rs(i, old, p), store.nodes, <<R(i, old, p)>>, {})
    BY <2>2 DEF Board!Arrive
  <2>4. "path" \in DOMAIN R(i, old, p)
    BY DEF Board!Fresh
  <2> DEFINE r == R(i, old, p)
             table == Rs(i, old, p)
  <2>5. DOMAIN table = {i} \cup (Board!Present \ {old}) /\ table = [k \in DOMAIN table |-> table[k]]
    OBVIOUS
  <2>6. ASSUME NEW k \in DOMAIN table
        PROVE  "path" \in DOMAIN table[k]
    <3>1. CASE k = i
      BY <2>4, <2>5, <3>1
    <3>2. CASE k # i
      BY <2>5, <2>6, <3>2 DEF BoardIInv, Records, Board!Present
    <3> QED BY <3>1, <3>2
  <2> HIDE DEF r, table
  <2> QED BY <1>2, <2>3, <2>5, <2>6 DEF r, table
<1>5. CASE \E p \in Paths : Board!PlantNode(p)
  BY <1>2, <1>5 DEF Board!PlantNode, BoardIInv, Records
<1> QED BY <1>3, <1>4, <1>5 DEF Board!Changes

\* Commands and answers, and the handling of an event.
LEMMA StepAnswers ==
  ASSUME BoardIInv, Board!Handle \/ Board!Detach \/ \E c \in cmds : Board!Answer(c)
  PROVE  BoardIInv'
<1>1. CASE Board!Handle
  <2>1. UNCHANGED <<store, cmds>> /\ \E l : Board!Show([tui EXCEPT !.list = l])
    BY <1>1 DEF Board!Handle
  <2>2. PICK l : Board!Show([tui EXCEPT !.list = l])
    BY <2>1
  <2> DEFINE t == [tui EXCEPT !.list = l]
  <2>3. t = [f \in DOMAIN t |-> t[f]] /\ DOMAIN t = DOMAIN tui /\ t.dialog = tui.dialog
    BY DEF BoardIInv, Records
  <2> HIDE DEF t
  <2> QED BY <2>1, <2>2, <2>3, Looks DEF BoardIInv, Records, t
<1>2. CASE Board!Detach
  <2> DEFINE t == [tui EXCEPT !.dialog = [op |-> NoId]]
  <2>1. UNCHANGED store /\ Board!Show(t) /\ cmds' = cmds \cup {[op |-> "fetch"]}
    BY <1>2 DEF Board!Detach
  <2>2. t = [f \in DOMAIN t |-> t[f]] /\ DOMAIN t = DOMAIN tui /\ t.dialog = [op |-> NoId]
    BY DEF BoardIInv, Records
  <2> HIDE DEF t
  <2>3. \A c \in cmds' \ cmds : c.op = "fetch"
    BY <2>1
  <2>4. \A c \in cmds' \ cmds : c.op # "deleteNode" /\ c.op # "read"
    BY <2>3
  <2>5. "op" \in DOMAIN t.dialog
    BY <2>2
  <2> QED BY <2>1, <2>2, <2>4, <2>5, Looks
<1>3. CASE \E c \in cmds : Board!Answer(c)
  <2>1. UNCHANGED store /\ cmds' \subseteq cmds
    BY <1>3 DEF Board!Answer
  <2>2. \/ \E l, n : Board!Show([tui EXCEPT !.list = l, !.sel = n])
        \/ \E n : Board!Show([tui EXCEPT !.nodes = n])
        \/ Board!Show([tui EXCEPT !.dialog = [op |-> "attached"]])
    BY <1>3 DEF Board!Answer
  <2>3. ASSUME NEW t, Board!Show(t), DOMAIN t = DOMAIN tui, t = [f \in DOMAIN t |-> t[f]],
               t.dialog = tui.dialog \/ t.dialog = [op |-> "attached"]
        PROVE  BoardIInv'
    BY <2>1, <2>3, Looks DEF BoardIInv, Records
  <2>4. CASE \E l, n : Board!Show([tui EXCEPT !.list = l, !.sel = n])
    <3>1. PICK l, n : Board!Show([tui EXCEPT !.list = l, !.sel = n])
      BY <2>4
    <3> DEFINE t == [tui EXCEPT !.list = l, !.sel = n]
    <3>2. t = [f \in DOMAIN t |-> t[f]] /\ DOMAIN t = DOMAIN tui /\ t.dialog = tui.dialog
      BY DEF BoardIInv, Records
    <3> HIDE DEF t
    <3> QED BY <2>3, <3>1, <3>2 DEF t
  <2>5. CASE \E n : Board!Show([tui EXCEPT !.nodes = n])
    <3>1. PICK n : Board!Show([tui EXCEPT !.nodes = n])
      BY <2>5
    <3> DEFINE t == [tui EXCEPT !.nodes = n]
    <3>2. t = [f \in DOMAIN t |-> t[f]] /\ DOMAIN t = DOMAIN tui /\ t.dialog = tui.dialog
      BY DEF BoardIInv, Records
    <3> HIDE DEF t
    <3> QED BY <2>3, <3>1, <3>2 DEF t
  <2>6. CASE Board!Show([tui EXCEPT !.dialog = [op |-> "attached"]])
    <3> DEFINE t == [tui EXCEPT !.dialog = [op |-> "attached"]]
    <3>2. t = [f \in DOMAIN t |-> t[f]] /\ DOMAIN t = DOMAIN tui /\ t.dialog = [op |-> "attached"]
      BY DEF BoardIInv, Records
    <3> HIDE DEF t
    <3> QED BY <2>3, <2>6, <3>2 DEF t
  <2> QED BY <2>2, <2>4, <2>5, <2>6
<1> QED BY <1>1, <1>2, <1>3

\* What may become of the dashboard when a key is pressed.
Fits(t) ==
  /\ DOMAIN t = DOMAIN tui /\ t = [f \in DOMAIN t |-> t[f]]
  /\ "op" \in DOMAIN t.dialog
Sound(set) ==
  \A c \in set :
    /\ c.op = "deleteNode" => \A s : c.basis = <<s>> => Lone(s, c.path)
    /\ c.op = "read" => \A d \in c.next : d.op = "exec"

LEMMA Pressed ==
  ASSUME BoardIInv, UNCHANGED store, NEW t, NEW new, Board!Show(t), cmds' = cmds \cup new, Fits(t),
         Sound(new)
  PROVE  BoardIInv'
BY Looks DEF Fits, Sound

LEMMA FitsOn ==
  ASSUME BoardIInv
  PROVE  /\ Fits(tui) /\ Fits(Board!Read(tui))
         /\ \A t : Fits(t) => /\ \A v : Fits([t EXCEPT !.sel = v])
                              /\ \A v : Fits([t EXCEPT !.collapsed = v])
                              /\ \A v, w : Fits([t EXCEPT !.archivedView = v, !.sel = w])
                              /\ \A v, w : Fits([t EXCEPT !.supOnly = v, !.sel = w])
                              /\ \A d : "op" \in DOMAIN d => Fits([t EXCEPT !.dialog = d])
<1>1. Fits(tui)
  BY DEF BoardIInv, Records, Fits
<1>2. Fits(Board!Read(tui))
  <2>1. CASE Board!Read(tui) = tui
    BY <1>1, <2>1
  <2>2. CASE \E l : Board!Read(tui) = [tui EXCEPT !.list = l]
    BY <2>2 DEF BoardIInv, Records, Fits
  <2>3. Board!Read(tui) = tui \/ \E l : Board!Read(tui) = [tui EXCEPT !.list = l]
    BY DEF Board!Read
  <2> QED BY <2>1, <2>2, <2>3
<1>3. ASSUME NEW t, Fits(t)
      PROVE  /\ \A v : Fits([t EXCEPT !.sel = v])
             /\ \A v : Fits([t EXCEPT !.collapsed = v])
             /\ \A v, w : Fits([t EXCEPT !.archivedView = v, !.sel = w])
             /\ \A v, w : Fits([t EXCEPT !.supOnly = v, !.sel = w])
             /\ \A d : "op" \in DOMAIN d => Fits([t EXCEPT !.dialog = d])
  BY <1>3 DEF BoardIInv, Records, Fits
<1> QED BY <1>1, <1>2, <1>3

LEMMA OnPress ==
  ASSUME BoardIInv, UNCHANGED store, NEW t, NEW new, Board!Press(t, new), Fits(t), Sound(new)
  PROVE  BoardIInv'
BY Pressed DEF Board!Press

\* What the keys send: a group is deleted if the copies, when they are the
\* daemon's, show nothing in it.
LEMMA SoundOn ==
  /\ Sound({})
  /\ Sound({[op |-> "exec"]})
  /\ \A t : Sound(Board!ReadCmds(t)) /\ Sound(Board!ReadCmd(t, {[op |-> "exec"]}))
  /\ \A c : c.op \notin {"deleteNode", "read"} => Sound({c})
  /\ \A p : ~Board!Occupied(tui, p) =>
       Sound({[op |-> "deleteNode", path |-> p, basis |-> IF Board!UpToDate THEN <<store>> ELSE <<>>]})
<1>1. Sound({}) /\ Sound({[op |-> "exec"]}) /\ \A c : c.op \notin {"deleteNode", "read"} => Sound({c})
  BY DEF Sound
<1>2. ASSUME NEW t
      PROVE  Sound(Board!ReadCmds(t)) /\ Sound(Board!ReadCmd(t, {[op |-> "exec"]}))
  BY DEF Sound, Board!ReadCmds, Board!ReadCmd
<1>3. ASSUME NEW p, ~Board!Occupied(tui, p)
      PROVE  Sound({[op |-> "deleteNode", path |-> p, basis |-> IF Board!UpToDate THEN <<store>> ELSE <<>>]})
  <2>1. SUFFICES ASSUME Board!UpToDate
                 PROVE  Lone(store, p)
    BY DEF Sound
  <2>2. \A q \in DOMAIN store.nodes : Board!In(q, p) => q = p
    BY <1>3, <2>1 DEF Board!UpToDate, Board!Occupied, Board!NodeBelow
  <2>3. ASSUME NEW i \in DOMAIN store.rows
        PROVE  store.rows[i].path = <<>> \/ ~Board!In(store.rows[i].path, p)
    <3>1. store.rows[i] \in Board!Range(tui.list)
      BY <2>1 DEF Board!UpToDate, Board!Copy, Board!Present
    <3> QED BY <1>3, <3>1 DEF Board!Occupied
  <2> QED BY <2>2, <2>3 DEF Lone
<1> QED BY <1>1, <1>2, <1>3

LEMMA StepKeys ==
  ASSUME BoardIInv, Board!Keys
  PROVE  BoardIInv'
<1> USE FitsOn, SoundOn
<1>0. UNCHANGED store
  BY DEF Board!Keys
<1>1. CASE Board!InDialog
  <2> DEFINE d == tui.dialog
             closed == [tui EXCEPT !.dialog = [op |-> NoId]]
  <2>1. Fits(closed)
    OBVIOUS
  <2>2. CASE Board!Press(closed, {})
    BY <1>0, <2>1, <2>2, OnPress
  <2>3. CASE d.op = "restart" /\ Board!Press(closed, {d})
    BY <1>0, <2>1, <2>3, OnPress
  <2>4. CASE d.op \in {"move", "moveNode"} /\ \E p \in Paths : Board!Press(closed, {[d EXCEPT !.to = p]})
    <3>1. PICK p \in Paths : Board!Press(closed, {[d EXCEPT !.to = p]})
      BY <2>4
    <3>2. "op" \in DOMAIN d
      BY DEF BoardIInv, Records
    <3>3. [d EXCEPT !.to = p].op = d.op
      BY <3>2
    <3>4. Sound({[d EXCEPT !.to = p]})
      BY <2>4, <3>3
    <3> QED BY <1>0, <2>1, <3>1, <3>4, OnPress
  <2> QED BY <1>1, <2>2, <2>3, <2>4 DEF Board!InDialog
<1>2. CASE Board!UpDown \/ Board!SwitchView \/ Board!SwitchFilter
  <2>1. ASSUME NEW n, Board!Move(n)
        PROVE  BoardIInv'
    BY <1>0, <2>1, OnPress DEF Board!Move
  <2>2. CASE Board!UpDown
    BY <2>1, <2>2 DEF Board!UpDown
  <2>3. CASE Board!SwitchView
    BY <1>0, <2>3, OnPress DEF Board!SwitchView
  <2>4. CASE Board!SwitchFilter
    BY <1>0, <2>4, OnPress DEF Board!SwitchFilter
  <2> QED BY <1>2, <2>2, <2>3, <2>4
<1>3. ASSUME NEW c, Board!Send(c), c.op \notin {"deleteNode", "read"}
      PROVE  BoardIInv'
  BY <1>0, <1>3, OnPress DEF Board!Send
<1>4. ASSUME NEW d, Board!Ask(d), "op" \in DOMAIN d
      PROVE  BoardIInv'
  BY <1>0, <1>4, OnPress DEF Board!Ask
<1>5. CASE Board!Press(tui, {})
  BY <1>0, <1>5, OnPress
<1>6. ASSUME NEW p, Board!OnGroup(p)
      PROVE  BoardIInv'
  <2>1. CASE Board!Toggle(p)
    BY <1>0, <2>1, OnPress DEF Board!Toggle
  <2>2. CASE Board!DeleteGroup(p)
    BY <1>0, <1>5, <2>2, OnPress DEF Board!DeleteGroup, Board!Send
  <2>3. CASE Board!Ask([op |-> "moveNode", path |-> p, to |-> <<>>])
    BY <1>4, <2>3
  <2> QED BY <1>6, <2>1, <2>2, <2>3 DEF Board!OnGroup
<1>7. ASSUME NEW i, Board!OnSession(i)
      PROVE  BoardIInv'
  <2> DEFINE c == Board!Selected(tui)
  <2>1. CASE Board!Attach(i)
    BY <1>0, <2>1, Pressed DEF Board!Attach
  <2>2. CASE Board!Ask([op |-> "restart", id |-> i]) \/ Board!Ask([op |-> "move", id |-> i, to |-> <<>>])
    BY <1>4, <2>2
  <2>3. CASE \/ Board!Send([op |-> "archive", id |-> i, to |-> ~c.archived])
             \/ Board!Send([op |-> "kill", id |-> i])
             \/ Board!Send([op |-> "delete", id |-> i])
             \/ Board!Send([op |-> "restart", id |-> i])
    BY <1>3, <2>3
  <2> HIDE DEF c
  <2> QED BY <1>7, <2>1, <2>2, <2>3 DEF Board!OnSession, c
<1>8. CASE Board!OnCursor
  BY <1>5, <1>6, <1>7, <1>8 DEF Board!OnCursor
<1> QED BY <1>1, <1>2, <1>8 DEF Board!Keys

LEMMA WriteKeeps ==
  ASSUME BoardIInv, UNCHANGED tui, NEW table, NEW tree, NEW copies, NEW silent,
         Board!Write(table, tree, copies, silent),
         table = [i \in DOMAIN table |-> table[i]], \A i \in DOMAIN table : "path" \in DOMAIN table[i],
         \A c \in cmds' \ cmds : c.op \notin {"deleteNode", "read"}
  PROVE  BoardIInv'
<1>1. store' = [rows |-> table, nodes |-> tree]
  BY DEF Board!Write
<1>2. Records'
  BY <1>1 DEF BoardIInv, Records
<1> QED BY <1>2 DEF BoardIInv, Meant

LEMMA StepPerform ==
  ASSUME BoardIInv, NEW c \in cmds, Board!Perform(c)
  PROVE  BoardIInv'
<1>1. UNCHANGED tui /\ cmds' = (cmds \ {c}) \cup Board!Follow(c)
  BY DEF Board!Perform
<1>2. \A d \in cmds' \ cmds : d.op \notin {"deleteNode", "read"}
  <2>1. \A d \in Board!Follow(c) : d.op \in {"exec", "fetch", "nodes"}
    BY DEF Board!Follow, BoardIInv, Meant
  <2> QED BY <1>1, <2>1
<1>3. ASSUME NEW table, NEW tree, NEW copies, NEW silent, Board!Write(table, tree, copies, silent),
             table = [i \in DOMAIN table |-> table[i]], \A i \in DOMAIN table : "path" \in DOMAIN table[i]
      PROVE  BoardIInv'
  BY <1>1, <1>2, <1>3, WriteKeeps
<1>4. CASE c.id \in Board!Present /\ Board!SessionCommand(c)
  <2>1. ASSUME NEW r, Board!Set(c.id, r), "path" \in DOMAIN r
        PROVE  BoardIInv'
    <3> DEFINE table == [store.rows EXCEPT ![c.id] = r]
    <3>1. table = [i \in DOMAIN table |-> table[i]] /\ \A i \in DOMAIN table : "path" \in DOMAIN table[i]
      BY <1>4, <2>1 DEF BoardIInv, Records, Board!Present
    <3>2. Board!Write(table, store.nodes, <<r>>, {})
      BY <2>1 DEF Board!Set
    <3> HIDE DEF table
    <3> QED BY <1>3, <3>1, <3>2
  <2> DEFINE r == store.rows[c.id]
  <2>2. "path" \in DOMAIN r
    BY <1>4 DEF BoardIInv, Records, Board!Present
  <2>3. CASE \/ Board!Set(c.id, [r EXCEPT !.unread = FALSE])
             \/ Board!Set(c.id, [r EXCEPT !.archived = c.to])
             \/ Board!Set(c.id, [r EXCEPT !.ended = TRUE])
             \/ Board!Set(c.id, [r EXCEPT !.ended = FALSE])
             \/ Board!Set(c.id, [r EXCEPT !.path = c.to])
    BY <2>1, <2>2, <2>3
  <2>4. CASE Board!Write(Board!Restrict(store.rows, Board!Present \ {c.id}), store.nodes, <<[r EXCEPT !.ended = TRUE]>>, {})
    <3> DEFINE table == Board!Restrict(store.rows, Board!Present \ {c.id})
    <3>1. table = [i \in DOMAIN table |-> table[i]] /\ \A i \in DOMAIN table : "path" \in DOMAIN table[i]
      BY DEF BoardIInv, Records, Board!Present, Board!Restrict
    <3> HIDE DEF table
    <3> QED BY <1>3, <2>4, <3>1 DEF table
  <2> HIDE DEF r
  <2> QED BY <1>4, <2>3, <2>4 DEF Board!SessionCommand, r
<1>5. ASSUME NEW to
      PROVE  LET table == Board!Refiled(c.path, to)
             IN  /\ table = [i \in DOMAIN table |-> table[i]]
                 /\ \A i \in DOMAIN table : "path" \in DOMAIN table[i]
  BY DEF Board!Refiled, BoardIInv, Records, Board!Present
<1>6. CASE Board!NodeCommand(c)
  <2>1. PICK to, tree : Board!Write(Board!Refiled(c.path, to), tree, <<>>, Board!Filed(c.path))
    BY <1>6 DEF Board!NodeCommand
  <2> QED BY <1>3, <1>5, <2>1
<1> QED BY <1>4, <1>6 DEF Board!Perform

LEMMA BoardInitially ==
  ASSUME Board!Init
  PROVE  BoardIInv
<1>1. store = [rows |-> <<>>, nodes |-> <<>>]
  BY DEF Board!Init
<1>2. store.rows = [i \in {} |-> NoId] /\ store.nodes = <<>>
  BY <1>1
<1>3. /\ store = [rows |-> store.rows, nodes |-> store.nodes]
      /\ store.rows = [i \in DOMAIN store.rows |-> store.rows[i]]
      /\ \A i \in DOMAIN store.rows : "path" \in DOMAIN store.rows[i]
  BY <1>1, <1>2
<1>4. /\ \A f \in {"list", "nodes", "sel", "archivedView", "supOnly", "collapsed", "dialog"} :
           f \in DOMAIN tui
      /\ tui = [f \in DOMAIN tui |-> tui[f]]
      /\ "op" \in DOMAIN tui.dialog
  BY DEF Board!Init
<1>5. Meant
  BY DEF Board!Init, Meant
<1> QED BY <1>3, <1>4, <1>5 DEF BoardIInv, Records

LEMMA BoardInductive ==
  ASSUME BoardIInv, [Board!Next]_(Board!dashVars)
  PROVE  BoardIInv'
<1>1. CASE Board!Register \/ Board!SendListing \/ Board!SendEvent \/ Board!Disconnect \/ UNCHANGED Board!dashVars
  <2>1. UNCHANGED <<store, tui, cmds>>
    BY <1>1 DEF Board!Register, Board!SendListing, Board!SendEvent, Board!Disconnect, Board!dashVars
  <2> QED BY <2>1, BoardKept
<1>2. CASE \E c \in cmds : Board!Fail(c) \/ Board!Fetch(c)
  <2>1. PICK c \in cmds : Board!Fail(c) \/ Board!Fetch(c)
    BY <1>2
  <2>2. UNCHANGED <<store, tui>>
    BY <2>1 DEF Board!Fail, Board!Fetch
  <2>3. \A d \in cmds' \ cmds : d.op \in {"exec", "sessions", "tree"}
    BY <2>1 DEF Board!Fail, Board!Fetch, BoardIInv, Meant
  <2>4. \A d \in cmds' \ cmds : d.op \notin {"deleteNode", "read"}
    BY <2>3
  <2> QED BY <2>2, <2>4, BoardKept
<1> QED BY <1>1, <1>2, StepChanges, StepAnswers, StepKeys, StepPerform DEF Board!Next

-----------------------------------------------------------------------------
\* Of all steps only the command itself takes it away and changes the rows
\* or the nodes, and at or below its path there is nothing but that node.
LEMMA StepSpares ==
  ASSUME BoardIInv, [Board!Next]_(Board!dashVars)
  PROVE  Board!Spares
<1>1. SUFFICES ASSUME NEW c \in cmds \ cmds', c.op = "deleteNode", c.basis = <<store>>, store' # store
               PROVE  store' = [store EXCEPT !.nodes = Board!Restrict(@, DOMAIN @ \ {c.path})]
  BY DEF Board!Spares
<1>2. Board!Perform(c)
  <2>1. ~UNCHANGED <<store, cmds>> /\ ~UNCHANGED store /\ ~UNCHANGED cmds
    BY <1>1
  <2>2. PICK d \in cmds : Board!Perform(d)
    BY <2>1 DEF Board!Next, Board!Changes, Board!Register, Board!SendListing, Board!SendEvent,
        Board!Disconnect, Board!Handle, Board!Detach, Board!Keys,
                Board!Answer, Board!Fail, Board!Fetch, Board!dashVars
  <2> QED BY <1>1, <2>2 DEF Board!Perform
<1>3. Board!Write(Board!Refiled(c.path, <<>>), Board!Restrict(store.nodes, DOMAIN store.nodes \ Board!Within(c.path)),
            <<>>, Board!Filed(c.path))
  BY <1>1, <1>2 DEF Board!Perform, Board!SessionCommand, Board!NodeCommand
<1>4. Lone(store, c.path)
  BY <1>1 DEF BoardIInv, Meant
<1>5. Board!Refiled(c.path, <<>>) = store.rows
  <2>1. Board!Filed(c.path) = {}
    BY <1>4 DEF Board!Filed, Lone, Board!Present
  <2> QED BY <2>1 DEF Board!Refiled, BoardIInv, Records, Board!Present
<1>6. DOMAIN store.nodes \ Board!Within(c.path) = DOMAIN store.nodes \ {c.path}
  BY <1>4 DEF Board!Within, Lone
<1>7. store' = [rows |-> store.rows, nodes |-> Board!Restrict(store.nodes, DOMAIN store.nodes \ {c.path})]
  BY <1>3, <1>5, <1>6 DEF Board!Write
<1>8. store = [rows |-> store.rows, nodes |-> store.nodes]
  BY DEF BoardIInv, Records
<1> DEFINE rest == Board!Restrict(store.nodes, DOMAIN store.nodes \ {c.path})
<1> HIDE DEF rest
<1>9. [store EXCEPT !.nodes = rest] = [rows |-> store.rows, nodes |-> rest]
  BY <1>8
<1> QED BY <1>7, <1>9 DEF rest

\* Deleting a group in the dashboard, on a view that is up to date, takes
\* no other node and no session with it, whatever the tree and the sessions
\* (DELETE of a group row in tui.go, DeleteNode).
THEOREM Sparing == Board!Spec => Board!DeleteSpares
<1>1. Board!Init => BoardIInv
  BY BoardInitially
<1>2. BoardIInv /\ [Board!Next]_(Board!dashVars) => BoardIInv' /\ Board!Spares
  BY BoardInductive, StepSpares
<1> QED BY <1>1, <1>2, PTL DEF Board!Spec, Board!DeleteSpares

-----------------------------------------------------------------------------

\* A finite set that is ordered has a first element.
LEMMA Foremost ==
    ASSUME NEW S, IsFiniteSet(S), S # {}, NEW R,
           \A a, b, c \in S : <<a, b>> \in R /\ <<b, c>> \in R => <<a, c>> \in R,
           \A a \in S : <<a, a>> \notin R,
           \A a, b \in S : a # b => <<a, b>> \in R \/ <<b, a>> \in R
    PROVE  \E h \in S : \A g \in S \ {h} : <<h, g>> \in R
<1> DEFINE before(h) == {g \in S : <<g, h>> \in R}
           ranks == {Cardinality(before(h)) : h \in S}
<1>1. \A h \in S : IsFiniteSet(before(h)) /\ Cardinality(before(h)) \in Nat
  <2> TAKE h \in S
  <2>1. before(h) \in SUBSET S
    OBVIOUS
  <2> HIDE DEF before
  <2> QED BY <2>1, FS_Subset, FS_CardinalityType
<1>2. PICK n \in ranks : \A m \in ranks : n <= m
  <2>1. ranks \subseteq Nat
    <3>1. ASSUME NEW m \in ranks PROVE  \E h \in S : m = Cardinality(before(h))
      OBVIOUS
    <3> HIDE DEF ranks, before
    <3> QED BY <1>1, <3>1
  <2>2. ranks # {}
    <3>1. PICK h : h \in S
      OBVIOUS
    <3>2. Cardinality(before(h)) \in ranks
      BY <3>1
    <3> QED BY <3>2
  <2> HIDE DEF ranks
  <2> QED BY <2>1, <2>2, Least
<1>3. PICK h \in S : \A g \in S : Cardinality(before(h)) <= Cardinality(before(g))
  <2>1. PICK h \in S : n = Cardinality(before(h))
    BY <1>2
  <2>2. \A g \in S : Cardinality(before(g)) \in ranks
    OBVIOUS
  <2> HIDE DEF ranks, before
  <2> QED BY <1>2, <2>1, <2>2
<1>4. ASSUME NEW g \in S \ {h}, <<h, g>> \notin R PROVE  FALSE
  <2>1. <<g, h>> \in R
    BY <1>4
  <2>2. before(g) \in SUBSET before(h) /\ g \in before(h) /\ g \notin before(g)
    BY <2>1
  <2> HIDE DEF before
  <2>3. Cardinality(before(g)) <= Cardinality(before(h)) /\ before(g) # before(h)
    BY <1>1, <2>2, FS_Subset
  <2>4. Cardinality(before(g)) # Cardinality(before(h))
    BY <1>1, <2>2, <2>3, FS_Subset
  <2> QED BY <1>1, <1>3, <2>3, <2>4
<1> QED BY <1>4

-----------------------------------------------------------------------------
(* What the dashboard shows. *)

IsCopy(c) ==
  /\ c = [id |-> c.id, path |-> c.path, ended |-> c.ended, archived |-> c.archived,
          unread |-> c.unread, old |-> c.old]
  /\ c.id \in Sessions /\ c.ended \in BOOLEAN /\ c.archived \in BOOLEAN /\ c.unread \in BOOLEAN
Stream(s) == s \in Seq(Board!Range(s)) /\ \A k \in DOMAIN s : IsCopy(s[k])

\* The sequences t and s have the same sessions in the same places.
Likewise(t, s) ==
  /\ DOMAIN t = DOMAIN s
  /\ \A k \in DOMAIN s : t[k].id = s[k].id /\ t[k].old = s[k].old

LEMMA Streams ==
  ASSUME NEW s, Stream(s)
  PROVE  /\ Len(s) \in Nat /\ DOMAIN s = 1 .. Len(s)
         /\ s # <<>> => /\ 1 \in DOMAIN s /\ Head(s) = s[1] /\ Stream(Tail(s)) /\ Len(Tail(s)) = Len(s) - 1
                        /\ \A k \in 1 .. Len(s) - 1 : Tail(s)[k] = s[k + 1]
<1>1. s \in Seq(Board!Range(s))
  BY DEF Stream
<1>2. Len(s) \in Nat /\ DOMAIN s = 1 .. Len(s)
  BY <1>1
<1>3. ASSUME s # <<>>
      PROVE  /\ 1 \in DOMAIN s /\ Head(s) = s[1] /\ Stream(Tail(s)) /\ Len(Tail(s)) = Len(s) - 1
             /\ \A k \in 1 .. Len(s) - 1 : Tail(s)[k] = s[k + 1]
  <2> DEFINE t == Tail(s)
  <2>1. /\ t \in Seq(Board!Range(s)) /\ Len(t) = Len(s) - 1 /\ \A k \in 1 .. Len(s) - 1 : t[k] = s[k + 1]
        /\ 1 \in DOMAIN s /\ Head(s) = s[1]
    BY <1>1, <1>3
  <2> HIDE DEF t
  <2>2. DOMAIN t = 1 .. Len(t) /\ Len(t) \in Nat
    BY <2>1
  <2>3. \A k \in DOMAIN t : IsCopy(t[k])
    BY <1>2, <2>1, <2>2 DEF Stream
  <2>4. t \in Seq(Board!Range(t))
    BY <2>1, <2>2 DEF Board!Range
  <2> QED BY <2>1, <2>3, <2>4 DEF Stream, t
<1> QED BY <1>2, <1>3

LEMMA Joins ==
  ASSUME NEW s, Stream(s), NEW t, Stream(t)
  PROVE  /\ Stream(s \o t) /\ Len(s \o t) = Len(s) + Len(t)
         /\ \A k \in 1 .. Len(s) : (s \o t)[k] = s[k]
         /\ \A k \in 1 .. Len(t) : (s \o t)[Len(s) + k] = t[k]
<1> DEFINE S == Board!Range(s) \cup Board!Range(t)
           u == s \o t
<1>1. s \in Seq(S) /\ t \in Seq(S) /\ Len(s) \in Nat /\ Len(t) \in Nat
  BY Streams DEF Stream, Board!Range
<1>2. /\ u \in Seq(S) /\ Len(u) = Len(s) + Len(t)
      /\ \A k \in 1 .. Len(s) : u[k] = s[k]
      /\ \A k \in 1 .. Len(t) : u[Len(s) + k] = t[k]
  BY <1>1
<1> HIDE DEF u
<1>3. DOMAIN u = 1 .. Len(u)
  BY <1>2
<1>4. ASSUME NEW k \in DOMAIN u PROVE  IsCopy(u[k])
  <2>1. CASE k <= Len(s)
    BY <1>1, <1>2, <1>3, <2>1, Streams DEF Stream
  <2>2. CASE k > Len(s)
    <3>1. k - Len(s) \in 1 .. Len(t) /\ Len(s) + (k - Len(s)) = k
      BY <1>1, <1>2, <1>3, <2>2
    <3>2. u[k] = t[k - Len(s)] /\ k - Len(s) \in DOMAIN t
      BY <1>2, <3>1, Streams
    <3> QED BY <3>2 DEF Stream
  <2> QED BY <1>1, <1>2, <1>3, <2>1, <2>2
<1>5. u \in Seq(Board!Range(u))
  BY <1>2, <1>3 DEF Board!Range
<1> QED BY <1>2, <1>4, <1>5 DEF Stream, u

LEMMA Adds ==
  ASSUME NEW s, Stream(s), NEW e, IsCopy(e)
  PROVE  /\ Stream(<<e>>) /\ Stream(Append(s, e)) /\ Append(s, e) = s \o <<e>>
         /\ Len(Append(s, e)) = Len(s) + 1 /\ Append(s, e)[Len(s) + 1] = e
         /\ \A k \in 1 .. Len(s) : Append(s, e)[k] = s[k]
<1> DEFINE o == <<e>>
<1>1. o \in Seq({e}) /\ Len(o) = 1 /\ o[1] = e /\ DOMAIN o = 1 .. 1
  OBVIOUS
<1>2. Append(s, e) = s \o o
  <2>1. s \in Seq(Board!Range(s) \cup {e}) /\ e \in Board!Range(s) \cup {e}
    BY Streams DEF Stream, Board!Range
  <2> QED BY <2>1
<1> HIDE DEF o
<1>3. Stream(o)
  BY <1>1 DEF Stream, Board!Range
<1>4. Len(s) \in Nat /\ 1 \in 1 .. Len(o)
  BY <1>1, Streams
<1> QED BY <1>1, <1>2, <1>3, <1>4, Joins DEF o

LEMMA Cuts ==
  ASSUME NEW s, Stream(s), NEW k \in 0 .. Len(s)
  PROVE  /\ Stream(SubSeq(s, 1, k)) /\ Len(SubSeq(s, 1, k)) = k
         /\ \A j \in DOMAIN SubSeq(s, 1, k) : j \in DOMAIN s /\ SubSeq(s, 1, k)[j] = s[j]
<1> DEFINE u == SubSeq(s, 1, k)
<1>1. s \in Seq(Board!Range(s)) /\ Len(s) \in Nat /\ DOMAIN s = 1 .. Len(s)
  BY Streams DEF Stream
<1>2. u \in Seq(Board!Range(s)) /\ Len(u) = k /\ \A j \in 1 .. k : u[j] = s[j]
  BY <1>1
<1> HIDE DEF u
<1>3. DOMAIN u = 1 .. k
  BY <1>2
<1>4. \A j \in DOMAIN u : IsCopy(u[j])
  BY <1>1, <1>2, <1>3 DEF Stream
<1>5. u \in Seq(Board!Range(u))
  BY <1>2, <1>3 DEF Board!Range
<1>6. \A j \in DOMAIN u : j \in DOMAIN s /\ u[j] = s[j]
  BY <1>1, <1>2, <1>3
<1> QED BY <1>2, <1>4, <1>5, <1>6 DEF Stream, u

\* Another sequence of copies for the same places.
LEMMA Rewrites ==
  ASSUME NEW s, Stream(s), NEW t, t = [k \in DOMAIN s |-> t[k]], \A k \in DOMAIN s : IsCopy(t[k])
  PROVE  Stream(t) /\ Len(t) = Len(s) /\ DOMAIN t = DOMAIN s
<1>1. DOMAIN s = 1 .. Len(s) /\ Len(s) \in Nat
  BY Streams
<1>2. DOMAIN t = 1 .. Len(s)
  BY <1>1
<1>3. t \in [1 .. Len(s) -> Board!Range(t)]
  BY <1>1, <1>2 DEF Board!Range
<1>4. t \in Seq(Board!Range(t)) /\ Len(t) = Len(s)
  BY <1>1, <1>3
<1> QED BY <1>1, <1>2, <1>4 DEF Stream

LEMMA Merges ==
  ASSUME NEW list, Stream(list)
  PROVE  Stream(Board!Merged(list)) /\ Likewise(Board!Merged(list), list)
<1> DEFINE m == Board!Merged(list)
<1>1. DOMAIN m = DOMAIN list /\ m = [k \in DOMAIN list |-> m[k]]
  BY DEF Board!Merged
<1>2. ASSUME NEW k \in DOMAIN list
      PROVE  IsCopy(m[k]) /\ m[k].id = list[k].id /\ m[k].old = list[k].old
  <2>1. IsCopy(list[k])
    BY DEF Stream
  <2>2. CASE m[k] = list[k]
    BY <2>1, <2>2
  <2>3. CASE m[k] # list[k]
    <3> DEFINE e == \A j \in Board!Twins(list, k) : list[j].ended
               a == \E j \in Board!Twins(list, k) : list[j].archived
               p == IF Board!Filing(list, k) = {} THEN <<>> ELSE list[Board!Min(Board!Filing(list, k))].path
    <3>1. m[k] = [list[k] EXCEPT !.ended = e, !.archived = a, !.path = p]
      BY <2>3 DEF Board!Merged
    <3>2. e \in BOOLEAN /\ a \in BOOLEAN
      OBVIOUS
    <3> HIDE DEF e, a, p
    <3> QED BY <2>1, <3>1, <3>2 DEF IsCopy
  <2> QED BY <2>2, <2>3
<1> HIDE DEF m
<1>3. Stream(m)
  BY <1>1, <1>2, Rewrites
<1> QED BY <1>1, <1>2, <1>3 DEF m, Likewise

\* In the list the row of a session is not behind another of its own or of
\* the session it took over.
AheadOf(list, c) ==
  \A a \in DOMAIN list : list[a].id = c.id =>
    \A b \in 1 .. a - 1 : list[b].id \notin {c.id, c.old}
Spaced(i) == \A j \in Sessions \ {i} : Pane[j] = NoId \/ Pane[j] # Pane[i]

\* A session that is ahead and shares no terminal is shown as it is.
LEMMA Single ==
  ASSUME NEW list, Stream(list), NEW x, x.id \in Sessions, Spaced(x.id), AheadOf(list, x),
         NEW a \in DOMAIN list, list[a].id = x.id
  PROVE  a \in Board!First(list) /\ Board!Merged(list)[a] = list[a]
<1>1. DOMAIN list = 1 .. Len(list) /\ Len(list) \in Nat /\ \A j \in DOMAIN list : list[j].id \in Sessions
  BY Streams DEF Stream, IsCopy
<1>2. \A j \in DOMAIN list : j # a => list[j].id # x.id
  BY <1>1 DEF AheadOf
<1>3. \A j \in DOMAIN list : j # a => ~Board!Same(list[j], list[a]) /\ ~Board!Same(list[a], list[j])
  BY <1>1, <1>2 DEF Board!Same, Spaced
<1>4. a \in Board!First(list)
  BY <1>1, <1>3 DEF Board!First
<1>5. Board!Twins(list, a) = {a}
  <2>1. Board!Same(list[a], list[a])
    BY DEF Board!Same
  <2> QED BY <1>1, <1>3, <2>1 DEF Board!Twins
<1> DEFINE c == list[a]
           e == \A j \in Board!Twins(list, a) : list[j].ended
           r == \E j \in Board!Twins(list, a) : list[j].archived
           p == IF Board!Filing(list, a) = {} THEN <<>> ELSE list[Board!Min(Board!Filing(list, a))].path
<1>6. IsCopy(c)
  BY DEF Stream
<1>7. e = c.ended /\ r = c.archived
  BY <1>5, <1>6, Zenon DEF IsCopy
<1>8. p = c.path
  <2>1. CASE c.path = <<>>
    <3>1. Board!Filing(list, a) = {}
      BY <1>5, <2>1 DEF Board!Filing
    <3> QED BY <2>1, <3>1
  <2>2. CASE c.path # <<>>
    <3>1. Board!Filing(list, a) = {a}
      BY <1>5, <2>2 DEF Board!Filing
    <3>2. Board!Min({a}) = a
      BY <1>1 DEF Board!Min
    <3> QED BY <2>2, <3>1, <3>2
  <2> QED BY <2>1, <2>2
<1>9. Board!Merged(list)[a] = [c EXCEPT !.ended = e, !.archived = r, !.path = p]
  BY <1>4 DEF Board!Merged
<1> HIDE DEF c, e, r, p
<1>10. Board!Merged(list)[a] = c
  BY <1>6, <1>7, <1>8, <1>9 DEF IsCopy
<1> QED BY <1>4, <1>10 DEF c

\* The list shows a session as it is, or, while a mark-read of it is under
\* way, as it will be.
Near(list, c, reading) ==
  \E a \in DOMAIN list : list[a] = c \/ (reading /\ list[a] = [c EXCEPT !.unread = FALSE])

LEMMA Shifts ==
  ASSUME NEW list, Stream(list), NEW t, Likewise(t, list), NEW c, AheadOf(list, c)
  PROVE  AheadOf(t, c)
<1>1. DOMAIN list = 1 .. Len(list) /\ Len(list) \in Nat /\ DOMAIN t = DOMAIN list
  BY Streams DEF Likewise
<1> SUFFICES ASSUME NEW a \in DOMAIN t, t[a].id = c.id, NEW b \in 1 .. a - 1
             PROVE  t[b].id \notin {c.id, c.old}
  BY DEF AheadOf
<1>2. b \in DOMAIN list /\ t[b].id = list[b].id /\ list[a].id = c.id
  BY <1>1 DEF Likewise
<1> QED BY <1>1, <1>2 DEF AheadOf

LEMMA ShowsList ==
  ASSUME NEW list, Stream(list), NEW c, IsCopy(c), Spaced(c.id), AheadOf(list, c), NEW r,
         Near(list, c, r)
  PROVE  Near(Board!Merged(list), c, r)
<1>1. PICK a \in DOMAIN list : list[a] = c \/ (r /\ list[a] = [c EXCEPT !.unread = FALSE])
  BY DEF Near
<1>2. list[a].id = c.id
  BY <1>1 DEF IsCopy
<1>3. Board!Merged(list)[a] = list[a]
  BY <1>2, Single DEF IsCopy
<1>4. a \in DOMAIN Board!Merged(list)
  BY Merges DEF Likewise
<1> QED BY <1>1, <1>3, <1>4 DEF Near

LEMMA Marking ==
  ASSUME NEW list, Stream(list), NEW j
  PROVE  /\ Stream(Board!Seen(list, j)) /\ Likewise(Board!Seen(list, j), list)
         /\ \A c, r : IsCopy(c) /\ Near(list, c, r) => Near(Board!Seen(list, j), c, r \/ j = c.id)
<1> DEFINE s == Board!Seen(list, j)
<1>1. /\ DOMAIN s = DOMAIN list /\ s = [k \in DOMAIN list |-> s[k]]
      /\ \A k \in DOMAIN list : s[k] = list[k] \/ (list[k].id = j /\ s[k] = [list[k] EXCEPT !.unread = FALSE])
  BY DEF Board!Seen
<1> HIDE DEF s
<1>2. \A k \in DOMAIN list : IsCopy(s[k]) /\ s[k].id = list[k].id /\ s[k].old = list[k].old
  BY <1>1 DEF Stream, IsCopy
<1>3. Stream(s) /\ Likewise(s, list)
  BY <1>1, <1>2, Rewrites DEF Likewise
<1>4. ASSUME NEW c, NEW r, IsCopy(c), Near(list, c, r)
      PROVE  Near(s, c, r \/ j = c.id)
  <2>1. PICK a \in DOMAIN list : list[a] = c \/ (r /\ list[a] = [c EXCEPT !.unread = FALSE])
    BY <1>4 DEF Near
  <2>2. CASE s[a] = list[a]
    BY <1>1, <2>1, <2>2 DEF Near
  <2>3. CASE list[a].id = j /\ s[a] = [list[a] EXCEPT !.unread = FALSE]
    <3>1. j = c.id /\ s[a] = [c EXCEPT !.unread = FALSE]
      BY <1>4, <2>1, <2>3 DEF IsCopy
    <3> QED BY <1>1, <3>1 DEF Near
  <2> QED BY <1>1, <2>2, <2>3
<1> QED BY <1>3, <1>4 DEF s

\* The list after an event: its row takes the place of the first that is of
\* the session or of the one it took over.
Fits1(list, e, k) == list[k].id = e.id \/ (e.old # NoId /\ list[k].id = e.old)
Filed1(list, e) ==
  LET k == Board!SelectInSeq(list, LAMBDA c : c.id = e.id \/ (e.old # NoId /\ c.id = e.old))
  IN  IF k = 0 THEN Append(list, e) ELSE [list EXCEPT ![k] = e]

LEMMA FilesOnce ==
  ASSUME NEW list, Stream(list), NEW e, IsCopy(e), NEW t, t = Filed1(list, e)
  PROVE  /\ Stream(t) /\ DOMAIN list \subseteq DOMAIN t
         /\ \E k \in DOMAIN t :
              /\ t[k] = e /\ \A j \in DOMAIN t \ {k} : j \in DOMAIN list /\ t[j] = list[j]
              /\ \/ k \in DOMAIN list /\ Fits1(list, e, k) /\ \A j \in 1 .. k - 1 : ~Fits1(list, e, j)
                 \/ k = Len(list) + 1 /\ \A j \in DOMAIN list : ~Fits1(list, e, j)
<1> DEFINE S == {i \in 1 .. Len(list) : Fits1(list, e, i)}
<1>1. DOMAIN list = 1 .. Len(list) /\ Len(list) \in Nat
  BY Streams
<1>2. CASE S = {}
  <2>1. t = Append(list, e)
    <3>1. Board!SelectInSeq(list, LAMBDA c : c.id = e.id \/ (e.old # NoId /\ c.id = e.old)) = 0
      BY <1>2 DEF Board!SelectInSeq, Fits1
    <3> QED BY <3>1 DEF Filed1
  <2>2. /\ Stream(t) /\ Len(t) = Len(list) + 1 /\ t[Len(list) + 1] = e
        /\ \A k \in 1 .. Len(list) : t[k] = list[k]
    <3> DEFINE u == Append(list, e)
    <3>1. Stream(u) /\ Len(u) = Len(list) + 1 /\ u[Len(list) + 1] = e /\ \A k \in 1 .. Len(list) : u[k] = list[k]
      BY Adds
    <3> HIDE DEF u
    <3> QED BY <2>1, <3>1 DEF u
  <2>3. DOMAIN t = 1 .. Len(list) + 1
    BY <2>2, Streams
  <2>4. Len(list) + 1 \in DOMAIN t /\ \A j \in DOMAIN t \ {Len(list) + 1} : j \in DOMAIN list /\ t[j] = list[j]
    BY <1>1, <2>2, <2>3
  <2>5. DOMAIN list \subseteq DOMAIN t
    BY <1>1, <2>3
  <2> QED BY <1>1, <1>2, <2>2, <2>4, <2>5
<1>3. CASE S # {}
  <2>1. S \subseteq Nat
    BY <1>1
  <2>2. PICK k \in S : \A j \in S : k <= j
    <3> HIDE DEF S
    <3> QED BY <1>3, <2>1, Least
  <2>3. Board!Min(S) = k
    <3>1. Board!Min(S) \in S /\ \A j \in S : Board!Min(S) <= j
      <4> HIDE DEF S
      <4> QED BY <2>2 DEF Board!Min
    <3> HIDE DEF S
    <3>2. Board!Min(S) <= k /\ k <= Board!Min(S) /\ Board!Min(S) \in Nat /\ k \in Nat
      BY <2>1, <2>2, <3>1
    <3> QED BY <3>2
  <2>4. Board!SelectInSeq(list, LAMBDA c : c.id = e.id \/ (e.old # NoId /\ c.id = e.old)) = k
    BY <1>3, <2>3 DEF Board!SelectInSeq, Fits1
  <2>5. k # 0 /\ k \in DOMAIN list
    BY <1>1, <2>2
  <2>6. t = [list EXCEPT ![k] = e]
    BY <2>4, <2>5 DEF Filed1
  <2>7. DOMAIN t = DOMAIN list /\ t = [j \in DOMAIN list |-> t[j]] /\ t[k] = e
        /\ \A j \in DOMAIN list \ {k} : t[j] = list[j]
    BY <2>5, <2>6
  <2>8. Stream(t)
    <3>1. \A j \in DOMAIN list : IsCopy(t[j])
      BY <2>7 DEF Stream
    <3> QED BY <2>7, <3>1, Rewrites
  <2>9. \A j \in 1 .. k - 1 : ~Fits1(list, e, j)
    <3> SUFFICES ASSUME NEW j \in 1 .. k - 1, Fits1(list, e, j) PROVE  FALSE
      OBVIOUS
    <3>1. j \in S /\ ~(k <= j)
      BY <1>1, <2>5
    <3> QED BY <2>2, <3>1
  <2>10. Fits1(list, e, k)
    BY <2>2
  <2> QED BY <2>5, <2>7, <2>8, <2>9, <2>10
<1> QED BY <1>2, <1>3

LEMMA Filings ==
  ASSUME NoId \notin Sessions, NEW list, Stream(list), NEW e, IsCopy(e), NEW c, IsCopy(c),
         AheadOf(list, c), e.old # c.id,
         e.id = c.id => e.old = c.old, e.id = c.old => e.old = NoId, c.old # c.id
  PROVE  /\ AheadOf(Filed1(list, e), c)
         /\ e.id = c.id => \E a \in DOMAIN Filed1(list, e) : Filed1(list, e)[a] = e
         /\ e.id # c.id => \A a \in DOMAIN list : list[a].id = c.id =>
                             a \in DOMAIN Filed1(list, e) /\ Filed1(list, e)[a] = list[a]
<1> DEFINE t == Filed1(list, e)
<1>1. DOMAIN list = 1 .. Len(list) /\ Len(list) \in Nat /\ \A j \in DOMAIN list : list[j].id # NoId
  BY Streams DEF Stream, IsCopy
<1>2. Stream(t) /\ DOMAIN list \subseteq DOMAIN t
  BY FilesOnce
<1>3. PICK k \in DOMAIN t :
         /\ t[k] = e /\ \A j \in DOMAIN t \ {k} : j \in DOMAIN list /\ t[j] = list[j]
         /\ \/ k \in DOMAIN list /\ Fits1(list, e, k) /\ \A j \in 1 .. k - 1 : ~Fits1(list, e, j)
            \/ k = Len(list) + 1 /\ \A j \in DOMAIN list : ~Fits1(list, e, j)
  BY FilesOnce
<1>4. DOMAIN t = 1 .. Len(t) /\ Len(t) \in Nat
  BY <1>2, Streams
<1> HIDE DEF t
<1>5. ASSUME NEW a \in DOMAIN t, t[a].id = c.id, NEW b \in 1 .. a - 1, t[b].id \in {c.id, c.old}
      PROVE  FALSE
  <2>1. b \in DOMAIN t /\ b \in Nat /\ a \in Nat /\ b < a /\ k \in Nat
    BY <1>4
  <2>2. CASE e.id = c.id
    <3>1. CASE k \in DOMAIN list /\ Fits1(list, e, k) /\ \A j \in 1 .. k - 1 : ~Fits1(list, e, j)
      <4>1. CASE a = k
        <5>1. b \in 1 .. k - 1 /\ b # k
          BY <2>1, <4>1
        <5>2. b \in DOMAIN list /\ t[b] = list[b] /\ ~Fits1(list, e, b)
          BY <1>3, <2>1, <3>1, <5>1
        <5> QED BY <1>1, <1>5, <2>2, <5>2 DEF Fits1
      <4>2. CASE a # k
        <5>1. a \in DOMAIN list /\ list[a].id = c.id
          BY <1>3, <1>5, <4>2
        <5>2. CASE k < a
          BY <1>1, <2>1, <2>2, <3>1, <5>1, <5>2 DEF AheadOf, Fits1
        <5>3. CASE a < k
          <6>1. a \in 1 .. k - 1
            BY <1>1, <2>1, <5>1, <5>3
          <6> QED BY <2>2, <3>1, <5>1, <6>1 DEF Fits1
        <5> QED BY <2>1, <4>2, <5>2, <5>3
      <4> QED BY <4>1, <4>2
    <3>2. CASE k = Len(list) + 1 /\ \A j \in DOMAIN list : ~Fits1(list, e, j)
      <4>1. b \in DOMAIN list /\ t[b] = list[b]
        <5>1. b # k
          BY <1>1, <1>3, <2>1, <3>2
        <5> QED BY <1>3, <2>1, <5>1
      <4> QED BY <1>1, <1>5, <2>2, <3>2, <4>1 DEF Fits1
    <3> QED BY <1>3, <3>1, <3>2
  <2>3. CASE e.id # c.id
    <3>1. a # k /\ a \in DOMAIN list /\ list[a].id = c.id
      BY <1>3, <1>5, <2>3
    <3>2. CASE b = k
      <4>1. e.id = c.old /\ e.old = NoId
        BY <1>3, <1>5, <2>3, <3>2
      <4>2. b \in DOMAIN list
        BY <1>1, <2>1, <3>1
      <4>3. list[b].id = c.old
        BY <1>1, <1>3, <3>2, <4>1, <4>2 DEF Fits1
      <4> QED BY <1>1, <2>1, <3>1, <4>3 DEF AheadOf
    <3>3. CASE b # k
      <4>1. b \in DOMAIN list /\ list[b].id \in {c.id, c.old}
        BY <1>3, <1>5, <2>1, <3>3
      <4> QED BY <1>1, <2>1, <3>1, <4>1 DEF AheadOf
    <3> QED BY <3>2, <3>3
  <2> QED BY <2>2, <2>3
<1>6. AheadOf(t, c)
  BY <1>5 DEF AheadOf
<1>7. ASSUME e.id # c.id, NEW a \in DOMAIN list, list[a].id = c.id
      PROVE  a \in DOMAIN t /\ t[a] = list[a]
  <2>1. a # k
    BY <1>1, <1>3, <1>7 DEF Fits1
  <2> QED BY <1>2, <1>3, <1>7, <2>1
<1> QED BY <1>3, <1>6, <1>7 DEF t

-----------------------------------------------------------------------------
\* The rank of a number in a set.
Rank(P, i) == Cardinality({j \in P : j < i})

LEMMA Ranks ==
  ASSUME NEW P, P \subseteq Nat, IsFiniteSet(P)
  PROVE  /\ Cardinality(P) \in Nat
         /\ \A i \in P : Rank(P, i) + 1 \in 1 .. Cardinality(P)
         /\ \A i, h \in P : Rank(P, i) = Rank(P, h) => i = h
         /\ \A k \in 1 .. Cardinality(P) : \E i \in P : Rank(P, i) = k - 1
<1> DEFINE before(i) == {j \in P : j < i}
           N == Cardinality(P)
           f == [i \in P |-> Rank(P, i) + 1]
<1>1. N \in Nat
  BY FS_CardinalityType
<1>2. ASSUME NEW i \in P PROVE  Rank(P, i) \in Nat /\ Rank(P, i) < N
  <2>1. before(i) \in SUBSET P /\ i \notin before(i)
    OBVIOUS
  <2>2. Rank(P, i) = Cardinality(before(i))
    BY DEF Rank
  <2> HIDE DEF before, N
  <2>3. IsFiniteSet(before(i)) /\ Cardinality(before(i)) <= N /\ Cardinality(before(i)) # N
    BY <2>1, FS_Subset DEF N
  <2>4. Cardinality(before(i)) \in Nat
    BY <2>3, FS_CardinalityType
  <2> QED BY <1>1, <2>2, <2>3, <2>4
<1>3. ASSUME NEW i \in P, NEW h \in P, i < h PROVE  Rank(P, i) < Rank(P, h)
  <2>1. before(i) \in SUBSET before(h) /\ i \in before(h) /\ i \notin before(i) /\ before(h) \in SUBSET P
    <3>1. i \in Nat /\ h \in Nat /\ \A g \in P : g \in Nat
      OBVIOUS
    <3>2. \A g \in P : g < i => g < h
      BY <1>3, <3>1
    <3>3. ~(i < i)
      BY <3>1
    <3> QED BY <1>3, <3>2, <3>3
  <2>2. Rank(P, i) = Cardinality(before(i)) /\ Rank(P, h) = Cardinality(before(h))
    BY DEF Rank
  <2> HIDE DEF before
  <2>3. IsFiniteSet(before(h))
    BY <2>1, FS_Subset
  <2>4. Cardinality(before(i)) <= Cardinality(before(h)) /\ Cardinality(before(i)) # Cardinality(before(h))
    BY <2>1, <2>3, FS_Subset
  <2> QED BY <1>2, <2>2, <2>4
<1>4. \A i, h \in P : Rank(P, i) = Rank(P, h) => i = h
  <2> SUFFICES ASSUME NEW i \in P, NEW h \in P, Rank(P, i) = Rank(P, h) PROVE  i = h
    OBVIOUS
  <2>1. i \in Nat /\ h \in Nat /\ ~(i < h) /\ ~(h < i)
    BY <1>2, <1>3
  <2> QED BY <2>1
<1>5. \A i \in P : Rank(P, i) + 1 \in 1 .. N
  <2> HIDE DEF N
  <2> QED BY <1>1, <1>2
<1>6. f \in Injection(P, 1 .. N)
  <2>1. f \in [P -> 1 .. N]
    BY <1>5
  <2>2. \A i, h \in P : f[i] = f[h] => i = h
    BY <1>2, <1>4
  <2> HIDE DEF f, N
  <2> QED BY <2>1, <2>2 DEF Injection, IsInjective
<1>7. IsFiniteSet(1 .. N) /\ Cardinality(1 .. N) = N
  <2> HIDE DEF N
  <2> QED BY <1>1, FS_Interval
<1>8. f \in Surjection(P, 1 .. N)
  <2> HIDE DEF f
  <2> QED BY <1>6, <1>7, FS_Injection
<1>9. ASSUME NEW k \in 1 .. N PROVE  \E i \in P : Rank(P, i) = k - 1
  <2>1. PICK i \in P : f[i] = k
    <3> HIDE DEF f, N
    <3> QED BY <1>8 DEF Surjection
  <2> QED BY <1>1, <1>2, <2>1
<1> QED BY <1>1, <1>4, <1>5, <1>9

\* The listing has every row, in the order of the numbers, and nothing else.
LEMMA BoardCounts ==
  ASSUME NEW S
  PROVE  Board!Cardinality(S) = Cardinality(S)
BY DEF Board!Cardinality, Cardinality

LEMMA Listings ==
  ASSUME Numbering, Board!Present \subseteq Sessions,
         \A i \in Board!Present : IsCopy(Board!Copy(i)) /\ Board!Copy(i).id = i
  PROVE  /\ Stream(Board!Listing)
         /\ \A k \in DOMAIN Board!Listing : \E i \in Board!Present : Board!Listing[k] = Board!Copy(i)
         /\ \A i \in Board!Present : \E k \in DOMAIN Board!Listing : Board!Listing[k] = Board!Copy(i)
         /\ \A k, j \in DOMAIN Board!Listing : Board!Listing[k].id = Board!Listing[j].id => k = j
<1> DEFINE N == Cardinality(Board!Present)
           L == Board!Listing
<1>1. Board!Present \subseteq Nat /\ IsFiniteSet(Board!Present)
  <2>1. Board!Present \in SUBSET Sessions
    OBVIOUS
  <2> QED BY <2>1, FS_Subset DEF Numbering
<1>2. /\ N \in Nat
      /\ \A i \in Board!Present : Rank(Board!Present, i) + 1 \in 1 .. N
      /\ \A i, h \in Board!Present : Rank(Board!Present, i) = Rank(Board!Present, h) => i = h
      /\ \A k \in 1 .. N : \E i \in Board!Present : Rank(Board!Present, i) = k - 1
  BY <1>1, Ranks
<1>3. DOMAIN L = 1 .. N /\ \A k \in 1 .. N : L[k] = Board!Copy(Board!Nth(k))
  BY BoardCounts DEF Board!Listing
<1>4. \A k \in 1 .. N : Board!Nth(k) \in Board!Present /\ Rank(Board!Present, Board!Nth(k)) = k - 1
  BY <1>2, BoardCounts DEF Board!Nth, Rank
<1>5. \A i \in Board!Present : Rank(Board!Present, i) \in Nat
  BY <1>1, FS_Subset, FS_CardinalityType DEF Rank
<1> HIDE DEF L, N
<1>6. ASSUME NEW i \in Board!Present PROVE  \E k \in DOMAIN L : L[k] = Board!Copy(i)
  <2> DEFINE k == Rank(Board!Present, i) + 1
  <2>1. k \in 1 .. N /\ k - 1 = Rank(Board!Present, i)
    BY <1>2, <1>5
  <2> HIDE DEF k
  <2>2. Board!Nth(k) = i
    BY <1>2, <1>4, <2>1
  <2> QED BY <1>3, <2>1, <2>2
<1>7. ASSUME NEW k \in DOMAIN L, NEW j \in DOMAIN L, L[k].id = L[j].id PROVE  k = j
  <2>1. Board!Nth(k) = Board!Nth(j)
    BY <1>3, <1>4, <1>7
  <2>2. k - 1 = j - 1 /\ k \in Nat /\ j \in Nat
    BY <1>2, <1>3, <1>4, <2>1
  <2> QED BY <2>2
<1>8. Stream(L)
  <2>1. \A k \in DOMAIN L : IsCopy(L[k])
    BY <1>3, <1>4
  <2>2. L \in Seq(Board!Range(L))
    <3>1. L = [k \in 1 .. N |-> L[k]]
      BY BoardCounts DEF L, Board!Listing, N
    <3>2. L \in [1 .. N -> Board!Range(L)]
      BY <1>3, <3>1 DEF Board!Range
    <3> QED BY <1>2, <3>2
  <2> QED BY <2>1, <2>2 DEF Stream
<1> QED BY <1>3, <1>4, <1>6, <1>7, <1>8 DEF L

\* What a stream says last of a session.
Mentions(s, i) == \E k \in DOMAIN s : s[k].id = i
Undisturbed(s, c) == \E k \in DOMAIN s : s[k] = c /\ \A j \in DOMAIN s : j > k => s[j].id # c.id

LEMMA Heard ==
  ASSUME NEW s, Stream(s), s # <<>>, NEW c
  PROVE  /\ Mentions(Tail(s), c.id) => Mentions(s, c.id) /\ (Undisturbed(s, c) => Undisturbed(Tail(s), c))
         /\ Mentions(s, c.id) /\ ~Mentions(Tail(s), c.id) =>
              Head(s).id = c.id /\ (Undisturbed(s, c) => Head(s) = c)
<1> DEFINE t == Tail(s)
<1>1. /\ Len(s) \in Nat /\ DOMAIN s = 1 .. Len(s) /\ 1 \in DOMAIN s /\ Head(s) = s[1]
      /\ Stream(t) /\ Len(t) = Len(s) - 1 /\ \A k \in 1 .. Len(s) - 1 : t[k] = s[k + 1]
  BY Streams
<1>2. DOMAIN t = 1 .. Len(s) - 1
  BY <1>1, Streams
<1> HIDE DEF t
<1>3. \A k \in DOMAIN t : k + 1 \in DOMAIN s /\ t[k] = s[k + 1]
  BY <1>1, <1>2
<1>4. \A k \in DOMAIN s \ {1} : k - 1 \in DOMAIN t /\ t[k - 1] = s[k]
  <2> SUFFICES ASSUME NEW k \in DOMAIN s, k # 1 PROVE  k - 1 \in DOMAIN t /\ t[k - 1] = s[k]
    OBVIOUS
  <2>1. k - 1 \in DOMAIN t /\ (k - 1) + 1 = k
    BY <1>1, <1>2
  <2> QED BY <1>3, <2>1
<1>5. ASSUME Mentions(t, c.id) PROVE  Mentions(s, c.id) /\ (Undisturbed(s, c) => Undisturbed(t, c))
  <2>1. PICK j \in DOMAIN t : t[j].id = c.id
    BY <1>5 DEF Mentions
  <2>2. j + 1 \in DOMAIN s /\ s[j + 1].id = c.id
    BY <1>3, <2>1
  <2>3. ASSUME Undisturbed(s, c) PROVE  Undisturbed(t, c)
    <3>1. PICK k \in DOMAIN s : s[k] = c /\ \A m \in DOMAIN s : m > k => s[m].id # c.id
      BY <2>3 DEF Undisturbed
    <3>2. k # 1
      BY <1>1, <1>2, <2>2, <3>1
    <3>3. k - 1 \in DOMAIN t /\ t[k - 1] = c
      BY <1>4, <3>1, <3>2
    <3>4. ASSUME NEW m \in DOMAIN t, m > k - 1 PROVE  t[m].id # c.id
      <4>1. m + 1 \in DOMAIN s /\ m + 1 > k /\ t[m] = s[m + 1]
        BY <1>1, <1>2, <1>3, <3>4
      <4> QED BY <3>1, <4>1
    <3> QED BY <3>3, <3>4 DEF Undisturbed
  <2> QED BY <2>2, <2>3 DEF Mentions
<1>6. ASSUME Mentions(s, c.id), ~Mentions(t, c.id)
      PROVE  s[1].id = c.id /\ (Undisturbed(s, c) => s[1] = c)
  <2>1. \A k \in DOMAIN s \ {1} : s[k].id # c.id
    BY <1>4, <1>6 DEF Mentions
  <2> QED BY <1>6, <2>1 DEF Mentions, Undisturbed
<1> QED BY <1>1, <1>5, <1>6 DEF t

LEMMA Says ==
  ASSUME NEW s, Stream(s), NEW t, Stream(t), NEW c
  PROVE  /\ Mentions(s \o t, c.id) <=> Mentions(s, c.id) \/ Mentions(t, c.id)
         /\ Mentions(t, c.id) /\ Undisturbed(t, c) => Undisturbed(s \o t, c)
         /\ ~Mentions(t, c.id) /\ Undisturbed(s, c) => Undisturbed(s \o t, c)
<1> DEFINE u == s \o t
           n == Len(s)
           m == Len(t)
<1>1. /\ n \in Nat /\ m \in Nat /\ DOMAIN s = 1 .. n /\ DOMAIN t = 1 .. m
      /\ Stream(u) /\ Len(u) = n + m
      /\ \A k \in 1 .. n : u[k] = s[k]
      /\ \A k \in 1 .. m : u[n + k] = t[k]
  BY Streams, Joins
<1>2. DOMAIN u = 1 .. n + m
  BY <1>1, Streams
<1> HIDE DEF u, n, m
<1>3. \A k \in DOMAIN s : k \in DOMAIN u /\ u[k] = s[k] /\ k <= n
  BY <1>1, <1>2
<1>4. \A k \in DOMAIN t : n + k \in DOMAIN u /\ u[n + k] = t[k]
  BY <1>1, <1>2
<1>5. \A k \in DOMAIN u : (k \in DOMAIN s /\ k <= n) \/ (k > n /\ k - n \in DOMAIN t /\ u[k] = t[k - n])
  <2> SUFFICES ASSUME NEW k \in DOMAIN u, ~(k \in DOMAIN s /\ k <= n)
               PROVE  k > n /\ k - n \in DOMAIN t /\ u[k] = t[k - n]
    OBVIOUS
  <2>1. k > n /\ k - n \in DOMAIN t /\ n + (k - n) = k
    BY <1>1, <1>2
  <2> QED BY <1>4, <2>1
<1>6. Mentions(u, c.id) <=> Mentions(s, c.id) \/ Mentions(t, c.id)
  <2>1. ASSUME NEW k \in DOMAIN u, u[k].id = c.id PROVE  Mentions(s, c.id) \/ Mentions(t, c.id)
    BY <1>3, <1>5, <2>1 DEF Mentions
  <2> QED BY <1>3, <1>4, <2>1 DEF Mentions
<1>7. ASSUME Undisturbed(t, c) PROVE  Undisturbed(u, c)
  <2>1. PICK k \in DOMAIN t : t[k] = c /\ \A j \in DOMAIN t : j > k => t[j].id # c.id
    BY <1>7 DEF Undisturbed
  <2>2. ASSUME NEW j \in DOMAIN u, j > n + k PROVE  u[j].id # c.id
    <3>1. j \in Nat /\ k \in Nat /\ k > 0
      BY <1>1, <1>2
    <3>2. ~(j <= n) /\ j - n > k
      BY <1>1, <2>2, <3>1
    <3> QED BY <1>5, <2>1, <3>2
  <2> QED BY <1>4, <2>1, <2>2 DEF Undisturbed
<1>8. ASSUME ~Mentions(t, c.id), Undisturbed(s, c) PROVE  Undisturbed(u, c)
  <2>1. PICK k \in DOMAIN s : s[k] = c /\ \A j \in DOMAIN s : j > k => s[j].id # c.id
    BY <1>8 DEF Undisturbed
  <2>2. ASSUME NEW j \in DOMAIN u, j > k PROVE  u[j].id # c.id
    BY <1>3, <1>5, <1>8, <2>1, <2>2 DEF Mentions
  <2> QED BY <1>3, <2>1, <2>2 DEF Undisturbed
<1> QED BY <1>6, <1>7, <1>8 DEF u

\* One more event.
LEMMA TellsOf ==
  ASSUME NEW s, Stream(s), NEW e, IsCopy(e), NEW c
  PROVE  /\ Mentions(Append(s, e), c.id) <=> Mentions(s, c.id) \/ e.id = c.id
         /\ e = c => Undisturbed(Append(s, e), c)
         /\ e.id # c.id /\ Undisturbed(s, c) => Undisturbed(Append(s, e), c)
<1> DEFINE o == <<e>>
<1>1. Stream(o) /\ Append(s, e) = s \o o
  BY Adds
<1>2. DOMAIN o = {1} /\ o[1] = e
  OBVIOUS
<1> HIDE DEF o
<1>3. (Mentions(o, c.id) <=> e.id = c.id) /\ (e = c => Undisturbed(o, c))
  BY <1>2 DEF Mentions, Undisturbed
<1>4. e = c => e.id = c.id
  OBVIOUS
<1> QED BY <1>1, <1>3, <1>4, Says

LEMMA Mixes ==
  ASSUME NEW s, Stream(s), NEW t, Stream(t)
  PROVE  \A k \in DOMAIN (s \o t) : \/ \E j \in DOMAIN s : (s \o t)[k] = s[j]
                                    \/ \E j \in DOMAIN t : (s \o t)[k] = t[j]
<1> DEFINE u == s \o t
           n == Len(s)
           m == Len(t)
<1>1. /\ n \in Nat /\ m \in Nat /\ DOMAIN s = 1 .. n /\ DOMAIN t = 1 .. m
      /\ Stream(u) /\ Len(u) = n + m
      /\ \A k \in 1 .. n : u[k] = s[k]
      /\ \A k \in 1 .. m : u[n + k] = t[k]
  BY Streams, Joins
<1>2. DOMAIN u = 1 .. n + m
  BY <1>1, Streams
<1> HIDE DEF u, n, m
<1>3. ASSUME NEW k \in DOMAIN u
      PROVE  (\E j \in DOMAIN s : u[k] = s[j]) \/ (\E j \in DOMAIN t : u[k] = t[j])
  <2>1. CASE k <= n
    BY <1>1, <1>2, <2>1
  <2>2. CASE ~(k <= n)
    <3>1. k - n \in 1 .. m /\ n + (k - n) = k
      BY <1>1, <1>2, <2>2
    <3>2. u[k] = t[k - n]
      BY <1>1, <3>1
    <3> QED BY <1>1, <3>1, <3>2
  <2> QED BY <2>1, <2>2
<1> QED BY <1>3 DEF u

-----------------------------------------------------------------------------
(* What is kept of the sessions, and where. *)
Kinds == {"read", "archive", "kill", "restart", "move", "delete", "deleteNode",
          "moveNode", "fetch", "nodes", "sessions", "tree", "exec"}
Shapes ==
  /\ Board!Present \subseteq Sessions /\ \A i \in Board!Present : IsCopy(Board!Copy(i)) /\ Board!Copy(i).id = i
  /\ \A q \in DOMAIN store.nodes : store.nodes[q] \in {Dir[p] : p \in Paths}
  /\ sub \in {"off", "new", "on"} /\ Len(chan) <= MaxQueue /\ doubt \subseteq Sessions
  /\ Stream(chan) /\ Stream(stream) /\ Stream(tui.list)
  /\ sub = "off" => chan = <<>>
  /\ "gone" \in DOMAIN count /\ "heirs" \in DOMAIN count
  /\ \A d \in cmds : /\ d.op \in Kinds
                     /\ d.op = "sessions" => Stream(d.rows)
                     /\ d.op = "archive" => d.to \in BOOLEAN

\* Every copy of a session, wherever it is kept, says which other it took
\* over, and that one is gone; no id is used twice.
Copies ==
  {Board!Copy(i) : i \in Board!Present} \cup Board!Range(tui.list) \cup Board!Range(stream) \cup Board!Range(chan)
    \cup UNION {Board!Range(d.rows) : d \in {c \in cmds : c.op = "sessions"}}
Kin ==
  /\ Board!Present \cap count.gone = {}
  /\ \A c \in Copies : /\ c.id \in Board!Present \cup count.gone
                       /\ c.old # NoId => c.old \in count.gone /\ c.id \in count.heirs
  /\ \A c, d \in Copies : /\ c.id = d.id => c.old = d.old
                          /\ c.old = d.old /\ c.old # NoId => c.id = d.id
KnownCopy(c) == \E d \in Copies : d.id = c.id /\ d.old = c.old

\* In the list and in an answer under way, a session is before the one it
\* took over.
Heads ==
  \A i \in Board!Present : Board!Copy(i).old \notin count.heirs =>
    /\ AheadOf(tui.list, Board!Copy(i))
    /\ \A d \in cmds : d.op = "sessions" => AheadOf(d.rows, Board!Copy(i))

\* The last that is said of a session, wherever that is, is how it is.
Reading(i) == \E d \in cmds : d.op = "read" /\ d.id = i
Current ==
  \A i \in Board!Present \ doubt :
    /\ sub # "off" /\ Mentions(chan, i) => Undisturbed(chan, Board!Copy(i))
    /\ sub = "on" /\ ~Mentions(chan, i) /\ Mentions(stream, i) => Undisturbed(stream, Board!Copy(i))
    /\ sub = "on" /\ ~Mentions(chan, i) /\ ~Mentions(stream, i) /\ Board!Alone(i) =>
         Near(tui.list, Board!Copy(i), Reading(i))
    /\ \A d \in cmds : d.op = "sessions" => \E a \in DOMAIN d.rows : d.rows[a] = Board!Copy(i)

Tracks == BoardIInv /\ Shapes /\ Kin /\ Heads /\ Current

LEMMA Sources ==
  /\ \A i \in Board!Present : KnownCopy(Board!Copy(i))
  /\ \A k \in DOMAIN tui.list : KnownCopy(tui.list[k])
  /\ \A k \in DOMAIN stream : KnownCopy(stream[k])
  /\ \A k \in DOMAIN chan : KnownCopy(chan[k])
  /\ \A d \in cmds : d.op = "sessions" => \A k \in DOMAIN d.rows : KnownCopy(d.rows[k])
<1>1. \A c \in Copies : KnownCopy(c)
  BY DEF KnownCopy
<1>2. \A i \in Board!Present : Board!Copy(i) \in Copies
  BY DEF Copies
<1>3. \A k \in DOMAIN tui.list : tui.list[k] \in Copies
  BY DEF Copies, Board!Range
<1>4. \A k \in DOMAIN stream : stream[k] \in Copies
  BY DEF Copies, Board!Range
<1>5. \A k \in DOMAIN chan : chan[k] \in Copies
  BY DEF Copies, Board!Range
<1>6. \A d \in cmds : d.op = "sessions" => \A k \in DOMAIN d.rows : d.rows[k] \in Copies
  BY DEF Copies, Board!Range
<1> QED BY <1>1, <1>2, <1>3, <1>4, <1>5, <1>6

LEMMA Kindred ==
  ASSUME Kin, NEW c, KnownCopy(c), NEW d, KnownCopy(d)
  PROVE  /\ c.id \in Board!Present \cup count.gone
         /\ c.old # NoId => c.old \in count.gone /\ c.id \in count.heirs
         /\ c.id = d.id => c.old = d.old
         /\ c.old = d.old /\ c.old # NoId => c.id = d.id
BY DEF Kin, KnownCopy

\* A step that keeps what is known of the sessions, or adds a new one.
LEMMA KinStep ==
  ASSUME Kin, count.gone \subseteq count'.gone, count.heirs \subseteq count'.heirs,
         Board!Present \cup count.gone \subseteq Board!Present' \cup count'.gone, Board!Present' \cap count'.gone = {},
         NEW r, NEW F \in BOOLEAN,
         F => /\ r.id \notin Board!Present \cup count.gone /\ r.id \in Board!Present' \cup count'.gone
              /\ r.old # NoId => r.old \notin count.gone /\ r.old \in count'.gone /\ r.id \in count'.heirs,
         \A i \in Board!Present' : KnownCopy(store'.rows[i]) \/ (F /\ store'.rows[i] = r),
         \A k \in DOMAIN tui'.list : KnownCopy(tui'.list[k]),
         \A k \in DOMAIN stream' : KnownCopy(stream'[k]),
         \A k \in DOMAIN chan' : KnownCopy(chan'[k]) \/ (F /\ chan'[k] = r),
         \A d \in cmds' : d.op = "sessions" => \A k \in DOMAIN d.rows : KnownCopy(d.rows[k])
  PROVE  Kin'
<1>1. ASSUME NEW c \in Copies' PROVE  KnownCopy(c) \/ (F /\ c = r)
  <2>1. CASE c \in {Board!Copy(i)' : i \in Board!Present'}
    BY <2>1 DEF Board!Copy
  <2>2. CASE c \in Board!Range(tui'.list) \cup Board!Range(stream') \cup Board!Range(chan')
    BY <2>2 DEF Board!Range
  <2>3. CASE c \in UNION {Board!Range(d.rows) : d \in {b \in cmds' : b.op = "sessions"}}
    BY <2>3 DEF Board!Range
  <2>4. \/ c \in {Board!Copy(i)' : i \in Board!Present'}
        \/ c \in Board!Range(tui'.list) \cup Board!Range(stream') \cup Board!Range(chan')
        \/ c \in UNION {Board!Range(d.rows) : d \in {b \in cmds' : b.op = "sessions"}}
    BY <1>1 DEF Copies
  <2> QED BY <2>1, <2>2, <2>3, <2>4
<1>2. ASSUME NEW c \in Copies'
      PROVE  /\ c.id \in Board!Present' \cup count'.gone
             /\ c.old # NoId => c.old \in count'.gone /\ c.id \in count'.heirs
  BY <1>1, <1>2, Kindred
<1>3. ASSUME NEW c \in Copies', NEW d \in Copies'
      PROVE  /\ c.id = d.id => c.old = d.old
             /\ c.old = d.old /\ c.old # NoId => c.id = d.id
  <2>1. KnownCopy(c) \/ (F /\ c = r)
    BY <1>1
  <2>2. KnownCopy(d) \/ (F /\ d = r)
    BY <1>1
  <2>3. CASE KnownCopy(c) /\ KnownCopy(d)
    BY <2>3, Kindred
  <2>4. CASE F /\ (c = r \/ d = r)
    BY <2>1, <2>2, <2>4, Kindred
  <2> QED BY <2>1, <2>2, <2>3, <2>4
<1> QED BY <1>2, <1>3 DEF Kin

LEMMA Meanwhile ==
  ASSUME NoId \notin Sessions, Shapes, Kin, NEW i \in Board!Present
  PROVE  i \in Sessions /\ IsCopy(Board!Copy(i)) /\ Board!Copy(i).id = i /\ Board!Copy(i).old # i
<1>1. i \in Sessions /\ IsCopy(Board!Copy(i)) /\ Board!Copy(i).id = i
  BY DEF Shapes
<1>2. KnownCopy(Board!Copy(i)) /\ Board!Copy(i).old # NoId => Board!Copy(i).old \in count.gone
  BY Kindred
<1>3. i \notin count.gone
  BY DEF Kin
<1>4. CASE Board!Copy(i).old # NoId
  BY <1>1, <1>2, <1>3, <1>4, Sources
<1>5. CASE Board!Copy(i).old = NoId
  BY <1>1, <1>5
<1> QED BY <1>4, <1>5

\* A listing says how every session is.
LEMMA Lists ==
  ASSUME Numbering, Shapes, NEW i \in Board!Present
  PROVE  Mentions(Board!Listing, i) /\ Undisturbed(Board!Listing, Board!Copy(i))
<1>1. /\ Stream(Board!Listing) /\ \E k \in DOMAIN Board!Listing : Board!Listing[k] = Board!Copy(i)
      /\ \A k, j \in DOMAIN Board!Listing : Board!Listing[k].id = Board!Listing[j].id => k = j
  BY Listings DEF Shapes
<1>2. PICK k \in DOMAIN Board!Listing : Board!Listing[k] = Board!Copy(i)
  BY <1>1
<1>3. DOMAIN Board!Listing = 1 .. Len(Board!Listing) /\ Len(Board!Listing) \in Nat
  BY <1>1, Streams
<1>4. \A j \in DOMAIN Board!Listing : j > k => Board!Listing[j].id # Board!Copy(i).id
  BY <1>1, <1>2, <1>3
<1>5. Board!Copy(i).id = i
  BY DEF Shapes
<1> QED BY <1>2, <1>4, <1>5 DEF Mentions, Undisturbed

\* The stream, from the daemon to the dashboard.
LEMMA StepStream ==
  ASSUME Numbering, Tracks,
         Board!Register \/ Board!SendListing \/ Board!SendEvent \/ Board!Disconnect \/ UNCHANGED Board!dashVars
  PROVE  Shapes' /\ Kin' /\ Heads' /\ Current'
<1> USE DEF Tracks
<1>1. /\ UNCHANGED <<store, tui, cmds>> /\ count'.gone = count.gone /\ count'.heirs = count.heirs
      /\ DOMAIN count' = DOMAIN count
  BY DEF Board!Register, Board!SendListing, Board!SendEvent, Board!Disconnect, Board!dashVars, Shapes
<1>2. Board!Present' = Board!Present /\ \A i : Board!Copy(i)' = Board!Copy(i)
  BY <1>1 DEF Board!Present, Board!Copy
<1>3. Heads'
  BY <1>1, <1>2 DEF Heads
<1>4. /\ Stream(chan) /\ Stream(stream) /\ Stream(Board!Listing) /\ Len(chan) \in Nat
      /\ MaxQueue \in Nat
      /\ \A k \in DOMAIN Board!Listing : \E i \in Board!Present : Board!Listing[k] = Board!Copy(i)
  BY Listings, Streams DEF Shapes, Numbering
<1>5. \A i \in Board!Present : IsCopy(Board!Copy(i)) /\ Board!Copy(i).id = i
  BY DEF Shapes
<1>6. ASSUME Stream(chan'), Stream(stream'), sub' \in {"off", "new", "on"}, Len(chan') <= MaxQueue,
             doubt' \subseteq Sessions, sub' = "off" => chan' = <<>>,
             \A k \in DOMAIN stream' : KnownCopy(stream'[k]), \A k \in DOMAIN chan' : KnownCopy(chan'[k])
      PROVE  Shapes' /\ Kin'
  <2>1. Shapes'
    BY <1>1, <1>2, <1>6 DEF Shapes
  <2>2. /\ count.gone \subseteq count'.gone /\ count.heirs \subseteq count'.heirs
        /\ Board!Present \cup count.gone \subseteq Board!Present' \cup count'.gone
        /\ Board!Present' \cap count'.gone = {}
    BY <1>1, <1>2 DEF Kin
  <2>3. /\ \A i \in Board!Present' : KnownCopy(store'.rows[i])
        /\ \A k \in DOMAIN tui'.list : KnownCopy(tui'.list[k])
        /\ \A d \in cmds' : d.op = "sessions" => \A k \in DOMAIN d.rows : KnownCopy(d.rows[k])
    BY <1>1, <1>2, Sources DEF Board!Copy
  <2> DEFINE F == FALSE
  <2>4. F \in BOOLEAN /\ ~F
    OBVIOUS
  <2> HIDE DEF F
  <2>5. Kin'
    BY <1>6, <2>2, <2>3, <2>4, KinStep
  <2> QED BY <2>1, <2>5
<1>7. \A d \in cmds' : d.op = "sessions" =>
        \A i \in Board!Present \ doubt : \E a \in DOMAIN d.rows : d.rows[a] = Board!Copy(i)
  BY <1>1 DEF Current
<1>8. Stream(<<>>) /\ Len(<<>>) = 0 /\ \A i : ~Mentions(<<>>, i)
  BY DEF Stream, Mentions, Board!Range
<1>9. CASE Board!Register
  <2>1. sub' = "new" /\ chan' = <<>> /\ stream' = stream /\ doubt' = doubt
    BY <1>9 DEF Board!Register
  <2>2. Shapes' /\ Kin'
    <3>1. \A k \in DOMAIN chan' : KnownCopy(chan'[k])
      BY <2>1
    <3> QED BY <1>4, <1>6, <1>8, <2>1, <3>1, Sources DEF Shapes
  <2>3. Current'
    BY <1>2, <1>7, <1>8, <2>1 DEF Current
  <2> QED BY <1>3, <2>2, <2>3
<1>10. CASE Board!SendListing
  <2>1. /\ sub = "new" /\ sub' = "on" /\ chan' = chan /\ stream' = stream \o Board!Listing
        /\ doubt' = IF Board!Overtaking THEN doubt ELSE doubt \cap {c.id : c \in Board!Range(chan)}
    BY <1>10 DEF Board!SendListing
  <2>2. Stream(stream') /\ \A k \in DOMAIN stream' : KnownCopy(stream'[k])
    <3> DEFINE L == Board!Listing
    <3>1. \A k \in DOMAIN L : KnownCopy(L[k])
      BY <1>4, Sources
    <3>2. Stream(stream \o L) /\ Stream(L)
      BY <1>4, Joins
    <3> DEFINE u == stream \o L
    <3> HIDE DEF L
    <3>3. \A k \in DOMAIN u : (\E j \in DOMAIN stream : u[k] = stream[j]) \/ (\E j \in DOMAIN L : u[k] = L[j])
      BY <1>4, <3>2, Mixes
    <3>4. stream' = u
      BY <2>1 DEF L
    <3>5. \A k \in DOMAIN stream : KnownCopy(stream[k])
      BY Sources
    <3> HIDE DEF u
    <3>6. \A k \in DOMAIN u : KnownCopy(u[k])
      BY <3>1, <3>3, <3>5
    <3> QED BY <3>2, <3>4, <3>6 DEF u
  <2>3. Shapes' /\ Kin'
    BY <1>6, <2>1, <2>2, Sources DEF Shapes
  <2>4. ASSUME NEW i \in Board!Present, i \notin doubt'
        PROVE  /\ Mentions(chan, i) => i \notin doubt
               /\ \A d \in cmds' : d.op = "sessions" => i \notin doubt
    <3>1. i \in {c.id : c \in Board!Range(chan)} <=> Mentions(chan, i)
      BY DEF Board!Range, Mentions
    <3> QED BY <1>1, <2>1, <2>4, <3>1 DEF Board!Overtaking
  <2>5. ASSUME NEW i \in Board!Present, i \notin doubt'
        PROVE  /\ Mentions(chan', i) => Undisturbed(chan', Board!Copy(i))
               /\ Mentions(stream', i) /\ Undisturbed(stream', Board!Copy(i))
               /\ \A d \in cmds' : d.op = "sessions" => \E a \in DOMAIN d.rows : d.rows[a] = Board!Copy(i)
    <3>1. Mentions(chan', i) => Undisturbed(chan', Board!Copy(i))
      BY <2>1, <2>4, <2>5 DEF Current
    <3>2. Board!Copy(i).id = i
      BY DEF Shapes
    <3>3. Mentions(stream', i) /\ Undisturbed(stream', Board!Copy(i))
      BY <1>4, <2>1, <3>2, Lists, Says
    <3>4. ASSUME NEW d \in cmds', d.op = "sessions" PROVE  \E a \in DOMAIN d.rows : d.rows[a] = Board!Copy(i)
      BY <1>7, <2>4, <2>5, <3>4
    <3> QED BY <3>1, <3>3, <3>4
  <2>6. Current'
    BY <1>2, <2>5 DEF Current
  <2> QED BY <1>3, <2>3, <2>6
<1>11. CASE Board!SendEvent
  <2>1. /\ sub = "on" /\ chan # <<>> /\ stream' = Append(stream, Head(chan)) /\ chan' = Tail(chan)
        /\ sub' = sub /\ doubt' = doubt
    BY <1>11 DEF Board!SendEvent
  <2> DEFINE e == Head(chan)
  <2>2. /\ 1 \in DOMAIN chan /\ e = chan[1] /\ Stream(chan') /\ Len(chan') = Len(chan) - 1
        /\ \A k \in 1 .. Len(chan) - 1 : chan'[k] = chan[k + 1]
        /\ DOMAIN chan = 1 .. Len(chan)
    BY <1>4, <2>1, Streams
  <2>3. IsCopy(e)
    BY <1>4, <2>2 DEF Stream
  <2>4. \A k \in DOMAIN chan' : KnownCopy(chan'[k])
    <3>1. DOMAIN chan' = 1 .. Len(chan) - 1
      BY <2>2, Streams
    <3>2. \A k \in DOMAIN chan' : k + 1 \in DOMAIN chan /\ chan'[k] = chan[k + 1]
      BY <1>4, <2>2, <3>1
    <3> QED BY <3>2, Sources
  <2>5. Stream(stream') /\ \A k \in DOMAIN stream' : KnownCopy(stream'[k])
    <3> HIDE DEF e
    <3> DEFINE o == <<e>>
    <3>1. Stream(o) /\ Append(stream, e) = stream \o o /\ Stream(Append(stream, e))
      BY <1>4, <2>3, Adds
    <3>2. \A k \in DOMAIN o : o[k] = e
      OBVIOUS
    <3>3. KnownCopy(e)
      BY <2>2, Sources
    <3> HIDE DEF o
    <3> QED BY <1>4, <2>1, <3>1, <3>2, <3>3, Mixes, Sources DEF e
  <2>6. Shapes' /\ Kin'
    <3>1. Len(chan') <= MaxQueue
      BY <1>4, <2>2 DEF Shapes
    <3> QED BY <1>6, <2>1, <2>2, <2>4, <2>5, <3>1 DEF Shapes
  <2>7. ASSUME NEW i \in Board!Present \ doubt
        PROVE  /\ Mentions(chan', i) => Undisturbed(chan', Board!Copy(i))
               /\ ~Mentions(chan', i) /\ Mentions(stream', i) => Undisturbed(stream', Board!Copy(i))
               /\ ~Mentions(chan', i) /\ ~Mentions(stream', i) => ~Mentions(chan, i) /\ ~Mentions(stream, i)
    <3> DEFINE c == Board!Copy(i)
    <3>1. c.id = i
      BY <1>5
    <3>2. /\ Mentions(chan, i) => Undisturbed(chan, c)
          /\ ~Mentions(chan, i) /\ Mentions(stream, i) => Undisturbed(stream, c)
      BY <2>1 DEF Current
    <3>3. /\ Mentions(chan', i) => Mentions(chan, i) /\ (Undisturbed(chan, c) => Undisturbed(chan', c))
          /\ Mentions(chan, i) /\ ~Mentions(chan', i) => e.id = i /\ (Undisturbed(chan, c) => e = c)
      <4> HIDE DEF c, e
      <4> QED BY <1>4, <2>1, <3>1, Heard DEF e
    <3>4. /\ Mentions(stream', i) <=> Mentions(stream, i) \/ e.id = i
          /\ e = c => Undisturbed(stream', c)
          /\ e.id # i /\ Undisturbed(stream, c) => Undisturbed(stream', c)
      <4> HIDE DEF c, e
      <4> QED BY <1>4, <2>1, <2>3, <3>1, TellsOf DEF e
    <3>5. e.id = i => Mentions(chan, i)
      BY <2>2 DEF Mentions
    <3> HIDE DEF c, e
    <3> QED BY <3>2, <3>3, <3>4, <3>5 DEF c
  <2>8. Current'
    <3>1. \A i : Board!Alone(i)' = Board!Alone(i) /\ Reading(i)' = Reading(i)
      BY <1>1, <1>2 DEF Board!Alone, Reading
    <3> QED BY <1>1, <1>2, <1>7, <2>1, <2>7, <3>1 DEF Current
  <2> QED BY <1>3, <2>6, <2>8
<1>12. CASE Board!Disconnect
  <2>1. PICK k \in 0 .. Len(stream) : stream' = SubSeq(stream, 1, k) /\ chan' = <<>> /\ sub' = "off"
    BY <1>12 DEF Board!Disconnect, Board!Cut
  <2>2. doubt' = doubt
    BY <1>12 DEF Board!Disconnect
  <2>3. Stream(stream') /\ \A j \in DOMAIN stream' : KnownCopy(stream'[j])
    <3>1. Stream(stream') /\ \A j \in DOMAIN stream' : j \in DOMAIN stream /\ stream'[j] = stream[j]
      BY <1>4, <2>1, Cuts
    <3> QED BY <3>1, Sources
  <2>4. Shapes' /\ Kin'
    <3>1. \A j \in DOMAIN chan' : KnownCopy(chan'[j])
      BY <2>1
    <3> QED BY <1>4, <1>6, <1>8, <2>1, <2>2, <2>3, <3>1 DEF Shapes
  <2>5. Current'
    BY <1>2, <1>7, <2>1, <2>2 DEF Current
  <2> QED BY <1>3, <2>4, <2>5
<1>13. CASE UNCHANGED Board!dashVars
  <2>1. UNCHANGED <<sub, chan, stream, doubt, count>>
    BY <1>13 DEF Board!dashVars
  <2>2. Shapes' /\ Kin'
    BY <1>6, <2>1, Sources DEF Shapes
  <2>3. \A i : Board!Alone(i)' = Board!Alone(i) /\ Reading(i)' = Reading(i)
    BY <1>1, <1>2 DEF Board!Alone, Reading
  <2>4. Current'
    BY <1>1, <1>2, <2>1, <2>3 DEF Current
  <2> QED BY <1>3, <2>2, <2>4
<1> QED BY <1>9, <1>10, <1>11, <1>12, <1>13

\* An event is handled.
LEMMA StepHandle ==
  ASSUME Numbering, Tracks, Board!Handle
  PROVE  Shapes' /\ Kin' /\ Heads' /\ Current'
<1> USE DEF Tracks
<1> DEFINE e == Head(stream)
           L == Filed1(tui.list, e)
<1>1. /\ UNCHANGED <<store, sub, chan, cmds, count, doubt>> /\ stream # <<>> /\ stream' = Tail(stream)
      /\ Board!Show([tui EXCEPT !.list = L])
  BY DEF Board!Handle, Filed1
<1>2. Board!Present' = Board!Present /\ (\A i : Board!Copy(i)' = Board!Copy(i)) /\ \A i : Board!Alone(i)' = Board!Alone(i) /\ Reading(i)' = Reading(i)
  BY <1>1 DEF Board!Present, Board!Copy, Board!Alone, Reading
<1>3. tui'.list = Board!Merged(L)
  <2>1. "list" \in DOMAIN tui
    BY DEF BoardIInv, Records
  <2> HIDE DEF L
  <2> QED BY <1>1, <2>1 DEF Board!Show
<1>4. Stream(chan) /\ Stream(stream) /\ Stream(tui.list) /\ NoId \notin Sessions
  BY DEF Shapes, Numbering
<1>5. /\ 1 \in DOMAIN stream /\ e = stream[1] /\ Stream(stream')
      /\ \A k \in DOMAIN stream' : k + 1 \in DOMAIN stream /\ stream'[k] = stream[k + 1]
  <2>1. /\ 1 \in DOMAIN stream /\ e = stream[1] /\ Stream(stream') /\ Len(stream') = Len(stream) - 1
        /\ \A k \in 1 .. Len(stream) - 1 : stream'[k] = stream[k + 1]
        /\ Len(stream) \in Nat /\ DOMAIN stream = 1 .. Len(stream)
    BY <1>1, <1>4, Streams
  <2>2. DOMAIN stream' = 1 .. Len(stream) - 1
    BY <2>1, Streams
  <2> QED BY <2>1, <2>2
<1>6. IsCopy(e) /\ KnownCopy(e)
  BY <1>4, <1>5, Sources DEF Stream
<1> HIDE DEF e
<1>7. /\ Stream(L) /\ DOMAIN tui.list \subseteq DOMAIN L
      /\ \A k \in DOMAIN L : L[k] = e \/ (k \in DOMAIN tui.list /\ L[k] = tui.list[k])
  BY <1>4, <1>6, FilesOnce
<1> HIDE DEF L
<1>8. Stream(tui'.list) /\ Likewise(tui'.list, L)
  BY <1>3, <1>7, Merges
<1>9. \A k \in DOMAIN tui'.list : KnownCopy(tui'.list[k])
  <2>1. \A k \in DOMAIN L : KnownCopy(L[k])
    BY <1>6, <1>7, Sources
  <2> QED BY <1>8, <2>1 DEF Likewise, KnownCopy
<1>10. Shapes'
  BY <1>1, <1>2, <1>5, <1>8 DEF Shapes
<1>11. Kin'
  <2>1. /\ count.gone \subseteq count'.gone /\ count.heirs \subseteq count'.heirs
        /\ Board!Present \cup count.gone \subseteq Board!Present' \cup count'.gone
        /\ Board!Present' \cap count'.gone = {}
    BY <1>1, <1>2 DEF Kin
  <2>2. /\ \A i \in Board!Present' : KnownCopy(store'.rows[i])
        /\ \A k \in DOMAIN stream' : KnownCopy(stream'[k])
        /\ \A k \in DOMAIN chan' : KnownCopy(chan'[k])
        /\ \A d \in cmds' : d.op = "sessions" => \A k \in DOMAIN d.rows : KnownCopy(d.rows[k])
    BY <1>1, <1>2, <1>5, Sources DEF Board!Copy
  <2> DEFINE F == FALSE
  <2>3. F \in BOOLEAN /\ ~F
    OBVIOUS
  <2> HIDE DEF F
  <2> QED BY <1>9, <2>1, <2>2, <2>3, KinStep
\* The row of a session, when the event is another's and when it is its own.
<1>12. ASSUME NEW i \in Board!Present, Board!Copy(i).old \notin count.heirs
       PROVE  /\ AheadOf(L, Board!Copy(i))
              /\ e.id = i => \E a \in DOMAIN L : L[a] = e
              /\ e.id # i => \A a \in DOMAIN tui.list : tui.list[a].id = i =>
                               a \in DOMAIN L /\ L[a] = tui.list[a]
  <2> DEFINE c == Board!Copy(i)
  <2>1. IsCopy(c) /\ c.id = i /\ c.old # i /\ i \in Sessions /\ i \notin count.gone
    BY <1>4, Meanwhile DEF Kin
  <2>2. KnownCopy(c)
    BY Sources
  <2>3. AheadOf(tui.list, c)
    BY <1>12 DEF Heads
  <2>4. c.old \notin count.heirs
    BY <1>12
  <2> HIDE DEF c
  <2>5. e.old # c.id /\ (e.id = c.id => e.old = c.old) /\ (e.id = c.old => e.old = NoId)
    BY <1>4, <1>6, <2>1, <2>2, <2>4, Kindred
  <2>6. /\ AheadOf(L, c)
        /\ e.id = c.id => \E a \in DOMAIN L : L[a] = e
        /\ e.id # c.id => \A a \in DOMAIN tui.list : tui.list[a].id = c.id =>
                            a \in DOMAIN L /\ L[a] = tui.list[a]
    BY <1>4, <1>6, <2>1, <2>3, <2>5, Filings DEF L
  <2> QED BY <2>1, <2>6 DEF c
<1>13. Heads'
  <2> SUFFICES ASSUME NEW i \in Board!Present, Board!Copy(i).old \notin count.heirs
               PROVE  AheadOf(tui'.list, Board!Copy(i))
    BY <1>1, <1>2 DEF Heads
  <2> QED BY <1>7, <1>8, <1>12, Shifts
<1>14. Current'
  <2> SUFFICES ASSUME NEW i \in Board!Present \ doubt
               PROVE  /\ sub = "on" /\ ~Mentions(chan, i) /\ Mentions(stream', i) => Undisturbed(stream', Board!Copy(i))
                      /\ sub = "on" /\ ~Mentions(chan, i) /\ ~Mentions(stream', i) /\ Board!Alone(i) =>
                           Near(tui'.list, Board!Copy(i), Reading(i))
    BY <1>1, <1>2 DEF Current
  <2> DEFINE c == Board!Copy(i)
  <2>1. IsCopy(c) /\ c.id = i
    BY DEF Shapes
  <2>2. /\ sub = "on" /\ ~Mentions(chan, i) /\ Mentions(stream, i) => Undisturbed(stream, c)
        /\ sub = "on" /\ ~Mentions(chan, i) /\ ~Mentions(stream, i) /\ Board!Alone(i) =>
             Near(tui.list, c, Reading(i))
    BY DEF Current
  <2>3. Board!Alone(i) => Spaced(i) /\ c.old \notin count.heirs
    BY DEF Board!Alone, Spaced
  <2>4. c.old \notin count.heirs =>
          /\ AheadOf(L, c)
          /\ e.id = i => \E a \in DOMAIN L : L[a] = e
          /\ e.id # i => \A a \in DOMAIN tui.list : tui.list[a].id = i =>
                           a \in DOMAIN L /\ L[a] = tui.list[a]
    BY <1>12
  <2> HIDE DEF c
  <2>5. /\ Mentions(stream', i) => Mentions(stream, i) /\ (Undisturbed(stream, c) => Undisturbed(stream', c))
        /\ Mentions(stream, i) /\ ~Mentions(stream', i) => e.id = i /\ (Undisturbed(stream, c) => e = c)
    BY <1>1, <1>4, <2>1, Heard DEF e
  <2>6. e.id = i => Mentions(stream, i)
    BY <1>5 DEF Mentions
  <2>7. ASSUME sub = "on", ~Mentions(chan, i), ~Mentions(stream', i), Board!Alone(i)
        PROVE  Near(tui'.list, c, Reading(i))
    <3>1. Near(L, c, Reading(i))
      <4>1. CASE e.id = i
        <5>1. e = c
          BY <2>2, <2>5, <2>6, <2>7, <4>1
        <5> QED BY <2>3, <2>4, <2>7, <4>1, <5>1 DEF Near
      <4>2. CASE e.id # i
        <5>1. Near(tui.list, c, Reading(i))
          BY <2>2, <2>5, <2>7, <4>2
        <5>2. PICK a \in DOMAIN tui.list : \/ tui.list[a] = c
                                           \/ Reading(i) /\ tui.list[a] = [c EXCEPT !.unread = FALSE]
          BY <5>1 DEF Near
        <5>3. tui.list[a].id = i
          BY <2>1, <5>2 DEF IsCopy
        <5> QED BY <2>3, <2>4, <2>7, <4>2, <5>2, <5>3 DEF Near
      <4> QED BY <4>1, <4>2
    <3> QED BY <1>3, <1>7, <2>1, <2>3, <2>4, <2>7, <3>1, ShowsList
  <2> QED BY <2>2, <2>5, <2>7 DEF c
<1> QED BY <1>10, <1>11, <1>13, <1>14

\* The dashboard takes an answer, a key or the terminal.
LEMMA LooksAt ==
  ASSUME Numbering, Tracks, UNCHANGED <<store, doubt>>, count'.gone = count.gone,
         count'.heirs = count.heirs, DOMAIN count' = DOMAIN count,
         UNCHANGED <<sub, chan, stream>> \/ Board!Cut("off"),
         NEW L, tui'.list = Board!Merged(L),
         \/ L = tui.list
         \/ \E d \in cmds' : d.op = "read" /\ L = Board!Seen(tui.list, d.id)
         \/ \E d \in cmds : d.op = "sessions" /\ L = d.rows,
         \A d \in cmds' \ cmds : d.op \in Kinds \ {"sessions"} /\ (d.op = "archive" => d.to \in BOOLEAN),
         \A d \in cmds \ cmds' : d.op # "read"
  PROVE  Shapes' /\ Kin' /\ Heads' /\ Current'
<1> USE DEF Tracks
<1>1. Board!Present' = Board!Present /\ (\A i : Board!Copy(i)' = Board!Copy(i)) /\ \A i : Board!Alone(i)' = Board!Alone(i)
  BY DEF Board!Present, Board!Copy, Board!Alone
<1>2. \A i : Reading(i) => Reading(i)'
  BY DEF Reading
<1>3. \A d \in cmds' : d.op = "sessions" => d \in cmds
  OBVIOUS
<1>4. /\ Stream(chan) /\ Stream(stream) /\ Stream(tui.list) /\ NoId \notin Sessions /\ MaxQueue \in Nat
      /\ \A d \in cmds : d.op = "sessions" => Stream(d.rows)
      /\ sub \in {"off", "new", "on"} /\ doubt \subseteq Sessions /\ Len(chan) <= MaxQueue
  BY DEF Shapes, Numbering
<1>5. /\ Stream(L) /\ \A k \in DOMAIN L : KnownCopy(L[k])
      /\ \A c : AheadOf(tui.list, c) /\ (\A d \in cmds : d.op = "sessions" => AheadOf(d.rows, c)) => AheadOf(L, c)
  <2>1. CASE L = tui.list
    BY <1>4, <2>1, Sources
  <2>2. CASE \E d \in cmds' : d.op = "read" /\ L = Board!Seen(tui.list, d.id)
    <3>1. Stream(L) /\ Likewise(L, tui.list)
      BY <1>4, <2>2, Marking
    <3> QED BY <1>4, <3>1, Shifts, Sources DEF Likewise, KnownCopy
  <2>3. CASE \E d \in cmds : d.op = "sessions" /\ L = d.rows
    BY <1>4, <2>3, Sources
  <2> QED BY <2>1, <2>2, <2>3
<1>6. Stream(tui'.list) /\ Likewise(tui'.list, L)
  BY <1>5, Merges
<1>7. \A k \in DOMAIN tui'.list : KnownCopy(tui'.list[k])
  BY <1>5, <1>6 DEF Likewise, KnownCopy
<1>8. /\ Stream(chan') /\ Stream(stream') /\ Len(chan') <= MaxQueue /\ sub' \in {"off", "new", "on"}
      /\ sub' = "off" => chan' = <<>>
      /\ \A k \in DOMAIN chan' : KnownCopy(chan'[k])
      /\ \A k \in DOMAIN stream' : KnownCopy(stream'[k])
  <2>1. CASE UNCHANGED <<sub, chan, stream>>
    BY <1>4, <2>1, Sources DEF Shapes
  <2>2. CASE Board!Cut("off")
    <3>1. PICK k \in 0 .. Len(stream) : stream' = SubSeq(stream, 1, k) /\ chan' = <<>> /\ sub' = "off"
      BY <2>2 DEF Board!Cut
    <3>2. Stream(stream') /\ \A j \in DOMAIN stream' : j \in DOMAIN stream /\ stream'[j] = stream[j]
      BY <1>4, <3>1, Cuts
    <3>3. Stream(<<>>) /\ Len(<<>>) = 0 /\ DOMAIN <<>> = {}
      BY DEF Stream, Board!Range
    <3> QED BY <1>4, <3>1, <3>2, <3>3, Sources
  <2> QED BY <2>1, <2>2
<1>9. Shapes'
  <2>1. \A d \in cmds' : /\ d.op \in Kinds
                         /\ d.op = "sessions" => Stream(d.rows)
                         /\ d.op = "archive" => d.to \in BOOLEAN
    BY DEF Shapes
  <2>2. /\ Board!Present' \subseteq Sessions /\ \A i \in Board!Present' : IsCopy(Board!Copy(i)') /\ Board!Copy(i)'.id = i
        /\ \A q \in DOMAIN store'.nodes : store'.nodes[q] \in {Dir[p] : p \in Paths}
        /\ doubt' \subseteq Sessions /\ "gone" \in DOMAIN count' /\ "heirs" \in DOMAIN count'
    BY <1>1 DEF Shapes
  <2> QED BY <1>6, <1>8, <2>1, <2>2 DEF Shapes
<1>10. Kin'
  <2>1. /\ count.gone \subseteq count'.gone /\ count.heirs \subseteq count'.heirs
        /\ Board!Present \cup count.gone \subseteq Board!Present' \cup count'.gone
        /\ Board!Present' \cap count'.gone = {}
    BY <1>1 DEF Kin
  <2>2. /\ \A i \in Board!Present' : KnownCopy(store'.rows[i])
        /\ \A d \in cmds' : d.op = "sessions" => \A k \in DOMAIN d.rows : KnownCopy(d.rows[k])
    BY <1>1, <1>3, Sources DEF Board!Copy
  <2> DEFINE F == FALSE
  <2>3. F \in BOOLEAN /\ ~F
    OBVIOUS
  <2> HIDE DEF F
  <2> QED BY <1>7, <1>8, <2>1, <2>2, <2>3, KinStep
<1>11. ASSUME NEW i \in Board!Present, Board!Copy(i).old \notin count.heirs
       PROVE  AheadOf(L, Board!Copy(i))
  BY <1>5, <1>11 DEF Heads
<1>12. Heads'
  <2> SUFFICES ASSUME NEW i \in Board!Present, Board!Copy(i).old \notin count.heirs
               PROVE  /\ AheadOf(tui'.list, Board!Copy(i))
                      /\ \A d \in cmds' : d.op = "sessions" => AheadOf(d.rows, Board!Copy(i))
    BY <1>1 DEF Heads
  <2>1. AheadOf(tui'.list, Board!Copy(i))
    BY <1>5, <1>6, <1>11, Shifts
  <2> QED BY <1>3, <2>1 DEF Heads
<1>13. Current'
  <2> SUFFICES ASSUME NEW i \in Board!Present \ doubt
               PROVE  /\ sub' # "off" /\ Mentions(chan', i) => Undisturbed(chan', Board!Copy(i))
                      /\ sub' = "on" /\ ~Mentions(chan', i) /\ Mentions(stream', i) => Undisturbed(stream', Board!Copy(i))
                      /\ sub' = "on" /\ ~Mentions(chan', i) /\ ~Mentions(stream', i) /\ Board!Alone(i) =>
                           Near(tui'.list, Board!Copy(i), Reading(i)')
                      /\ \A d \in cmds' : d.op = "sessions" => \E a \in DOMAIN d.rows : d.rows[a] = Board!Copy(i)
    BY <1>1 DEF Current
  <2> DEFINE c == Board!Copy(i)
  <2>1. IsCopy(c) /\ c.id = i
    BY DEF Shapes
  <2>2. \A d \in cmds' : d.op = "sessions" => \E a \in DOMAIN d.rows : d.rows[a] = c
    BY <1>3 DEF Current
  <2>3. Board!Alone(i) => Spaced(i) /\ c.old \notin count.heirs
    BY DEF Board!Alone, Spaced
  <2>4. c.old \notin count.heirs => AheadOf(L, c)
    BY <1>11
  <2>5. CASE Board!Cut("off")
    BY <2>2, <2>5 DEF Board!Cut
  <2>6. CASE UNCHANGED <<sub, chan, stream>>
    <3>1. /\ sub # "off" /\ Mentions(chan, i) => Undisturbed(chan, c)
          /\ sub = "on" /\ ~Mentions(chan, i) /\ Mentions(stream, i) => Undisturbed(stream, c)
          /\ sub = "on" /\ ~Mentions(chan, i) /\ ~Mentions(stream, i) /\ Board!Alone(i) =>
               Near(tui.list, c, Reading(i))
          /\ \A d \in cmds : d.op = "sessions" => \E a \in DOMAIN d.rows : d.rows[a] = c
      BY DEF Current
    <3> HIDE DEF c
    <3>2. Near(tui.list, c, Reading(i)) => Near(L, c, Reading(i)')
      <4> SUFFICES ASSUME Near(tui.list, c, Reading(i)) PROVE  Near(L, c, Reading(i)')
        OBVIOUS
      <4>1. CASE L = tui.list
        BY <1>2, <4>1 DEF Near
      <4>2. CASE \E d \in cmds' : d.op = "read" /\ L = Board!Seen(tui.list, d.id)
        <5>1. PICK d \in cmds' : d.op = "read" /\ L = Board!Seen(tui.list, d.id)
          BY <4>2
        <5>2. Near(L, c, Reading(i) \/ d.id = c.id)
          BY <1>4, <2>1, <5>1, Marking
        <5>3. d.id = i => Reading(i)'
          BY <5>1 DEF Reading
        <5> QED BY <1>2, <2>1, <5>2, <5>3 DEF Near
      <4>3. CASE \E d \in cmds : d.op = "sessions" /\ L = d.rows
        BY <3>1, <4>3 DEF Near
      <4> QED BY <4>1, <4>2, <4>3
    <3>3. Near(tui.list, c, Reading(i)) /\ Board!Alone(i) => Near(tui'.list, c, Reading(i)')
      BY <1>5, <2>1, <2>3, <2>4, <3>2, ShowsList
    <3> QED BY <2>2, <2>6, <3>1, <3>3 DEF c
  <2> QED BY <2>5, <2>6
<1> QED BY <1>9, <1>10, <1>12, <1>13

\* The daemon's rows change, and it is told or not.
LEMMA Writes ==
  ASSUME Numbering, Tracks, UNCHANGED <<sub, stream, tui>>,
         NEW table, NEW tree, NEW copies, NEW silent, Board!Write(table, tree, copies, silent),
         NEW r, NEW F \in BOOLEAN,
         copies = <<>> \/ (copies = <<r>> /\ IsCopy(r)), silent \subseteq Sessions,
         DOMAIN table \subseteq Sessions, \A i \in DOMAIN table : IsCopy(table[i]) /\ table[i].id = i,
         \A i \in DOMAIN table \cap Board!Present :
           /\ table[i].old = Board!Copy(i).old
           /\ table[i] = Board!Copy(i) \/ i \in silent \/ (copies = <<r>> /\ table[i] = r),
         \A i \in DOMAIN table \ Board!Present : F /\ table[i] = r,
         copies = <<r>> => /\ F \/ (r.id \in Board!Present /\ r.old = Board!Copy(r.id).old)
                           /\ r.id \in DOMAIN table => table[r.id] = r,
         F => /\ copies = <<r>> /\ r.id \in DOMAIN table /\ r.id \notin Board!Present \cup count.gone
              /\ r.old # NoId => r.old \in Board!Present \ DOMAIN table /\ r.id \in count'.heirs,
         count'.gone = count.gone \cup (Board!Present \ DOMAIN table), count.heirs \subseteq count'.heirs,
         DOMAIN count' = DOMAIN count,
         \A q \in DOMAIN tree : tree[q] \in {Dir[p] : p \in Paths},
         \A d \in cmds' \ cmds : d.op \in Kinds \ {"sessions", "archive"},
         \A d \in cmds \ cmds' : d.op = "read" => copies = <<r>> /\ r.id = d.id
  PROVE  Shapes' /\ Kin' /\ Heads' /\ Current'
<1> USE DEF Tracks
<1> DEFINE drops == sub # "off" /\ Len(chan) + Len(copies) > MaxQueue
           told == {c.id : c \in Board!Range(copies)}
<1>1. store'.rows = table /\ store'.nodes = tree /\ Board!Present' = DOMAIN table /\ \A i : Board!Copy(i)' = table[i]
  BY DEF Board!Write, Board!Present, Board!Copy
<1>2. /\ chan' = IF sub = "off" \/ drops THEN chan ELSE chan \o copies
      /\ doubt' = (doubt \cup silent \cup (IF drops \/ Board!Overtaking THEN told ELSE {}))
                    \ (IF drops \/ Board!Overtaking THEN {} ELSE told)
  BY DEF Board!Write, Board!Broadcast
<1>3. \/ copies = <<>> /\ told = {} /\ Len(copies) = 0
      \/ copies = <<r>> /\ IsCopy(r) /\ told = {r.id} /\ Len(copies) = 1
  <2>1. CASE copies = <<>>
    BY <2>1 DEF Board!Range
  <2>2. CASE copies = <<r>> /\ IsCopy(r)
    <3>1. Board!Range(copies) = {r} /\ Len(copies) = 1
      BY <2>2 DEF Board!Range
    <3> QED BY <2>2, <3>1
  <2> QED BY <2>1, <2>2
<1> HIDE DEF told
<1>4. /\ Stream(chan) /\ Stream(stream) /\ Stream(tui.list) /\ NoId \notin Sessions /\ MaxQueue \in Nat
      /\ sub \in {"off", "new", "on"} /\ doubt \subseteq Sessions /\ Len(chan) <= MaxQueue
      /\ Len(chan) \in Nat
      /\ sub = "off" => chan = <<>>
      /\ \A i \in Board!Present : IsCopy(Board!Copy(i)) /\ Board!Copy(i).id = i
  BY Streams DEF Shapes, Numbering
<1>5. \/ chan' = chan
      \/ copies = <<r>> /\ IsCopy(r) /\ chan' = Append(chan, r) /\ sub # "off" /\ ~drops
  <2>1. CASE copies = <<>>
    <3>1. chan \o <<>> = chan
      <4>1. chan \in Seq(Board!Range(chan))
        BY <1>4 DEF Stream
      <4> QED BY <4>1
    <3> QED BY <1>2, <2>1, <3>1
  <2>2. CASE copies = <<r>> /\ IsCopy(r)
    <3>1. Append(chan, r) = chan \o <<r>>
      BY <1>4, <2>2, Adds
    <3> QED BY <1>2, <2>2, <3>1
  <2> QED BY <2>1, <2>2
<1>6. copies = <<r>> => F \/ KnownCopy(r)
  <2> SUFFICES ASSUME copies = <<r>>, ~F PROVE  KnownCopy(r)
    OBVIOUS
  <2>1. r.id \in Board!Present /\ r.old = Board!Copy(r.id).old /\ Board!Copy(r.id).id = r.id
    BY <1>4
  <2> QED BY <2>1, Sources DEF KnownCopy
<1>7. Stream(chan') /\ Len(chan') <= MaxQueue /\ (\A k \in DOMAIN chan' : KnownCopy(chan'[k]) \/ (F /\ chan'[k] = r))
      /\ (sub' = "off" => chan' = <<>>)
  <2>1. CASE chan' = chan
    BY <1>4, <2>1, Sources
  <2>2. CASE copies = <<r>> /\ IsCopy(r) /\ chan' = Append(chan, r) /\ sub # "off" /\ ~drops
    <3>1. /\ Stream(chan') /\ Len(chan') = Len(chan) + 1 /\ chan'[Len(chan) + 1] = r
          /\ \A k \in 1 .. Len(chan) : chan'[k] = chan[k]
      BY <1>4, <2>2, Adds
    <3>2. DOMAIN chan' = 1 .. Len(chan) + 1 /\ DOMAIN chan = 1 .. Len(chan)
      BY <1>4, <3>1, Streams
    <3>3. \A k \in DOMAIN chan' : chan'[k] = r \/ (k \in DOMAIN chan /\ chan'[k] = chan[k])
      BY <1>4, <3>1, <3>2
    <3>4. Len(copies) = 1
      BY <1>3, <2>2
    <3>5. Len(chan') <= MaxQueue
      BY <1>4, <2>2, <3>1, <3>4
    <3> QED BY <1>6, <2>2, <3>1, <3>3, <3>5, Sources
  <2> QED BY <1>5, <2>1, <2>2
<1>8. Shapes'
  <2>1. \A d \in cmds' : /\ d.op \in Kinds
                         /\ d.op = "sessions" => Stream(d.rows)
                         /\ d.op = "archive" => d.to \in BOOLEAN
    BY DEF Shapes
  <2>2. doubt' \subseteq Sessions
    <3>1. told \subseteq Sessions
      BY <1>3 DEF IsCopy
    <3> QED BY <1>2, <1>4, <3>1
  <2>3. "gone" \in DOMAIN count' /\ "heirs" \in DOMAIN count'
    BY DEF Shapes
  <2> QED BY <1>1, <1>4, <1>7, <2>1, <2>2, <2>3 DEF Shapes
<1>9. \A d \in cmds' : d.op = "sessions" => d \in cmds
  OBVIOUS
<1>10. Kin'
  <2>1. /\ count.gone \subseteq count'.gone /\ count.heirs \subseteq count'.heirs
        /\ Board!Present \cup count.gone \subseteq Board!Present' \cup count'.gone
        /\ Board!Present' \cap count'.gone = {}
    BY <1>1 DEF Kin
  <2>2. F => /\ r.id \notin Board!Present \cup count.gone /\ r.id \in Board!Present' \cup count'.gone
             /\ r.old # NoId => r.old \notin count.gone /\ r.old \in count'.gone /\ r.id \in count'.heirs
    BY <1>1 DEF Kin
  <2>3. ASSUME NEW i \in Board!Present' PROVE  KnownCopy(store'.rows[i]) \/ (F /\ store'.rows[i] = r)
    <3>1. CASE i \in Board!Present
      <4>1. table[i].id = Board!Copy(i).id /\ table[i].old = Board!Copy(i).old
        BY <1>1, <1>4, <3>1
      <4> QED BY <1>1, <3>1, <4>1, Sources DEF KnownCopy
    <3> QED BY <1>1, <3>1
  <2>4. /\ \A k \in DOMAIN tui'.list : KnownCopy(tui'.list[k])
        /\ \A k \in DOMAIN stream' : KnownCopy(stream'[k])
        /\ \A d \in cmds' : d.op = "sessions" => \A k \in DOMAIN d.rows : KnownCopy(d.rows[k])
    BY <1>9, Sources
  <2> QED BY <1>7, <2>1, <2>2, <2>3, <2>4, KinStep
<1>11. Heads'
  <2> SUFFICES ASSUME NEW i \in DOMAIN table, table[i].old \notin count.heirs
               PROVE  /\ AheadOf(tui.list, table[i])
                      /\ \A d \in cmds : d.op = "sessions" => AheadOf(d.rows, table[i])
    BY <1>1, <1>9 DEF Heads
  <2>1. CASE i \in Board!Present
    <3>1. table[i].id = Board!Copy(i).id /\ table[i].old = Board!Copy(i).old
      BY <1>4, <2>1
    <3>2. /\ AheadOf(tui.list, Board!Copy(i))
          /\ \A d \in cmds : d.op = "sessions" => AheadOf(d.rows, Board!Copy(i))
      BY <2>1, <3>1 DEF Heads
    <3> QED BY <3>1, <3>2 DEF AheadOf
  <2>2. CASE i \notin Board!Present
    <3>1. table[i].id \notin Board!Present \cup count.gone
      BY <2>2
    <3>2. \A c : KnownCopy(c) => c.id # table[i].id
      <4>1. ASSUME NEW c, KnownCopy(c) PROVE  c.id \in Board!Present \cup count.gone
        BY <4>1, Kindred
      <4> QED BY <3>1, <4>1
    <3>3. \A k \in DOMAIN tui.list : tui.list[k].id # table[i].id
      BY <3>2, Sources
    <3>4. \A d \in cmds : d.op = "sessions" => \A k \in DOMAIN d.rows : d.rows[k].id # table[i].id
      BY <3>2, Sources
    <3> QED BY <3>3, <3>4 DEF AheadOf
  <2> QED BY <2>1, <2>2
<1>12. Current'
  <2> SUFFICES ASSUME NEW i \in DOMAIN table \ doubt'
               PROVE  /\ sub # "off" /\ Mentions(chan', i) => Undisturbed(chan', table[i])
                      /\ sub = "on" /\ ~Mentions(chan', i) /\ Mentions(stream, i) => Undisturbed(stream, table[i])
                      /\ sub = "on" /\ ~Mentions(chan', i) /\ ~Mentions(stream, i) /\ Board!Alone(i)' =>
                           Near(tui.list, table[i], Reading(i)')
                      /\ \A d \in cmds' : d.op = "sessions" => \E a \in DOMAIN d.rows : d.rows[a] = table[i]
    BY <1>1 DEF Current
  <2>1. CASE i \in told
    <3>1. ~drops /\ ~Board!Overtaking /\ copies = <<r>> /\ IsCopy(r) /\ i = r.id /\ table[i] = r
      BY <1>2, <1>3, <2>1
    <3>2. \A d \in cmds' : d.op # "sessions"
      BY <1>9, <3>1 DEF Board!Overtaking
    <3>3. CASE sub = "off"
      BY <3>2, <3>3
    <3>4. CASE sub # "off"
      <4>1. chan' = Append(chan, r)
        <5>1. Append(chan, r) = chan \o <<r>>
          BY <1>4, <3>1, Adds
        <5> QED BY <1>2, <3>1, <3>4, <5>1
      <4>2. Mentions(chan', i) /\ Undisturbed(chan', table[i])
        BY <1>4, <3>1, <4>1, TellsOf
      <4> QED BY <3>2, <4>2
    <3> QED BY <3>3, <3>4
  <2>2. CASE i \notin told
    <3>1. i \notin doubt /\ i \notin silent
      BY <1>2, <2>2
    <3>2. copies = <<r>> => r.id # i
      BY <1>3, <2>2
    <3>3. i \in Board!Present /\ table[i] = Board!Copy(i)
      BY <3>1, <3>2
    <3> DEFINE c == table[i]
    <3>4. c.id = i
      OBVIOUS
    <3>5. /\ sub # "off" /\ Mentions(chan, i) => Undisturbed(chan, c)
          /\ sub = "on" /\ ~Mentions(chan, i) /\ Mentions(stream, i) => Undisturbed(stream, c)
          /\ sub = "on" /\ ~Mentions(chan, i) /\ ~Mentions(stream, i) /\ Board!Alone(i) =>
               Near(tui.list, c, Reading(i))
          /\ \A d \in cmds : d.op = "sessions" => \E a \in DOMAIN d.rows : d.rows[a] = c
      BY <3>1, <3>3 DEF Current
    <3>6. Board!Alone(i)' => Board!Alone(i)
      BY <1>1, <3>3 DEF Board!Alone
    <3>7. Reading(i) => Reading(i)'
      BY <3>2 DEF Reading
    <3> HIDE DEF c
    <3>8. (Mentions(chan', i) <=> Mentions(chan, i)) /\ (Undisturbed(chan, c) => Undisturbed(chan', c))
      <4>1. CASE chan' = chan
        BY <4>1
      <4>2. CASE copies = <<r>> /\ IsCopy(r) /\ chan' = Append(chan, r)
        <5> DEFINE u == Append(chan, r)
        <5>1. (Mentions(u, c.id) <=> Mentions(chan, c.id) \/ r.id = c.id)
              /\ (r.id # c.id /\ Undisturbed(chan, c) => Undisturbed(u, c))
          BY <1>4, <4>2, TellsOf
        <5> HIDE DEF u
        <5>2. chan' = u
          BY <4>2 DEF u
        <5> QED BY <3>2, <3>4, <4>2, <5>1, <5>2
      <4> QED BY <1>5, <4>1, <4>2
    <3>9. Near(tui.list, c, Reading(i)) => Near(tui.list, c, Reading(i)')
      BY <3>7 DEF Near
    <3> QED BY <1>9, <3>5, <3>6, <3>8, <3>9 DEF c
  <2> QED BY <2>1, <2>2
<1> QED BY <1>8, <1>10, <1>11, <1>12

\* Commands come and go, among them the answer of a fetch.
LEMMA StepAsks ==
  ASSUME Numbering, Tracks, NEW b \in cmds, Board!Fail(b) \/ Board!Fetch(b)
  PROVE  Shapes' /\ Kin' /\ Heads' /\ Current'
<1> USE DEF Tracks
<1>1. UNCHANGED <<store, sub, chan, stream, tui, count, doubt>>
  BY DEF Board!Fail, Board!Fetch
<1>2. \A d \in cmds' \ cmds : d.op \in Kinds \ {"archive"} /\ (d.op = "sessions" => d.rows = Board!Listing)
  <2>1. CASE Board!Fail(b)
    <3>1. \A d \in cmds' \ cmds : d.op = "exec"
      BY <2>1 DEF Board!Fail, BoardIInv, Meant
    <3> QED BY <3>1 DEF Kinds
  <2>2. CASE Board!Fetch(b)
    BY <2>2 DEF Board!Fetch, Kinds
  <2> QED BY <2>1, <2>2
<1>3. \A d \in cmds \ cmds' : d.op = "read" => d.id \notin Board!Present
  BY DEF Board!Fail, Board!Fetch
<1>4. Board!Present' = Board!Present /\ (\A i : Board!Copy(i)' = Board!Copy(i)) /\ \A i : Board!Alone(i)' = Board!Alone(i)
  BY <1>1 DEF Board!Present, Board!Copy, Board!Alone
<1>5. /\ Stream(Board!Listing)
      /\ \A k \in DOMAIN Board!Listing : \E i \in Board!Present : Board!Listing[k] = Board!Copy(i)
      /\ \A i \in Board!Present : \E k \in DOMAIN Board!Listing : Board!Listing[k] = Board!Copy(i)
      /\ \A k, j \in DOMAIN Board!Listing : Board!Listing[k].id = Board!Listing[j].id => k = j
  BY Listings DEF Shapes
<1>6. \A i \in Board!Present : Reading(i) => Reading(i)'
  BY <1>3 DEF Reading
<1>7. Shapes'
  <2>1. \A d \in cmds' : /\ d.op \in Kinds
                         /\ d.op = "sessions" => Stream(d.rows)
                         /\ d.op = "archive" => d.to \in BOOLEAN
    BY <1>2, <1>5 DEF Shapes
  <2> QED BY <1>1, <1>4, <2>1 DEF Shapes
<1>8. \A k \in DOMAIN Board!Listing : KnownCopy(Board!Listing[k])
  BY <1>5, Sources
<1>9. Kin'
  <2>1. /\ count.gone \subseteq count'.gone /\ count.heirs \subseteq count'.heirs
        /\ Board!Present \cup count.gone \subseteq Board!Present' \cup count'.gone
        /\ Board!Present' \cap count'.gone = {}
    BY <1>1, <1>4 DEF Kin
  <2>2. /\ \A i \in Board!Present' : KnownCopy(store'.rows[i])
        /\ \A k \in DOMAIN tui'.list : KnownCopy(tui'.list[k])
        /\ \A k \in DOMAIN stream' : KnownCopy(stream'[k])
        /\ \A k \in DOMAIN chan' : KnownCopy(chan'[k])
    BY <1>1, <1>4, Sources DEF Board!Copy
  <2>3. \A d \in cmds' : d.op = "sessions" => \A k \in DOMAIN d.rows : KnownCopy(d.rows[k])
    BY <1>2, <1>8, Sources
  <2> DEFINE F == FALSE
  <2>4. F \in BOOLEAN /\ ~F
    OBVIOUS
  <2> HIDE DEF F
  <2> QED BY <2>1, <2>2, <2>3, <2>4, KinStep
<1>10. Heads'
  <2>1. ASSUME NEW i \in Board!Present PROVE  AheadOf(Board!Listing, Board!Copy(i))
    <3> SUFFICES ASSUME NEW a \in DOMAIN Board!Listing, Board!Listing[a].id = Board!Copy(i).id, NEW k \in 1 .. a - 1
                 PROVE  Board!Listing[k].id \notin {Board!Copy(i).id, Board!Copy(i).old}
      BY DEF AheadOf
    <3>1. k \in DOMAIN Board!Listing /\ k # a
      <4>1. DOMAIN Board!Listing = 1 .. Len(Board!Listing) /\ Len(Board!Listing) \in Nat
        BY <1>5, Streams
      <4> QED BY <4>1
    <3>2. Board!Listing[k].id # Board!Copy(i).id
      BY <1>5, <3>1
    <3>3. PICK h \in Board!Present : Board!Listing[k] = Board!Copy(h)
      BY <1>5, <3>1
    <3>4. Board!Listing[k].id \in Board!Present /\ Board!Listing[k].id \in Sessions
      BY <3>3 DEF Shapes
    <3>5. Board!Copy(i).old \notin Board!Present \/ Board!Copy(i).old = NoId
      BY Kindred, Sources DEF Kin
    <3> QED BY <3>2, <3>4, <3>5 DEF Numbering
  <2> SUFFICES ASSUME NEW i \in Board!Present, Board!Copy(i).old \notin count.heirs, NEW d \in cmds', d.op = "sessions"
               PROVE  AheadOf(d.rows, Board!Copy(i))
    BY <1>1, <1>4 DEF Heads
  <2> QED BY <1>2, <2>1 DEF Heads
<1>11. Current'
  <2>1. ASSUME NEW i \in Board!Present \ doubt, NEW d \in cmds', d.op = "sessions"
        PROVE  \E a \in DOMAIN d.rows : d.rows[a] = Board!Copy(i)
    BY <1>2, <1>5, <2>1 DEF Current
  <2>2. ASSUME NEW i \in Board!Present \ doubt
        PROVE  /\ sub # "off" /\ Mentions(chan, i) => Undisturbed(chan, Board!Copy(i))
               /\ sub = "on" /\ ~Mentions(chan, i) /\ Mentions(stream, i) => Undisturbed(stream, Board!Copy(i))
               /\ sub = "on" /\ ~Mentions(chan, i) /\ ~Mentions(stream, i) /\ Board!Alone(i) =>
                    Near(tui.list, Board!Copy(i), Reading(i)')
    <3>1. Near(tui.list, Board!Copy(i), Reading(i)) => Near(tui.list, Board!Copy(i), Reading(i)')
      BY <1>6 DEF Near
    <3> QED BY <3>1 DEF Current
  <2> QED BY <1>1, <1>4, <2>1, <2>2 DEF Current
<1> QED BY <1>7, <1>9, <1>10, <1>11

\* Answers.
LEMMA TakesAnswers ==
  ASSUME Numbering, Tracks, Board!Detach \/ \E b \in cmds : Board!Answer(b)
  PROVE  Shapes' /\ Kin' /\ Heads' /\ Current'
<1> USE DEF Tracks
<1>1. UNCHANGED <<store, sub, chan, stream, count, doubt>>
  BY DEF Board!Detach, Board!Answer
<1>2. "list" \in DOMAIN tui
  BY DEF BoardIInv, Records
<1>3. CASE Board!Detach
  <2>1. tui'.list = Board!Merged(tui.list)
    BY <1>2, <1>3 DEF Board!Detach, Board!Show
  <2>2. cmds' = cmds \cup {[op |-> "fetch"]}
    BY <1>3 DEF Board!Detach
  <2>3. /\ \A d \in cmds' \ cmds : d.op \in Kinds \ {"sessions"} /\ (d.op = "archive" => d.to \in BOOLEAN)
        /\ \A d \in cmds \ cmds' : d.op # "read"
    BY <2>2 DEF Kinds
  <2> QED BY <1>1, <2>1, <2>3, LooksAt
<1>4. CASE \E b \in cmds : Board!Answer(b)
  <2>1. PICK b \in cmds : Board!Answer(b)
    BY <1>4
  <2>2. cmds' = cmds \ {b} /\ b.op \in {"sessions", "tree", "exec"}
    BY <2>1 DEF Board!Answer
  <2>3. tui'.list = Board!Merged(tui.list) \/ (b.op = "sessions" /\ tui'.list = Board!Merged(b.rows))
    BY <1>2, <2>1 DEF Board!Answer, Board!Show
  <2>4. /\ \A d \in cmds' \ cmds : d.op \in Kinds \ {"sessions"} /\ (d.op = "archive" => d.to \in BOOLEAN)
        /\ \A d \in cmds \ cmds' : d.op # "read"
    BY <2>2
  <2>5. CASE tui'.list = Board!Merged(tui.list)
    BY <1>1, <2>4, <2>5, LooksAt
  <2>6. CASE b.op = "sessions" /\ tui'.list = Board!Merged(b.rows)
    BY <1>1, <2>4, <2>6, LooksAt
  <2> QED BY <2>3, <2>5, <2>6
<1> QED BY <1>3, <1>4

\* What a key may send, and what it may do to the list.
Sends(set) == \A d \in set : d.op \in Kinds \ {"sessions"} /\ (d.op = "archive" => d.to \in BOOLEAN)
Alters(t, set) ==
  \/ t.list = tui.list
  \/ t.list = Board!Read(tui).list /\ (Board!Marks(tui) => \E d \in set : d.op = "read" /\ d.id = Board!Under(tui).id)

LEMMA Touches ==
  ASSUME Numbering, Tracks, Board!Keys, NEW t, NEW new, Board!Show(t), cmds' = cmds \cup new,
         UNCHANGED <<sub, chan, stream>> \/ Board!Cut("off"), Fits(t), Sends(new), Alters(t, new)
  PROVE  Shapes' /\ Kin' /\ Heads' /\ Current'
<1>1. UNCHANGED <<store, doubt>> /\ count'.gone = count.gone /\ count'.heirs = count.heirs
      /\ DOMAIN count' = DOMAIN count
  BY DEF Board!Keys, Tracks, Shapes
<1>2. "list" \in DOMAIN tui /\ "list" \in DOMAIN t
  BY DEF Fits, Tracks, BoardIInv, Records
<1>3. tui'.list = Board!Merged(t.list)
  BY <1>2 DEF Board!Show
<1>4. t.list = tui.list \/ \E d \in cmds' : d.op = "read" /\ t.list = Board!Seen(tui.list, d.id)
  <2>1. Board!Read(tui).list = IF Board!Marks(tui) THEN Board!Seen(tui.list, Board!Under(tui).id) ELSE tui.list
    BY <1>2 DEF Board!Read
  <2> QED BY <2>1 DEF Alters
<1>5. /\ \A d \in cmds' \ cmds : d.op \in Kinds \ {"sessions"} /\ (d.op = "archive" => d.to \in BOOLEAN)
      /\ \A d \in cmds \ cmds' : d.op # "read"
  BY DEF Sends
<1> HIDE DEF Tracks
<1> QED BY <1>1, <1>3, <1>4, <1>5, LooksAt

LEMMA TakesKeys ==
  ASSUME Numbering, Tracks, Board!Keys
  PROVE  Shapes' /\ Kin' /\ Heads' /\ Current'
<1> DEFINE Goal == Shapes' /\ Kin' /\ Heads' /\ Current'
<1> SUFFICES Goal
  BY DEF Goal
<1>0. BoardIInv /\ "list" \in DOMAIN tui /\ "op" \in DOMAIN tui.dialog
  BY DEF Tracks, BoardIInv, Records
<1>1. /\ Fits(tui) /\ Fits(Board!Read(tui))
      /\ \A t : Fits(t) => /\ \A v : Fits([t EXCEPT !.sel = v])
                           /\ \A v : Fits([t EXCEPT !.collapsed = v])
                           /\ \A v, w : Fits([t EXCEPT !.archivedView = v, !.sel = w])
                           /\ \A v, w : Fits([t EXCEPT !.supOnly = v, !.sel = w])
                           /\ \A d : "op" \in DOMAIN d => Fits([t EXCEPT !.dialog = d])
  BY <1>0, FitsOn
<1>2. "list" \in DOMAIN Board!Read(tui)
  BY <1>0, <1>1 DEF Fits
<1>3. ASSUME NEW t, NEW new, Board!Press(t, new), Fits(t), Sends(new), Alters(t, new)
      PROVE  Goal
  BY <1>3, Touches DEF Board!Press, Board!Keep
<1> HIDE DEF Goal
<1>4. \A new : Alters(tui, new)
  BY DEF Alters
<1>5. Sends({}) /\ \A d : d.op \in Kinds \ {"sessions", "archive"} => Sends({d})
  BY DEF Sends
<1>6. /\ Sends(Board!ReadCmds(tui)) /\ Sends({[op |-> "exec"]})
      /\ Sends(Board!ReadCmd(tui, {[op |-> "exec"]}))
      /\ Board!Marks(tui) => \E d \in Board!ReadCmds(tui) : d.op = "read" /\ d.id = Board!Under(tui).id
      /\ \E d \in Board!ReadCmd(tui, {[op |-> "exec"]}) : d.op = "read" /\ d.id = Board!Under(tui).id
  <2> DEFINE x == [op |-> "exec"]
             y(n) == [op |-> "read", id |-> Board!Under(tui).id, next |-> n]
  <2>1. x.op = "exec" /\ \A n : y(n).op = "read" /\ y(n).id = Board!Under(tui).id
    OBVIOUS
  <2>2. /\ Board!ReadCmd(tui, {x}) = {y({x})}
        /\ Board!ReadCmds(tui) = IF Board!Marks(tui) THEN {y({})} ELSE {}
    BY DEF Board!ReadCmd, Board!ReadCmds
  <2> HIDE DEF x, y
  <2>3. Sends({x}) /\ \A n : Sends({y(n)})
    BY <2>1 DEF Sends, Kinds
  <2> QED BY <1>5, <2>1, <2>2, <2>3 DEF x
<1>7. ASSUME NEW d, Board!Ask(d), "op" \in DOMAIN d PROVE  Goal
  <2> DEFINE t == [tui EXCEPT !.dialog = d]
  <2>1. Fits(t) /\ t.list = tui.list
    BY <1>0, <1>1, <1>7
  <2>2. Board!Press(t, {})
    BY <1>7 DEF Board!Ask
  <2> HIDE DEF t
  <2> QED BY <1>3, <1>5, <2>1, <2>2 DEF Alters
<1>8. ASSUME NEW d, Board!Send(d), Sends({d}) PROVE  Goal
  BY <1>1, <1>3, <1>4, <1>8 DEF Board!Send
<1>9. CASE Board!Press(tui, {})
  BY <1>1, <1>3, <1>4, <1>5, <1>9
<1>10. CASE Board!InDialog
  <2> DEFINE d == tui.dialog
             closed == [tui EXCEPT !.dialog = [op |-> NoId]]
  <2>1. Fits(closed) /\ closed.list = tui.list
    BY <1>0, <1>1
  <2>2. \A new : Alters(closed, new)
    BY <2>1 DEF Alters
  <2> HIDE DEF closed
  <2>3. CASE Board!Press(closed, {})
    BY <1>3, <1>5, <2>1, <2>2, <2>3
  <2>4. CASE d.op = "restart" /\ Board!Press(closed, {d})
    <3>1. Sends({d})
      BY <1>5, <2>4 DEF Kinds
    <3> QED BY <1>3, <2>1, <2>2, <2>4, <3>1
  <2>5. CASE d.op \in {"move", "moveNode"} /\ \E p \in Paths : Board!Press(closed, {[d EXCEPT !.to = p]})
    <3>1. PICK p \in Paths : Board!Press(closed, {[d EXCEPT !.to = p]})
      BY <2>5
    <3>2. [d EXCEPT !.to = p].op = d.op
      BY <1>0
    <3>3. Sends({[d EXCEPT !.to = p]})
      BY <1>5, <2>5, <3>2 DEF Kinds
    <3> QED BY <1>3, <2>1, <2>2, <3>1, <3>3
  <2> QED BY <1>10, <2>3, <2>4, <2>5 DEF Board!InDialog, closed
<1>11. CASE Board!UpDown \/ Board!SwitchView \/ Board!SwitchFilter
  <2>1. ASSUME NEW n, Board!Move(n) PROVE  Goal
    <3> DEFINE t == [Board!Read(tui) EXCEPT !.sel = n]
    <3>1. Fits(t) /\ t.list = Board!Read(tui).list /\ Board!Press(t, Board!ReadCmds(tui))
      BY <1>1, <1>2, <2>1 DEF Board!Move
    <3> HIDE DEF t
    <3> QED BY <1>3, <1>6, <3>1 DEF Alters
  <2>2. CASE Board!UpDown
    BY <2>1, <2>2 DEF Board!UpDown
  <2>3. CASE Board!SwitchView
    <3> DEFINE t == [Board!Read(tui) EXCEPT !.archivedView = ~@, !.sel = 0]
    <3>1. Fits(t) /\ t.list = Board!Read(tui).list /\ Board!Press(t, Board!ReadCmds(tui))
      BY <1>1, <1>2, <2>3 DEF Board!SwitchView
    <3> HIDE DEF t
    <3> QED BY <1>3, <1>6, <3>1 DEF Alters
  <2>4. CASE Board!SwitchFilter
    <3> DEFINE t == [tui EXCEPT !.supOnly = ~@, !.sel = 0]
    <3>1. Fits(t) /\ t.list = tui.list /\ Board!Press(t, {})
      BY <1>0, <1>1, <2>4 DEF Board!SwitchFilter
    <3> HIDE DEF t
    <3> QED BY <1>3, <1>5, <3>1 DEF Alters
  <2> QED BY <1>11, <2>2, <2>3, <2>4
<1>12. ASSUME NEW p, Board!OnGroup(p) PROVE  Goal
  <2>1. CASE Board!Toggle(p)
    <3> DEFINE t == [tui EXCEPT !.collapsed = IF p \in @ THEN @ \ {p} ELSE @ \cup {p}]
    <3>1. Fits(t) /\ t.list = tui.list /\ Board!Press(t, {})
      BY <1>0, <1>1, <2>1 DEF Board!Toggle
    <3> HIDE DEF t
    <3> QED BY <1>3, <1>5, <3>1 DEF Alters
  <2>2. CASE Board!DeleteGroup(p)
    BY <1>5, <1>8, <1>9, <2>2 DEF Board!DeleteGroup, Kinds
  <2>3. CASE Board!Ask([op |-> "moveNode", path |-> p, to |-> <<>>])
    BY <1>7, <2>3
  <2> QED BY <1>12, <2>1, <2>2, <2>3 DEF Board!OnGroup
<1>13. ASSUME NEW i, Board!OnSession(i) PROVE  Goal
  <2> DEFINE c == Board!Selected(tui)
  <2>1. CASE Board!Attach(i)
    <3> DEFINE new == IF Board!Marks(tui) THEN Board!ReadCmd(tui, {[op |-> "exec"]}) ELSE {[op |-> "exec"]}
    <3>1. Board!Cut("off") /\ Board!Show(Board!Read(tui)) /\ cmds' = cmds \cup new
      BY <2>1 DEF Board!Attach
    <3>2. Sends(new) /\ (Board!Marks(tui) => \E d \in new : d.op = "read" /\ d.id = Board!Under(tui).id)
      BY <1>6
    <3> HIDE DEF new
    <3>3. Alters(Board!Read(tui), new)
      BY <3>2 DEF Alters
    <3> QED BY <1>1, <3>1, <3>2, <3>3, Touches DEF Goal
  <2>2. CASE Board!Ask([op |-> "restart", id |-> i]) \/ Board!Ask([op |-> "move", id |-> i, to |-> <<>>])
    BY <1>7, <2>2
  <2>3. CASE \/ Board!Send([op |-> "kill", id |-> i])
             \/ Board!Send([op |-> "delete", id |-> i])
             \/ Board!Send([op |-> "restart", id |-> i])
    BY <1>5, <1>8, <2>3 DEF Kinds
  <2>4. CASE Board!Send([op |-> "archive", id |-> i, to |-> ~c.archived])
    <3> DEFINE b == ~c.archived
               d == [op |-> "archive", id |-> i, to |-> b]
    <3>1. b \in BOOLEAN
      OBVIOUS
    <3> HIDE DEF b
    <3>2. Sends({d})
      BY <3>1 DEF Sends, Kinds
    <3>3. Board!Send(d)
      BY <2>4 DEF b
    <3> HIDE DEF d
    <3> QED BY <1>8, <3>2, <3>3
  <2> HIDE DEF c
  <2> QED BY <1>13, <2>1, <2>2, <2>3, <2>4 DEF Board!OnSession, c
<1>14. CASE Board!OnCursor
  BY <1>9, <1>12, <1>13, <1>14 DEF Board!OnCursor
<1>15. Goal
  BY <1>10, <1>11, <1>14 DEF Board!Keys
<1> QED BY <1>15 DEF Goal

\* The agents and the other clients change the rows and the tree.
LEMMA TakesChanges ==
  ASSUME Numbering, Tracks, Board!Changes
  PROVE  Shapes' /\ Kin' /\ Heads' /\ Current'
<1> DEFINE Goal == Shapes' /\ Kin' /\ Heads' /\ Current'
<1> SUFFICES Goal
  BY DEF Goal
<1>1. /\ BoardIInv /\ Shapes /\ NoId \notin Sessions
      /\ store.rows = [i \in Board!Present |-> store.rows[i]]
      /\ \A i \in Board!Present : i \in Sessions /\ IsCopy(store.rows[i]) /\ store.rows[i].id = i
      /\ \A q \in DOMAIN store.nodes : store.nodes[q] \in {Dir[p] : p \in Paths}
      /\ "gone" \in DOMAIN count /\ "heirs" \in DOMAIN count
  BY DEF Tracks, Numbering, Shapes, BoardIInv, Records, Board!Present, Board!Copy
<1>2. UNCHANGED <<sub, stream, tui, cmds>>
  BY DEF Board!Changes
<1>3. /\ \A d \in cmds' \ cmds : d.op \in Kinds \ {"sessions", "archive"}
      /\ \A d \in cmds \ cmds' : FALSE
  BY <1>2
<1>4. CASE /\ \E i \in Sessions : Board!Change(i)
           /\ count' = [count EXCEPT !.changes = @ + 1]
  <2>1. PICK i \in Board!Present : Board!Change(i)
    BY <1>4 DEF Board!Change
  <2>2. PICK r \in Board!Variants(store.rows[i]) :
          Board!Write([store.rows EXCEPT ![i] = r], store.nodes, <<r>>, {})
    BY <2>1 DEF Board!Change
  <2> DEFINE c == store.rows[i]
             table == [store.rows EXCEPT ![i] = r]
  <2>3. IsCopy(r) /\ r.id = i /\ r.old = c.old
    <3>1. IsCopy(c) /\ c.id = i
      BY <1>1
    <3>2. r \in Board!Variants(c)
      BY <2>2
    <3> HIDE DEF c
    <3>3. CASE \/ r = [c EXCEPT !.ended = ~@] \/ r = [c EXCEPT !.archived = ~@]
               \/ r = [c EXCEPT !.unread = ~@]
      BY <3>1, <3>3 DEF IsCopy
    <3>4. CASE \E p : r = [c EXCEPT !.path = p]
      BY <3>1, <3>4 DEF IsCopy
    <3> QED BY <3>2, <3>3, <3>4 DEF Board!Variants
  <2>4. DOMAIN table = Board!Present /\ table[i] = r /\ \A k \in Board!Present \ {i} : table[k] = store.rows[k]
    BY <1>1, <2>1
  <2>5. count'.gone = count.gone /\ count'.heirs = count.heirs /\ DOMAIN count' = DOMAIN count
    BY <1>1, <1>4
  <2> HIDE DEF table, c
  <2>6. Board!Write(table, store.nodes, <<r>>, {})
    BY <2>2 DEF table
  <2> DEFINE F == FALSE
             copies == <<r>>
  <2>7. F \in BOOLEAN /\ ~F /\ copies = <<r>> /\ Board!Write(table, store.nodes, copies, {})
    BY <2>6
  <2> HIDE DEF F, copies
  <2>8. /\ DOMAIN table \subseteq Sessions /\ \A k \in DOMAIN table : IsCopy(table[k]) /\ table[k].id = k
        /\ \A k \in DOMAIN table \cap Board!Present : /\ table[k].old = Board!Copy(k).old
                                                      /\ table[k] = Board!Copy(k) \/ table[k] = r
        /\ DOMAIN table \ Board!Present = {} /\ Board!Present \ DOMAIN table = {}
        /\ r.id \in Board!Present /\ r.old = Board!Copy(r.id).old /\ table[r.id] = r
    BY <1>1, <2>1, <2>3, <2>4 DEF Board!Copy, c
  <2>9. count'.gone = count.gone \cup (Board!Present \ DOMAIN table) /\ count.heirs \subseteq count'.heirs
    BY <2>5, <2>8
  <2> QED BY <1>1, <1>2, <1>3, <2>3, <2>5, <2>7, <2>8, <2>9, Writes DEF Goal
<1>5. CASE \E i \in Sessions, old \in Sessions \cup {NoId} :
             /\ i # old /\ Board!Arrive(i, old)
             /\ count' = [count EXCEPT !.changes = @ + 1, !.gone = @ \cup ({old} \ {NoId}),
                                       !.heirs = @ \cup (IF old = NoId THEN {} ELSE {i})]
  <2> DEFINE R(i, old, p) == [Board!Fresh EXCEPT !.id = i, !.old = old, !.path = p]
             Rs(i, old, p) == [k \in {i} \cup (Board!Present \ {old}) |->
                                 IF k = i THEN R(i, old, p) ELSE store.rows[k]]
  <2>1. PICK i \in Sessions : \E old \in Sessions \cup {NoId} :
             /\ i # old /\ Board!Arrive(i, old)
             /\ count' = [count EXCEPT !.changes = @ + 1, !.gone = @ \cup ({old} \ {NoId}),
                                       !.heirs = @ \cup (IF old = NoId THEN {} ELSE {i})]
    BY <1>5
  <2>2. PICK old \in Sessions \cup {NoId} :
             /\ i # old /\ Board!Arrive(i, old)
             /\ count' = [count EXCEPT !.changes = @ + 1, !.gone = @ \cup ({old} \ {NoId}),
                                       !.heirs = @ \cup (IF old = NoId THEN {} ELSE {i})]
    BY <2>1
  <2>3. PICK p \in DOMAIN store.nodes \cup {<<>>} :
          Board!Write(Rs(i, old, p), store.nodes, <<R(i, old, p)>>, {})
    BY <2>2 DEF Board!Arrive
  <2>4. i \notin Board!Present /\ i \notin count.gone /\ (old # NoId => old \in Board!Present)
    BY <2>2 DEF Board!Arrive
  <2> DEFINE r == R(i, old, p)
             table == Rs(i, old, p)
  <2>5. IsCopy(r) /\ r.id = i /\ r.old = old
    <3>1. Board!Fresh = [id |-> NoId, path |-> <<>>, ended |-> FALSE, archived |-> FALSE, unread |-> FALSE,
                   old |-> NoId]
      BY DEF Board!Fresh
    <3>2. PICK a : a = [Board!Fresh EXCEPT !.id = i]
      OBVIOUS
    <3>3. PICK c : c = [a EXCEPT !.old = old]
      OBVIOUS
    <3>4. PICK d : d = [c EXCEPT !.path = p]
      OBVIOUS
    <3>5. r = d
      BY <3>2, <3>3, <3>4
    <3>6. IsCopy(a) /\ a.id = i
      BY <3>1, <3>2 DEF IsCopy
    <3>7. IsCopy(c) /\ c.id = i /\ c.old = old
      BY <3>3, <3>6 DEF IsCopy
    <3>8. IsCopy(d) /\ d.id = i /\ d.old = old
      BY <3>4, <3>7 DEF IsCopy
    <3> QED BY <3>5, <3>8
  <2>6. DOMAIN table = {i} \cup (Board!Present \ {old}) /\ table[i] = r
        /\ \A k \in Board!Present \ {i, old} : table[k] = store.rows[k]
    OBVIOUS
  <2>7. /\ count'.gone = count.gone \cup ({old} \ {NoId})
        /\ count'.heirs = count.heirs \cup (IF old = NoId THEN {} ELSE {i})
        /\ DOMAIN count' = DOMAIN count
    BY <1>1, <2>2
  <2> DEFINE F == TRUE
             copies == <<r>>
  <2>8. F \in BOOLEAN /\ F /\ copies = <<r>> /\ Board!Write(table, store.nodes, copies, {})
    BY <2>3
  <2> HIDE DEF r, table, F, copies
  <2>9. NoId \notin Board!Present /\ i # old
    BY <1>1, <2>2
  <2>10. /\ DOMAIN table \subseteq Sessions /\ \A k \in DOMAIN table : IsCopy(table[k]) /\ table[k].id = k
         /\ \A k \in DOMAIN table \cap Board!Present : table[k] = Board!Copy(k)
         /\ DOMAIN table \ Board!Present = {i} /\ table[i] = r /\ r.id \in DOMAIN table
    BY <1>1, <2>4, <2>5, <2>6 DEF Board!Copy
  <2>11. /\ count'.gone = count.gone \cup (Board!Present \ DOMAIN table)
         /\ count.heirs \subseteq count'.heirs
         /\ r.old # NoId => r.old \in Board!Present \ DOMAIN table /\ r.id \in count'.heirs
    <3>1. Board!Present \ DOMAIN table = {old} \ {NoId}
      BY <2>4, <2>6, <2>9
    <3> QED BY <2>4, <2>5, <2>6, <2>7, <2>9, <3>1
  <2>12. /\ \A k \in DOMAIN table \cap Board!Present :
              /\ table[k].old = Board!Copy(k).old
              /\ table[k] = Board!Copy(k) \/ k \in {} \/ (copies = <<r>> /\ table[k] = r)
         /\ \A k \in DOMAIN table \ Board!Present : F /\ table[k] = r
         /\ copies = <<r>> => /\ F \/ (r.id \in Board!Present /\ r.old = Board!Copy(r.id).old)
                              /\ r.id \in DOMAIN table => table[r.id] = r
         /\ F => /\ copies = <<r>> /\ r.id \in DOMAIN table /\ r.id \notin Board!Present \cup count.gone
                 /\ r.old # NoId => r.old \in Board!Present \ DOMAIN table /\ r.id \in count'.heirs
    BY <2>4, <2>5, <2>8, <2>10, <2>11
  <2>13. copies = <<>> \/ (copies = <<r>> /\ IsCopy(r))
    BY <2>5, <2>8
  <2> DEFINE silent == {}
  <2>14. silent \subseteq Sessions /\ silent = {} /\ Board!Write(table, store.nodes, copies, silent)
    BY <2>8
  <2> HIDE DEF silent
  <2>15. \A d \in cmds \ cmds' : d.op = "read" => copies = <<r>> /\ r.id = d.id
    BY <1>3
  <2>16. /\ \A k \in DOMAIN table \cap Board!Present :
              /\ table[k].old = Board!Copy(k).old
              /\ table[k] = Board!Copy(k) \/ k \in silent \/ (copies = <<r>> /\ table[k] = r)
         /\ DOMAIN table \subseteq Sessions
         /\ \A k \in DOMAIN table : IsCopy(table[k]) /\ table[k].id = k
         /\ \A k \in DOMAIN table \ Board!Present : F /\ table[k] = r
         /\ count'.gone = count.gone \cup (Board!Present \ DOMAIN table)
         /\ count.heirs \subseteq count'.heirs
         /\ DOMAIN count' = DOMAIN count
         /\ F \in BOOLEAN
         /\ \A q \in DOMAIN store.nodes : store.nodes[q] \in {Dir[k] : k \in Paths}
         /\ \A d \in cmds' \ cmds : d.op \in Kinds \ {"sessions", "archive"}
    BY <1>1, <1>3, <2>7, <2>8, <2>10, <2>11, <2>12, <2>14
  <2>17. Shapes' /\ Kin' /\ Heads' /\ Current'
    <3>1. copies = <<r>> => /\ F \/ (r.id \in Board!Present /\ r.old = Board!Copy(r.id).old)
                            /\ r.id \in DOMAIN table => table[r.id] = r
      BY <2>12
    <3>2. F => /\ copies = <<r>> /\ r.id \in DOMAIN table /\ r.id \notin Board!Present \cup count.gone
               /\ r.old # NoId => r.old \in Board!Present \ DOMAIN table /\ r.id \in count'.heirs
      BY <2>12
    <3> QED BY <1>2, <2>13, <2>14, <2>15, <2>16, <3>1, <3>2, Writes
  <2> QED BY <2>17 DEF Goal
<1>6. CASE /\ \E p \in Paths : Board!PlantNode(p)
           /\ count' = [count EXCEPT !.changes = @ + 1]
  <2>1. PICK p \in Paths : Board!PlantNode(p)
    BY <1>6
  <2> DEFINE tree == [q \in DOMAIN store.nodes \cup {p} |-> IF q = p THEN Dir[p] ELSE store.nodes[q]]
  <2>2. Board!Write(store.rows, tree, <<>>, {})
    BY <2>1 DEF Board!PlantNode
  <2>3. \A q \in DOMAIN tree : tree[q] \in {Dir[k] : k \in Paths}
    BY <1>1
  <2> HIDE DEF tree
  <2> DEFINE F == FALSE
             copies == <<>>
             table == store.rows
  <2>4. F \in BOOLEAN /\ ~F /\ copies = <<>> /\ (\A x : copies # <<x>>) /\ Board!Write(table, tree, copies, {})
    BY <2>2
  <2>5. /\ DOMAIN table = Board!Present /\ \A k \in DOMAIN table : IsCopy(table[k]) /\ table[k].id = k
        /\ \A k \in DOMAIN table : table[k] = Board!Copy(k)
    BY <1>1 DEF Board!Present, Board!Copy
  <2> HIDE DEF F, copies, table
  <2>6. count'.gone = count.gone \cup (Board!Present \ DOMAIN table) /\ count'.heirs = count.heirs
        /\ DOMAIN count' = DOMAIN count /\ DOMAIN table \subseteq Sessions
    BY <1>1, <1>6, <2>5
  <2> QED BY <1>1, <1>2, <1>3, <2>3, <2>4, <2>5, <2>6, Writes DEF Goal
<1> QED BY <1>4, <1>5, <1>6 DEF Board!Changes

\* The commands at the daemon.
LEMMA TakesCommands ==
  ASSUME Numbering, Tracks, NEW b \in cmds, Board!Perform(b)
  PROVE  Shapes' /\ Kin' /\ Heads' /\ Current'
<1> DEFINE Goal == Shapes' /\ Kin' /\ Heads' /\ Current'
<1> SUFFICES Goal
  BY DEF Goal
<1>1. /\ BoardIInv /\ Shapes
      /\ store.rows = [i \in Board!Present |-> store.rows[i]]
      /\ \A i \in Board!Present : i \in Sessions /\ IsCopy(store.rows[i]) /\ store.rows[i].id = i
      /\ \A q \in DOMAIN store.nodes : store.nodes[q] \in {Dir[p] : p \in Paths}
      /\ "gone" \in DOMAIN count /\ "heirs" \in DOMAIN count
      /\ b.op = "archive" => b.to \in BOOLEAN
  BY DEF Tracks, Shapes, BoardIInv, Records, Board!Present, Board!Copy
<1>2. /\ UNCHANGED <<sub, stream, tui>> /\ cmds' = (cmds \ {b}) \cup Board!Follow(b)
      /\ count' = IF b.op = "delete" THEN [count EXCEPT !.gone = @ \cup {b.id}] ELSE count
  BY DEF Board!Perform
<1>3. /\ \A d \in cmds' \ cmds : d.op \in Kinds \ {"sessions", "archive"}
      /\ \A d \in cmds \ cmds' : d = b
  <2>1. \A d \in Board!Follow(b) : d.op \in {"exec", "fetch", "nodes"}
    BY <1>1 DEF Board!Follow, BoardIInv, Meant
  <2> QED BY <1>2, <2>1 DEF Kinds
<1>4. ASSUME b.id \in Board!Present, NEW r, Board!Set(b.id, r), IsCopy(r), r.id = b.id,
             r.old = store.rows[b.id].old, b.op # "delete"
      PROVE  Goal
  <2> DEFINE i == b.id
             table == [store.rows EXCEPT ![i] = r]
  <2>1. DOMAIN table = Board!Present /\ table[i] = r /\ \A k \in Board!Present \ {i} : table[k] = store.rows[k]
    BY <1>1, <1>4
  <2>2. Board!Write(table, store.nodes, <<r>>, {})
    BY <1>4 DEF Board!Set
  <2>3. count' = count
    BY <1>2, <1>4
  <2> HIDE DEF table
  <2> DEFINE F == FALSE
             copies == <<r>>
  <2>4. F \in BOOLEAN /\ ~F /\ copies = <<r>> /\ Board!Write(table, store.nodes, copies, {})
    BY <2>2
  <2> HIDE DEF F, copies
  <2>5. /\ DOMAIN table \subseteq Sessions /\ \A k \in DOMAIN table : IsCopy(table[k]) /\ table[k].id = k
        /\ \A k \in DOMAIN table \cap Board!Present : /\ table[k].old = Board!Copy(k).old
                                                      /\ table[k] = Board!Copy(k) \/ table[k] = r
        /\ DOMAIN table \ Board!Present = {} /\ Board!Present \ DOMAIN table = {}
        /\ r.id \in Board!Present /\ r.old = Board!Copy(r.id).old /\ table[r.id] = r
    BY <1>1, <1>4, <2>1 DEF Board!Copy
  <2>6. /\ count'.gone = count.gone \cup (Board!Present \ DOMAIN table)
        /\ count.heirs \subseteq count'.heirs
        /\ DOMAIN count' = DOMAIN count /\ \A d \in cmds \ cmds' : copies = <<r>> /\ r.id = d.id
    BY <1>3, <1>4, <2>3, <2>4, <2>5
  <2> QED BY <1>1, <1>2, <1>3, <1>4, <2>4, <2>5, <2>6, Writes DEF Goal
<1>5. CASE b.id \in Board!Present /\ Board!SessionCommand(b)
  <2> DEFINE c == store.rows[b.id]
  <2>1. IsCopy(c) /\ c.id = b.id
    BY <1>1, <1>5
  <2> HIDE DEF c
  <2>2. /\ b.op = "read" /\ Board!Set(b.id, [c EXCEPT !.unread = FALSE]) => Goal
        /\ b.op = "archive" /\ Board!Set(b.id, [c EXCEPT !.archived = b.to]) => Goal
        /\ b.op = "kill" /\ Board!Set(b.id, [c EXCEPT !.ended = TRUE]) => Goal
        /\ b.op = "restart" /\ Board!Set(b.id, [c EXCEPT !.ended = FALSE]) => Goal
        /\ b.op = "move" /\ Board!Set(b.id, [c EXCEPT !.path = b.to]) => Goal
    <3>1. ASSUME NEW r, Board!Set(b.id, r), IsCopy(r), r.id = b.id, r.old = c.old, b.op # "delete" PROVE  Goal
      BY <1>4, <1>5, <3>1 DEF c
    <3> HIDE DEF Goal
    <3>2. ASSUME NEW v \in BOOLEAN, NEW r,
                 \/ r = [c EXCEPT !.unread = v] \/ r = [c EXCEPT !.archived = v]
                 \/ r = [c EXCEPT !.ended = v]
          PROVE  IsCopy(r) /\ r.id = b.id /\ r.old = c.old
      BY <2>1, <3>2 DEF IsCopy
    <3>3. ASSUME NEW v, NEW r, r = [c EXCEPT !.path = v]
          PROVE  IsCopy(r) /\ r.id = b.id /\ r.old = c.old
      BY <2>1, <3>3 DEF IsCopy
    <3>4. ASSUME b.op = "read", Board!Set(b.id, [c EXCEPT !.unread = FALSE]) PROVE  Goal
      BY <3>1, <3>2, <3>4
    <3>5. ASSUME b.op = "archive", Board!Set(b.id, [c EXCEPT !.archived = b.to]) PROVE  Goal
      BY <1>1, <3>1, <3>2, <3>5
    <3>6. ASSUME b.op = "kill", Board!Set(b.id, [c EXCEPT !.ended = TRUE]) PROVE  Goal
      BY <3>1, <3>2, <3>6
    <3>7. ASSUME b.op = "restart", Board!Set(b.id, [c EXCEPT !.ended = FALSE]) PROVE  Goal
      BY <3>1, <3>2, <3>7
    <3>8. ASSUME b.op = "move", Board!Set(b.id, [c EXCEPT !.path = b.to]) PROVE  Goal
      BY <3>1, <3>3, <3>8
    <3> QED BY <3>4, <3>5, <3>6, <3>7, <3>8
  <2>3. ASSUME b.op = "delete",
               Board!Write(Board!Restrict(store.rows, Board!Present \ {b.id}), store.nodes, <<[c EXCEPT !.ended = TRUE]>>, {})
        PROVE  Goal
    <3> DEFINE r == [c EXCEPT !.ended = TRUE]
               table == Board!Restrict(store.rows, Board!Present \ {b.id})
    <3>1. IsCopy(r) /\ r.id = b.id /\ r.old = c.old
      <4>1. PICK d : d = [c EXCEPT !.ended = TRUE]
        OBVIOUS
      <4>2. IsCopy(d) /\ d.id = b.id /\ d.old = c.old
        BY <2>1, <4>1 DEF IsCopy
      <4> QED BY <4>1, <4>2
    <3>2. DOMAIN table = Board!Present \ {b.id} /\ \A k \in Board!Present \ {b.id} : table[k] = store.rows[k]
      BY DEF Board!Restrict
    <3>3. /\ count'.gone = count.gone \cup {b.id} /\ count'.heirs = count.heirs
          /\ DOMAIN count' = DOMAIN count
      BY <1>1, <1>2, <2>3
    <3> DEFINE F == FALSE
               copies == <<r>>
    <3>4. F \in BOOLEAN /\ ~F /\ copies = <<r>> /\ Board!Write(table, store.nodes, copies, {})
      BY <2>3
    <3> HIDE DEF F, copies, table, r
    <3>5. /\ DOMAIN table \subseteq Sessions /\ \A k \in DOMAIN table : IsCopy(table[k]) /\ table[k].id = k
          /\ \A k \in DOMAIN table \cap Board!Present : table[k] = Board!Copy(k)
          /\ DOMAIN table \ Board!Present = {} /\ Board!Present \ DOMAIN table = {b.id}
          /\ r.id \notin DOMAIN table
          /\ r.id \in Board!Present /\ r.old = Board!Copy(r.id).old
      BY <1>1, <1>5, <3>1, <3>2 DEF Board!Copy, c
    <3>6. /\ count'.gone = count.gone \cup (Board!Present \ DOMAIN table) /\ count.heirs \subseteq count'.heirs
          /\ \A d \in cmds \ cmds' : d.op # "read"
      BY <1>3, <2>3, <3>3, <3>5
    <3> QED BY <1>1, <1>2, <1>3, <3>1, <3>3, <3>4, <3>5, <3>6, Writes DEF Goal
  <2> QED BY <1>5, <2>2, <2>3 DEF Board!SessionCommand, c
<1>6. ASSUME NEW to, NEW tree, Board!Write(Board!Refiled(b.path, to), tree, <<>>, Board!Filed(b.path)),
             \A q \in DOMAIN tree : tree[q] \in {Dir[p] : p \in Paths}, b.op \notin {"read", "delete"}
      PROVE  Goal
  <2> DEFINE table == Board!Refiled(b.path, to)
             silent == Board!Filed(b.path)
             F == FALSE
             copies == <<>>
  <2>1. /\ DOMAIN table = Board!Present
        /\ \A k \in Board!Present \ silent : table[k] = store.rows[k]
        /\ \A k \in silent : \E v : table[k] = [store.rows[k] EXCEPT !.path = v]
        /\ silent \subseteq Board!Present
    BY DEF Board!Refiled, Board!Filed
  <2>2. F \in BOOLEAN /\ ~F /\ copies = <<>> /\ (\A x : copies # <<x>>) /\ Board!Write(table, tree, copies, silent)
    BY <1>6
  <2> HIDE DEF table, silent, F, copies
  <2>3. \A k \in Board!Present : IsCopy(table[k]) /\ table[k].id = k /\ table[k].old = store.rows[k].old
    <3> SUFFICES ASSUME NEW k \in Board!Present
                 PROVE  IsCopy(table[k]) /\ table[k].id = k /\ table[k].old = store.rows[k].old
      OBVIOUS
    <3>1. CASE k \notin silent
      BY <1>1, <2>1, <3>1
    <3>2. CASE k \in silent
      <4>1. PICK v : table[k] = [store.rows[k] EXCEPT !.path = v]
        BY <2>1, <3>2
      <4>2. IsCopy(store.rows[k]) /\ store.rows[k].id = k
        BY <1>1
      <4> QED BY <4>1, <4>2 DEF IsCopy
    <3> QED BY <3>1, <3>2
  <2>4. /\ DOMAIN table \subseteq Sessions /\ silent \subseteq Sessions
        /\ \A k \in DOMAIN table \cap Board!Present : /\ table[k].old = Board!Copy(k).old
                                                      /\ table[k] = Board!Copy(k) \/ k \in silent
        /\ DOMAIN table \ Board!Present = {} /\ Board!Present \ DOMAIN table = {}
    BY <1>1, <2>1, <2>3 DEF Board!Copy
  <2>5. /\ count'.gone = count.gone \cup (Board!Present \ DOMAIN table)
        /\ count.heirs \subseteq count'.heirs
        /\ DOMAIN count' = DOMAIN count /\ \A d \in cmds \ cmds' : d.op # "read"
    BY <1>2, <1>3, <1>6, <2>4
  <2> QED BY <1>1, <1>2, <1>3, <1>6, <2>1, <2>2, <2>3, <2>4, <2>5, Writes DEF Goal
<1>7. CASE Board!NodeCommand(b)
  <2>1. CASE /\ b.op = "deleteNode"
             /\ Board!Write(Board!Refiled(b.path, <<>>), Board!Restrict(store.nodes, DOMAIN store.nodes \ Board!Within(b.path)),
                      <<>>, Board!Filed(b.path))
    <3> DEFINE tree == Board!Restrict(store.nodes, DOMAIN store.nodes \ Board!Within(b.path))
    <3>1. \A q \in DOMAIN tree : tree[q] \in {Dir[p] : p \in Paths}
      BY <1>1 DEF Board!Restrict
    <3> HIDE DEF tree
    <3> QED BY <1>6, <2>1, <3>1 DEF tree
  <2>2. CASE /\ b.op = "moveNode"
             /\ Board!Write(Board!Refiled(b.path, b.to),
                      [q \in Board!Moved(b) \cup (DOMAIN store.nodes \ Board!Within(b.path)) |->
                          store.nodes[IF q \notin Board!Moved(b) THEN q
                                      ELSE CHOOSE p \in Board!Within(b.path) : Board!Rebase(p, b.path, b.to) = q]],
                      <<>>, Board!Filed(b.path))
    <3> DEFINE from(q) == IF q \notin Board!Moved(b) THEN q
                          ELSE CHOOSE p \in Board!Within(b.path) : Board!Rebase(p, b.path, b.to) = q
               tree == [q \in Board!Moved(b) \cup (DOMAIN store.nodes \ Board!Within(b.path)) |-> store.nodes[from(q)]]
    <3>1. ASSUME NEW q \in Board!Moved(b) \cup (DOMAIN store.nodes \ Board!Within(b.path))
          PROVE  from(q) \in DOMAIN store.nodes
      BY <3>1 DEF Board!Moved, Board!Within
    <3>2. Board!Write(Board!Refiled(b.path, b.to), tree, <<>>, Board!Filed(b.path))
      BY <2>2
    <3> HIDE DEF from
    <3>3. \A q \in DOMAIN tree : tree[q] \in {Dir[p] : p \in Paths}
      BY <1>1, <3>1
    <3> HIDE DEF tree
    <3> QED BY <1>6, <2>2, <3>2, <3>3
  <2> QED BY <1>7, <2>1, <2>2 DEF Board!NodeCommand
<1> QED BY <1>5, <1>7 DEF Board!Perform

LEMMA InitTracks ==
  ASSUME Numbering, Board!Init
  PROVE  Tracks
<1>1. BoardIInv
  BY BoardInitially
<1>2. store.rows = <<>> /\ store.nodes = <<>> /\ chan = <<>> /\ stream = <<>> /\ tui.list = <<>>
      /\ doubt = {} /\ sub = "off"
  BY DEF Board!Init
<1>3. Board!Present = {} /\ Stream(<<>>) /\ Len(<<>>) = 0
  BY <1>2 DEF Board!Present, Stream, Board!Range
<1>4. \A d \in cmds : d.op \in {"nodes", "fetch"}
  BY DEF Board!Init
<1>5. Shapes
  BY <1>2, <1>3, <1>4 DEF Board!Init, Shapes, Kinds, Numbering
<1>6. Copies = {}
  <2>1. Board!Range(<<>>) = {}
    BY DEF Board!Range
  <2> QED BY <1>2, <1>3, <1>4, <2>1 DEF Copies
<1>7. Kin /\ Heads /\ Current
  BY <1>3, <1>6 DEF Kin, Heads, Current
<1> QED BY <1>1, <1>5, <1>7 DEF Tracks

LEMMA StepTracks ==
  ASSUME Numbering, Tracks, [Board!Next]_(Board!dashVars)
  PROVE  Tracks'
<1>1. BoardIInv'
  BY BoardInductive DEF Tracks
<1>2. Shapes' /\ Kin' /\ Heads' /\ Current'
  BY StepStream, StepHandle, StepAsks, TakesAnswers, TakesKeys, TakesChanges,
      TakesCommands DEF Board!Next
<1> QED BY <1>1, <1>2 DEF Tracks

\* A list in which every session is last said as it is shows it so.
LEMMA Reflects ==
  ASSUME Numbering, Tracks
  PROVE  Board!TypeOK /\ Board!OneRow /\ Board!Caught
<1> USE DEF Tracks
<1>1. Stream(tui.list) /\ DOMAIN tui.list = 1 .. Len(tui.list) /\ Len(tui.list) \in Nat
  BY Streams DEF Shapes
<1>2. Board!TypeOK
  <2>1. Board!Range(store.nodes) \subseteq {Dir[p] : p \in Paths}
    BY DEF Shapes, Board!Range
  <2>2. \A k \in DOMAIN tui.list : tui.list[k].id \in Sessions
    BY <1>1 DEF Stream, IsCopy
  <2> QED BY <2>1, <2>2 DEF Shapes, Board!TypeOK, Kinds
<1>3. Board!OneRow
  <2> SUFFICES ASSUME NEW a \in Board!Listed(tui), NEW b \in Board!Listed(tui), a # b
               PROVE  a.id # b.id /\ (Pane[a.id] = NoId \/ Pane[a.id] # Pane[b.id])
    BY DEF Board!OneRow
  <2>1. PICK k \in Board!First(tui.list) : a = tui.list[k]
    BY DEF Board!Listed
  <2>2. PICK j \in Board!First(tui.list) : b = tui.list[j]
    BY DEF Board!Listed
  <2>3. k \in 1 .. j - 1 \/ j \in 1 .. k - 1
    BY <1>1, <2>1, <2>2 DEF Board!First
  <2>4. ~Board!Same(a, b) \/ ~Board!Same(b, a)
    BY <2>1, <2>2, <2>3 DEF Board!First
  <2> QED BY <2>4 DEF Board!Same
<1>4. Board!Caught
  <2> SUFFICES ASSUME sub = "on", chan = <<>>, stream = <<>>, \A c \in cmds : c.op # "read",
                      NEW i \in Board!Present \ doubt, Board!Alone(i)
               PROVE  \E k \in Board!First(tui.list) : tui.list[k] = Board!Copy(i)
    BY DEF Board!Caught, Board!Shown
  <2> DEFINE c == Board!Copy(i)
  <2>1. ~Mentions(chan, i) /\ ~Mentions(stream, i) /\ ~Reading(i)
    BY DEF Mentions, Reading
  <2>2. Near(tui.list, c, Reading(i))
    BY <2>1 DEF Current
  <2>3. i \in Sessions /\ c.id = i /\ Spaced(i) /\ AheadOf(tui.list, c)
    BY DEF Shapes, Heads, Board!Alone, Spaced
  <2> HIDE DEF c
  <2>4. PICK a \in DOMAIN tui.list : tui.list[a] = c
    BY <2>1, <2>2 DEF Near
  <2>5. a \in Board!First(tui.list)
    BY <1>1, <2>3, <2>4, Single
  <2> QED BY <2>4, <2>5 DEF c
<1> QED BY <1>2, <1>3, <1>4

\* The dashboard shows every row as the daemon has it once the stream is
\* handled, unless its last change was dropped, overtaken by the answer of a
\* fetch or told to nobody; and no session and no terminal twice: for any
\* sessions, tree, buffer, and any number of changes and keys
\* (sessionUpdateMsg, fetchSessionsResult and buildVisibleRows in tui.go).
THEOREM Catching == Numbering => (Board!Spec => [](Board!TypeOK /\ Board!OneRow /\ Board!Caught))
<1>1. ASSUME Numbering
      PROVE  Board!Spec => [](Board!TypeOK /\ Board!OneRow /\ Board!Caught)
  <2>1. Board!Init => Tracks
    BY <1>1, InitTracks
  <2>2. Tracks /\ [Board!Next]_(Board!dashVars) => Tracks'
    BY <1>1, StepTracks
  <2>3. Tracks => Board!TypeOK /\ Board!OneRow /\ Board!Caught
    BY <1>1, Reflects
  <2> QED BY <2>1, <2>2, <2>3, PTL DEF Board!Spec
<1> QED BY <1>1

-----------------------------------------------------------------------------
(***************************************************************************)
(* Updates.                                                                *)
(***************************************************************************)

Phases == {"free", "prepare", "upload", "uploading", "rename", "restart", "remote",
           "verify", "done"}
Jobs == [phase : Phases, host : Hosts \cup {Update!Nobody}, target : Versions \cup {Update!None},
         files : Versions \cup {Update!None}, next : DOMAIN Bins, probed : BOOLEAN, bulk : BOOLEAN,
         result : {"none", "updated", "error", "skipped_offline", "up_to_date"}]
Files == Versions \cup {Update!None, Update!Torn}
Machines == [bin : [Update!BinSet -> Versions], staged : [Update!BinSet -> Files], running : Versions]

UpdateTypes ==
  /\ release \in Versions /\ source \in Versions \cup {Update!None}
  /\ cached \in Versions \cup {Update!None}
  /\ own \in [bin : [Update!BinSet -> Versions], running : Versions, kind : {"standalone", "homebrew"}]
  /\ install \in [phase : {"free", "extract", "hosts"}, target : Versions \cup {Update!None},
                  next : DOMAIN Bins, restart : BOOLEAN]
  /\ host \in [Hosts -> Machines]
  /\ health \in [Hosts -> Versions \cup {Update!None}]
  /\ job \in [Updates -> Jobs]

\* This machine: nothing is newer than the release, and a restart is due
\* only when all binaries are there.
Local ==
  /\ cached <= release /\ own.running <= release /\ \A b \in Update!BinSet : own.bin[b] <= release
  /\ install.phase # "free" => install.target \in Versions /\ install.target <= release
  /\ own.kind = "standalone" =>
       /\ install.phase = "extract" =>
            \A i \in DOMAIN Bins : i < install.next => own.bin[Bins[i]] = install.target
       /\ install.restart => \A b \in Update!BinSet : own.bin[b] = install.target
  /\ install.phase = "extract" => ~install.restart

Pending == {"prepare", "upload", "uploading", "rename", "restart", "remote", "verify"}
Older == Pending \ {"verify"}

\* One job of a host.
Sent(j, m) ==
  /\ j.phase = "prepare" => j.next = 1
  /\ j.phase = "upload" => \A i \in DOMAIN Bins : i < j.next => m.staged[Bins[i]] = j.files
  /\ j.phase = "uploading" => \A i \in DOMAIN Bins :
       i < j.next /\ Bins[i] # Bins[j.next] => m.staged[Bins[i]] = j.files
  /\ j.phase = "rename" => \A b \in Update!BinSet : m.staged[b] \in {j.files, Update!None}
  /\ j.phase = "verify" => m.running = m.bin[Update!Daemon]

Told(j, m, top) ==
  /\ j.phase \in Pending => j.target \in Versions /\ j.target <= top
  /\ j.phase \in {"upload", "uploading", "rename"} =>
       j.files \in Versions /\ j.files >= j.target
  /\ j.bulk /\ j.probed /\ j.phase \in Older => m.running <= j.target
  /\ j.result = "updated" /\ j.probed => m.bin[Update!Daemon] >= j.target /\ m.running >= j.target

Remote ==
  /\ \A u, w \in Updates : job[u].host = job[w].host /\ job[u].host # Update!Nobody => u = w
  /\ \A u \in Updates : job[u].host = Update!Nobody => job[u].phase = "free" /\ job[u].result = "none"
  /\ \A u \in Updates : job[u].phase # "done" => job[u].result = "none"
  /\ \A u \in Updates : job[u].host # Update!Nobody =>
       job[u].phase # "free" /\ Sent(job[u], host[job[u].host]) /\ Told(job[u], host[job[u].host], release)

UpdateIInv == UpdateTypes /\ Local /\ Remote

-----------------------------------------------------------------------------
(***************************************************************************)
(* Versions, records and their fields.                                     *)
(***************************************************************************)
LEMMA Numbers ==
  ASSUME Shipping
  PROVE  /\ \A v \in Versions : v \in Nat /\ v > 0 /\ v # Update!None /\ v # Update!Torn
         /\ \A v \in Versions \cup {Update!None} : v \in Nat
         /\ Update!None \in Nat /\ Update!None \notin Versions /\ Update!Torn \notin Versions
         /\ Update!Torn # Update!None
         /\ \A v, w \in Versions \cup {Update!None} :
              /\ Update!IsNewer(v, w) \in BOOLEAN /\ (Update!IsNewer(v, w) <=> v > w)
              /\ Update!NewerOf(v, w) = (IF w > v THEN w ELSE v)
BY DEF Shipping, Update!None, Update!Torn, Update!IsNewer, Update!NewerOf

LEMMA BinsAre ==
  ASSUME Shipping
  PROVE  /\ Len(Bins) \in Nat /\ DOMAIN Bins = 1 .. Len(Bins) /\ 1 \in DOMAIN Bins
         /\ \A i \in DOMAIN Bins : Bins[i] \in Update!BinSet
         /\ \A b \in Update!BinSet : \E i \in DOMAIN Bins : Bins[i] = b
         /\ \A i \in DOMAIN Bins : i \in Nat /\ (i < Len(Bins) => i + 1 \in DOMAIN Bins)
<1>1. Len(Bins) \in Nat /\ DOMAIN Bins = 1 .. Len(Bins)
  BY DEF Shipping
<1>2. /\ \A i \in DOMAIN Bins : Bins[i] \in Update!BinSet
      /\ \A b \in Update!BinSet : \E i \in DOMAIN Bins : Bins[i] = b
  BY DEF Update!BinSet
<1>3. PICK i \in DOMAIN Bins : Bins[i] = Update!Daemon
  BY <1>2 DEF Shipping
<1> QED BY <1>1, <1>2, <1>3

\* A job that another takes the place of, and the machine it works on.
LEMMA OneChange ==
  ASSUME Shipping, UpdateIInv, NEW u \in Updates, NEW h \in Hosts, NEW j \in Jobs, NEW m \in Machines,
         job' = [job EXCEPT ![u] = j], host' = [host EXCEPT ![h] = m], release' = release,
         job[u].host = h \/ \A w \in Updates : job[w].host # h,
         j.host = h, j.phase # "free", j.phase # "done" => j.result = "none",
         Sent(j, m), Told(j, m, release)
  PROVE  Remote' /\ host' \in [Hosts -> Machines] /\ job' \in [Updates -> Jobs]
<1>1. host \in [Hosts -> Machines] /\ job \in [Updates -> Jobs] /\ h # Update!Nobody
  BY DEF UpdateIInv, UpdateTypes, Shipping
<1>2. job'[u] = j /\ host'[h] = m /\ \A w \in Updates \ {u} : job'[w] = job[w]
      /\ \A k \in Hosts \ {h} : host'[k] = host[k]
  BY <1>1
<1>3. host' \in [Hosts -> Machines] /\ job' \in [Updates -> Jobs]
  BY <1>1
<1>4. \A w \in Updates \ {u} : job[w].host # h
  BY <1>1 DEF UpdateIInv, Remote
<1>5. \A w \in Updates : job[w].host \in Hosts \cup {Update!Nobody}
  BY <1>1 DEF Jobs
<1>6. Remote'
  <2>1. \A v, w \in Updates : job'[v].host = job'[w].host /\ job'[v].host # Update!Nobody => v = w
    BY <1>2, <1>4 DEF UpdateIInv, Remote
  <2>2. \A w \in Updates : job'[w].host = Update!Nobody => job'[w].phase = "free" /\ job'[w].result = "none"
    BY <1>1, <1>2 DEF UpdateIInv, Remote
  <2>3. \A w \in Updates : job'[w].phase # "done" => job'[w].result = "none"
    BY <1>2 DEF UpdateIInv, Remote
  <2>4. ASSUME NEW w \in Updates, job'[w].host # Update!Nobody
        PROVE  /\ job'[w].phase # "free" /\ Sent(job'[w], host'[job'[w].host])
               /\ Told(job'[w], host'[job'[w].host], release)
    <3>1. CASE w = u
      BY <1>2, <3>1
    <3>2. CASE w # u
      <4>1. job'[w] = job[w] /\ job[w].host \in Hosts \ {h}
        BY <1>2, <1>4, <1>5, <2>4, <3>2
      <4> QED BY <1>2, <2>4, <4>1 DEF UpdateIInv, Remote
    <3> QED BY <3>1, <3>2
  <2> QED BY <2>1, <2>2, <2>3, <2>4 DEF Remote
<1> QED BY <1>3, <1>6

\* The job at work: its record, its host and what it knows.
LEMMA AtWork ==
  ASSUME Shipping, UpdateIInv, NEW u \in Updates, job[u].phase # "free"
  PROVE  /\ job[u] \in Jobs /\ job[u].host \in Hosts /\ host[job[u].host] \in Machines
         /\ Sent(job[u], host[job[u].host]) /\ Told(job[u], host[job[u].host], release)
         /\ host = [host EXCEPT ![job[u].host] = host[job[u].host]]
         /\ job[u].next \in DOMAIN Bins
<1>1. job[u] \in Jobs /\ host \in [Hosts -> Machines]
  BY DEF UpdateIInv, UpdateTypes
<1>2. job[u].host \in Hosts /\ job[u].next \in DOMAIN Bins
  BY <1>1 DEF UpdateIInv, Remote, Jobs
<1>3. job[u].host # Update!Nobody
  BY <1>2 DEF Shipping
<1> QED BY <1>1, <1>2, <1>3 DEF UpdateIInv, Remote

LEMMA WorkDone ==
  ASSUME Shipping, UpdateIInv, NEW u \in Updates, NEW h \in Hosts, NEW j \in Jobs, NEW m \in Machines,
         job' = [job EXCEPT ![u] = j], host' = [host EXCEPT ![h] = m],
         UNCHANGED <<release, source, own, install>>, cached' \in {cached, release},
         health' \in [Hosts -> Versions \cup {Update!None}],
         job[u].host = h \/ \A w \in Updates : job[w].host # h,
         j.host = h, j.phase # "free", j.phase # "done" => j.result = "none",
         Sent(j, m), Told(j, m, release)
  PROVE  UpdateIInv'
<1>1. Remote' /\ host' \in [Hosts -> Machines] /\ job' \in [Updates -> Jobs]
  BY OneChange
<1>2. UpdateTypes'
  BY <1>1 DEF UpdateIInv, UpdateTypes
<1>3. Local'
  BY Numbers DEF UpdateIInv, UpdateTypes, Local
<1> QED BY <1>1, <1>2, <1>3 DEF UpdateIInv

LEMMA RemoteKept ==
  ASSUME Shipping, UpdateIInv, UNCHANGED <<job, host>>, release' \in Versions, release' >= release
  PROVE  Remote'
<1>1. ASSUME NEW u \in Updates, NEW m, Told(job[u], m, release) PROVE Told(job[u], m, release')
  <2>1. release \in Nat /\ release' \in Nat /\ job[u].target \in Nat
    BY Numbers DEF UpdateIInv, UpdateTypes, Jobs
  <2> QED BY <1>1, <2>1 DEF Told
<1> QED BY <1>1 DEF UpdateIInv, Remote

LEMMA StepPublished ==
  ASSUME Shipping, UpdateIInv, Update!Published \/ \E h \in Hosts : Update!Heard(h) \/ Update!Lost(h)
  PROVE  UpdateIInv'
<1>1. release' \in Versions /\ release' >= release /\ release \in Nat /\ release' \in Nat
  BY Numbers DEF Update!Published, Update!Heard, Update!Lost, UpdateIInv, UpdateTypes
<1>2. UNCHANGED <<source, cached, own, install, host, job>>
  BY DEF Update!Published, Update!Heard, Update!Lost
<1>3. Remote'
  BY <1>1, <1>2, RemoteKept
<1>4. Local'
  <2>1. cached \in Nat /\ own.running \in Nat /\ install.target \in Nat
        /\ \A b \in Update!BinSet : own.bin[b] \in Nat
    BY Numbers DEF UpdateIInv, UpdateTypes
  <2> QED BY <1>1, <1>2, <2>1 DEF UpdateIInv, Local
<1>5. health' \in [Hosts -> Versions \cup {Update!None}]
  BY DEF Update!Published, Update!Heard, Update!Lost, UpdateIInv, UpdateTypes, Machines
<1>6. UpdateTypes'
  BY <1>1, <1>2, <1>5 DEF UpdateIInv, UpdateTypes
<1> QED BY <1>3, <1>4, <1>6 DEF UpdateIInv

\* A host of which there is no job.
LEMMA StepUpdatesItself ==
  ASSUME Shipping, UpdateIInv, NEW h \in Hosts, Update!UpdatesItself(h)
  PROVE  UpdateIInv'
<1>1. PICK v \in Versions : host' = [host EXCEPT ![h].bin = [b \in Update!BinSet |-> v],
                                                 ![h].running = v]
  BY DEF Update!UpdatesItself
<1>2. UNCHANGED <<release, source, cached, own, install, health, job>>
      /\ \A u \in Updates : job[u].host # h
  BY DEF Update!UpdatesItself
<1>3. host \in [Hosts -> Machines]
  BY DEF UpdateIInv, UpdateTypes
<1>4. host' \in [Hosts -> Machines] /\ \A k \in Hosts \ {h} : host'[k] = host[k]
  BY <1>1, <1>3 DEF Machines
<1>5. UpdateTypes' /\ Local'
  BY <1>2, <1>4 DEF UpdateIInv, UpdateTypes, Local
<1>6. Remote'
  BY <1>2, <1>4 DEF UpdateIInv, Remote, UpdateTypes, Jobs
<1> QED BY <1>5, <1>6 DEF UpdateIInv

-----------------------------------------------------------------------------
(***************************************************************************)
(* This machine.                                                           *)
(***************************************************************************)
LEMMA StepHandleUpdate ==
  ASSUME Shipping, UpdateIInv, Update!handleUpdate
  PROVE  UpdateIInv'
<1>1. PICK info \in {Update!None, release} :
        /\ cached' = IF info = Update!None THEN cached ELSE info
        /\ install' = [phase |-> IF Update!IsNewer(info, own.running) THEN "extract" ELSE "hosts",
                       target |-> Update!NewerOf(own.running, info), next |-> 1, restart |-> FALSE]
  BY DEF Update!handleUpdate, Update!CheckLatestRelease
<1>2. UNCHANGED <<release, source, own, host, health, job>>
  BY DEF Update!handleUpdate
<1>3. own.running \in Versions /\ release \in Versions /\ own.running <= release
      /\ own.running \in Nat /\ release \in Nat
  BY Numbers DEF UpdateIInv, UpdateTypes, Local
<1>4. Update!NewerOf(own.running, info) \in Versions /\ Update!NewerOf(own.running, info) <= release
  BY <1>1, <1>3, Numbers DEF Update!None
<1>5. cached' \in {cached, release} /\ 1 \in DOMAIN Bins
      /\ \A i \in DOMAIN Bins : ~(i < 1)
  BY <1>1, BinsAre
<1>6. UpdateTypes'
  BY <1>1, <1>2, <1>4, <1>5 DEF UpdateIInv, UpdateTypes
<1>7. Local'
  BY <1>1, <1>2, <1>3, <1>4, <1>5 DEF UpdateIInv, Local
<1>8. Remote'
  BY <1>2, <1>3, RemoteKept
<1> QED BY <1>6, <1>7, <1>8 DEF UpdateIInv

LEMMA StepExtract ==
  ASSUME Shipping, UpdateIInv, Update!ExtractTarGz \/ Update!RunHomebrewUpgrade
  PROVE  UpdateIInv'
<1> DEFINE v == install.target
           n == install.next
<1>1. /\ install.phase = "extract" /\ UNCHANGED <<release, source, cached, host, health, job>>
      /\ v \in Versions /\ v <= release /\ ~install.restart /\ n \in DOMAIN Bins
      /\ own.running \in Versions /\ own.running <= release /\ release \in Versions
      /\ own.kind = "standalone" =>
           \A i \in DOMAIN Bins : i < n => own.bin[Bins[i]] = v
  BY DEF Update!ExtractTarGz, Update!RunHomebrewUpgrade, UpdateIInv, UpdateTypes, Local
<1>2. Remote'
  BY <1>1, RemoteKept, Numbers
<1>3. own \in [bin : [Update!BinSet -> Versions], running : Versions, kind : {"standalone", "homebrew"}]
      /\ install \in [phase : {"free", "extract", "hosts"}, target : Versions \cup {Update!None},
                      next : DOMAIN Bins, restart : BOOLEAN]
  BY DEF UpdateIInv, UpdateTypes
<1>4. CASE UNCHANGED own /\ install' = [install EXCEPT !.phase = "free"]
  <2>1. UpdateTypes'
    BY <1>1, <1>3, <1>4 DEF UpdateIInv, UpdateTypes
  <2>2. Local'
    BY <1>1, <1>3, <1>4 DEF UpdateIInv, Local
  <2> QED BY <1>2, <2>1, <2>2 DEF UpdateIInv
<1>5. CASE /\ own.kind = "homebrew" /\ UNCHANGED own
           /\ install' = [install EXCEPT !.phase = "hosts", !.restart = TRUE, !.target = own.running]
  <2>1. UpdateTypes'
    BY <1>1, <1>3, <1>5 DEF UpdateIInv, UpdateTypes
  <2>2. Local'
    BY <1>1, <1>3, <1>5 DEF UpdateIInv, Local
  <2> QED BY <1>2, <2>1, <2>2 DEF UpdateIInv
<1>6. CASE /\ own' = [own EXCEPT !.bin = [b \in Update!BinSet |-> v]]
           /\ install' = [install EXCEPT !.phase = "hosts", !.restart = TRUE]
  <2>1. UpdateTypes'
    BY <1>1, <1>3, <1>6 DEF UpdateIInv, UpdateTypes
  <2>2. Local'
    BY <1>1, <1>3, <1>6 DEF UpdateIInv, Local
  <2> QED BY <1>2, <2>1, <2>2 DEF UpdateIInv
<1>7. CASE /\ own' = [own EXCEPT !.bin[Bins[n]] = v]
           /\ install' = IF n < Len(Bins) THEN [install EXCEPT !.next = n + 1]
                         ELSE [install EXCEPT !.phase = "hosts", !.restart = TRUE]
  <2>1. Bins[n] \in Update!BinSet /\ (n < Len(Bins) => n + 1 \in DOMAIN Bins)
    BY <1>1, BinsAre
  <2>2. own' \in [bin : [Update!BinSet -> Versions], running : Versions, kind : {"standalone", "homebrew"}]
        /\ own'.running = own.running /\ own'.kind = own.kind /\ own'.bin[Bins[n]] = v
        /\ \A b \in Update!BinSet \ {Bins[n]} : own'.bin[b] = own.bin[b]
    BY <1>1, <1>3, <1>7, <2>1
  <2>3. /\ install' \in [phase : {"free", "extract", "hosts"}, target : Versions \cup {Update!None},
                         next : DOMAIN Bins, restart : BOOLEAN]
        /\ install'.target = v
        /\ install'.phase = "extract" => n < Len(Bins) /\ install'.next = n + 1 /\ ~install'.restart
        /\ install'.restart => n >= Len(Bins)
    <3>1. n \in Nat /\ Len(Bins) \in Nat
      BY <1>1, BinsAre
    <3>2. CASE n < Len(Bins)
      BY <1>1, <1>3, <1>7, <2>1, <3>1, <3>2
    <3>3. CASE ~(n < Len(Bins))
      <4>1. install' = [install EXCEPT !.phase = "hosts", !.restart = TRUE] /\ n >= Len(Bins)
        BY <1>7, <3>1, <3>3
      <4>2. install'.target = v /\ install'.phase = "hosts"
        BY <1>3, <4>1
      <4>3. install' \in [phase : {"free", "extract", "hosts"}, target : Versions \cup {Update!None},
                          next : DOMAIN Bins, restart : BOOLEAN]
        BY <1>3, <4>1
      <4> QED BY <4>1, <4>2, <4>3
    <3> QED BY <3>2, <3>3
  <2>4. UpdateTypes'
    BY <1>1, <2>2, <2>3 DEF UpdateIInv, UpdateTypes
  <2>5. own.kind = "standalone" => \A i \in DOMAIN Bins : i <= n => own'.bin[Bins[i]] = v
    BY <1>1, <2>2, BinsAre
  <2>6. own.kind = "standalone" /\ n >= Len(Bins) => \A b \in Update!BinSet : own'.bin[b] = v
    <3>1. \A i \in DOMAIN Bins : n >= Len(Bins) => i <= n
      BY <1>1, BinsAre
    <3>2. \A b \in Update!BinSet : \E i \in DOMAIN Bins : Bins[i] = b
      BY BinsAre
    <3> QED BY <2>5, <3>1, <3>2
  <2>7. own'.kind = "standalone" =>
          /\ install'.phase = "extract" =>
               \A i \in DOMAIN Bins : i < install'.next => own'.bin[Bins[i]] = install'.target
          /\ install'.restart => \A b \in Update!BinSet : own'.bin[b] = install'.target
    BY <1>1, <2>2, <2>3, <2>5, <2>6, BinsAre
  <2>8. \A b \in Update!BinSet : own'.bin[b] <= release
    BY <1>1, <2>2 DEF UpdateIInv, Local
  <2>9. Local'
    BY <1>1, <2>2, <2>3, <2>7, <2>8 DEF UpdateIInv, Local
  <2> QED BY <1>2, <2>4, <2>9 DEF UpdateIInv
<1>8. \/ UNCHANGED own /\ install' = [install EXCEPT !.phase = "free"]
      \/ /\ own.kind = "homebrew" /\ UNCHANGED own
         /\ install' = [install EXCEPT !.phase = "hosts", !.restart = TRUE, !.target = own.running]
      \/ /\ own' = [own EXCEPT !.bin = [b \in Update!BinSet |-> v]]
         /\ install' = [install EXCEPT !.phase = "hosts", !.restart = TRUE]
      \/ /\ own' = [own EXCEPT !.bin[Bins[n]] = v]
         /\ install' = IF n < Len(Bins) THEN [install EXCEPT !.next = n + 1]
                       ELSE [install EXCEPT !.phase = "hosts", !.restart = TRUE]
  BY DEF Update!ExtractTarGz, Update!RunHomebrewUpgrade
<1> QED BY <1>4, <1>5, <1>6, <1>7, <1>8

LEMMA EmptyJob ==
  ASSUME Shipping
  PROVE  Update!NoJob \in Jobs /\ Update!NoJob.host = Update!Nobody /\ Update!NoJob.phase = "free" /\ Update!NoJob.result = "none"
BY BinsAre DEF Update!NoJob, Jobs, Phases

\* The restart drops jobs, and changes none.
LEMMA StepRestartLocal ==
  ASSUME Shipping, UpdateIInv, Update!RestartLocal
  PROVE  UpdateIInv'
<1>1. /\ UNCHANGED <<release, source, host>> /\ install' = [install EXCEPT !.phase = "free"]
      /\ \A u \in Updates : job'[u] = Update!NoJob \/ job'[u] = job[u]
      /\ own' = own \/ own' = [own EXCEPT !.running = own.bin[Update!Daemon]]
      /\ cached' \in {cached, Update!None}
  BY DEF Update!RestartLocal, UpdateIInv, UpdateTypes
<1>2. job' \in [Updates -> Jobs]
  BY EmptyJob DEF Update!RestartLocal, UpdateIInv, UpdateTypes
<1>3. health' \in [Hosts -> Versions \cup {Update!None}]
  BY DEF Update!RestartLocal, UpdateIInv, UpdateTypes
<1>4. own.bin[Update!Daemon] \in Versions /\ own.bin[Update!Daemon] <= release
  BY DEF UpdateIInv, UpdateTypes, Local, Shipping
<1>5. UpdateTypes'
  BY <1>1, <1>2, <1>3, <1>4 DEF UpdateIInv, UpdateTypes
<1>6. Local'
  <2>1. Update!None <= release
    BY Numbers DEF UpdateIInv, UpdateTypes, Update!None
  <2> QED BY <1>1, <1>4, <2>1 DEF UpdateIInv, UpdateTypes, Local
<1>7. Remote'
  <2>1. \A u \in Updates : job'[u].host # Update!Nobody => job'[u] = job[u]
    BY <1>1, EmptyJob
  <2> QED BY <1>1, <2>1, EmptyJob DEF UpdateIInv, Remote
<1> QED BY <1>5, <1>6, <1>7 DEF UpdateIInv

-----------------------------------------------------------------------------
(***************************************************************************)
(* The jobs of the hosts.                                                  *)
(***************************************************************************)
LEMMA StepEnds ==
  ASSUME Shipping, UpdateIInv, NEW u \in Updates, job[u].phase # "free", NEW m \in Machines,
         Update!Ends(u, "error"), host' = [host EXCEPT ![job[u].host] = m],
         UNCHANGED <<release, source, cached, own, install, health>>
  PROVE  UpdateIInv'
<1> DEFINE j == [job[u] EXCEPT !.phase = "done", !.result = "error"]
<1>1. job[u] \in Jobs /\ job[u].host \in Hosts
  BY AtWork
<1>2. j \in Jobs /\ j.host = job[u].host /\ j.phase = "done" /\ j.result = "error"
  BY <1>1 DEF Jobs, Phases
<1>3. job' = [job EXCEPT ![u] = j]
  BY DEF Update!Ends, UpdateIInv, UpdateTypes, Jobs
<1> HIDE DEF j
<1>4. Sent(j, m) /\ Told(j, m, release)
  BY <1>2 DEF Sent, Told, Pending, Older
<1>5. health' \in [Hosts -> Versions \cup {Update!None}]
  BY DEF UpdateIInv, UpdateTypes
<1> QED BY <1>1, <1>2, <1>3, <1>4, <1>5, WorkDone

\* A job begins for a host that has none.
LEMMA StepBegins ==
  ASSUME Shipping, UpdateIInv, NEW u \in Updates, NEW h \in Hosts,
         Update!UpdateOutdated(u, h) \/ Update!handleHostUpdate(u, h)
  PROVE  UpdateIInv'
<1>1. \A w \in Updates : job[w].host # h
  <2>1. job[u].phase = "free" /\ \A w \in Updates : job[w].host # h \/ Overlap
    BY DEF Update!UpdateOutdated, Update!handleHostUpdate, Shipping
  <2> QED BY <2>1 DEF Shipping
<1>2. UNCHANGED <<release, source, own, install, host, health>> /\ cached' \in {cached, release}
  BY DEF Update!UpdateOutdated, Update!handleHostUpdate, Update!CheckLatestRelease, UpdateIInv,
      UpdateTypes
<1>3. host \in [Hosts -> Machines] /\ host' = [host EXCEPT ![h] = host[h]] /\ host[h] \in Machines
      /\ health' \in [Hosts -> Versions \cup {Update!None}]
  BY <1>2 DEF UpdateIInv, UpdateTypes
<1>4. release \in Nat /\ own.running \in Versions /\ own.running <= release /\ cached <= release
      /\ cached \in Versions \cup {Update!None} /\ host[h].running \in Versions
      /\ own.running \in Nat /\ host[h].running \in Nat /\ release \in Versions
  BY <1>3, Numbers DEF UpdateIInv, UpdateTypes, Local, Machines
<1>5. CASE Update!handleHostUpdate(u, h)
  <2>1. PICK info \in {cached, release, Update!None} :
          job' = [job EXCEPT ![u] = [Update!NoJob EXCEPT !.phase = "prepare", !.host = h,
                                       !.target = Update!NewerOf(own.running, info)]]
    BY <1>5 DEF Update!handleHostUpdate, Update!CheckLatestRelease
  <2> DEFINE j == [Update!NoJob EXCEPT !.phase = "prepare", !.host = h,
                                !.target = Update!NewerOf(own.running, info)]
  <2>2. Update!NewerOf(own.running, info) \in Versions /\ Update!NewerOf(own.running, info) <= release
    BY <1>4, <2>1, Numbers DEF Update!None
  <2>3. j \in Jobs /\ j.host = h /\ j.phase = "prepare" /\ j.result = "none" /\ j.bulk = FALSE
        /\ j.target = Update!NewerOf(own.running, info) /\ j.next = 1
    BY <2>2, EmptyJob, BinsAre DEF Update!NoJob, Jobs, Phases
  <2>4. job' = [job EXCEPT ![u] = j]
    BY <2>1
  <2> HIDE DEF j
  <2>5. Sent(j, host[h]) /\ Told(j, host[h], release)
    BY <2>2, <2>3 DEF Sent, Told, Pending, Older
  <2>6. j.phase # "free" /\ (j.phase # "done" => j.result = "none")
    BY <2>3
  <2> QED BY <1>1, <1>2, <1>3, <2>3, <2>4, <2>5, <2>6, WorkDone
<1>6. CASE Update!UpdateOutdated(u, h)
  <2>1. PICK answers \in BOOLEAN :
          LET remote == IF answers THEN host[h].running ELSE health[h]
          IN  IF remote = Update!None \/ ~Update!IsNewer(install.target, remote)
              THEN job' = [job EXCEPT ![u] = [Update!NoJob EXCEPT !.phase = "done", !.host = h,
                              !.bulk = TRUE,
                              !.result = IF remote = Update!None THEN "skipped_offline" ELSE "up_to_date"]]
              ELSE job' = [job EXCEPT ![u] = [Update!NoJob EXCEPT !.phase = "prepare", !.host = h,
                              !.target = install.target, !.probed = answers, !.bulk = TRUE]]
    BY <1>6 DEF Update!UpdateOutdated
  <2>2. install.target \in Versions /\ install.target <= release /\ install.target \in Nat
    BY <1>6, Numbers DEF Update!UpdateOutdated, UpdateIInv, Local
  <2>3. CASE \E r \in {"skipped_offline", "up_to_date"} :
               job' = [job EXCEPT ![u] = [Update!NoJob EXCEPT !.phase = "done", !.host = h,
                                             !.bulk = TRUE, !.result = r]]
    <3>1. PICK r \in {"skipped_offline", "up_to_date"} :
            job' = [job EXCEPT ![u] = [Update!NoJob EXCEPT !.phase = "done", !.host = h,
                                             !.bulk = TRUE, !.result = r]]
      BY <2>3
    <3> DEFINE j == [Update!NoJob EXCEPT !.phase = "done", !.host = h, !.bulk = TRUE, !.result = r]
    <3>2. j \in Jobs /\ j.host = h /\ j.phase = "done" /\ j.result = r
      BY EmptyJob, BinsAre DEF Update!NoJob, Jobs, Phases
    <3>3. job' = [job EXCEPT ![u] = j]
      BY <3>1
    <3> HIDE DEF j
    <3>4. Sent(j, host[h]) /\ Told(j, host[h], release)
      BY <3>1, <3>2 DEF Sent, Told, Pending, Older
    <3>5. j.phase # "free" /\ (j.phase # "done" => j.result = "none")
      BY <3>2
    <3> QED BY <1>1, <1>2, <1>3, <3>2, <3>3, <3>4, <3>5, WorkDone
  <2>4. CASE /\ answers => Update!IsNewer(install.target, host[h].running)
             /\ job' = [job EXCEPT ![u] = [Update!NoJob EXCEPT !.phase = "prepare", !.host = h,
                              !.target = install.target, !.probed = answers, !.bulk = TRUE]]
    <3> DEFINE j == [Update!NoJob EXCEPT !.phase = "prepare", !.host = h,
                              !.target = install.target, !.probed = answers, !.bulk = TRUE]
    <3>1. j \in Jobs /\ j.host = h /\ j.phase = "prepare" /\ j.result = "none"
          /\ j.target = install.target /\ j.probed = answers /\ j.next = 1
      BY <2>2, EmptyJob, BinsAre DEF Update!NoJob, Jobs, Phases
    <3>4. job' = [job EXCEPT ![u] = j]
      BY <2>4
    <3> HIDE DEF j
    <3>2. answers => host[h].running <= install.target
      BY <1>4, <2>2, <2>4, Numbers
    <3>3. Sent(j, host[h]) /\ Told(j, host[h], release)
      BY <2>2, <3>1, <3>2 DEF Sent, Told, Pending, Older
    <3>5. j.phase # "free" /\ (j.phase # "done" => j.result = "none")
      BY <3>1
    <3> QED BY <1>1, <1>2, <1>3, <3>1, <3>3, <3>4, <3>5, WorkDone
  <2> QED BY <2>1, <2>3, <2>4
<1> QED BY <1>5, <1>6

LEMMA StepPrepare ==
  ASSUME Shipping, UpdateIInv, NEW u \in Updates, Update!Prepare(u)
  PROVE  UpdateIInv'
<1> DEFINE h == job[u].host
           m == host[h]
<1>1. /\ job[u].phase = "prepare" /\ UNCHANGED <<release, source, cached, own, install, host, health>>
      /\ job[u] \in Jobs /\ h \in Hosts /\ m \in Machines /\ host' = [host EXCEPT ![h] = m]
      /\ Told(job[u], m, release) /\ Sent(job[u], m) /\ job[u].next \in DOMAIN Bins
      /\ health' \in [Hosts -> Versions \cup {Update!None}] /\ job[u].result = "none"
  BY AtWork DEF Update!Prepare, UpdateIInv, UpdateTypes, Remote
<1>2. CASE Update!Ends(u, "error")
  BY <1>1, <1>2, StepEnds
<1>3. ASSUME NEW files \in Versions, files >= job[u].target,
             job' = [job EXCEPT ![u].phase = "upload", ![u].files = files]
      PROVE  UpdateIInv'
  <2> DEFINE j == [job[u] EXCEPT !.phase = "upload", !.files = files]
  <2>1. /\ j \in Jobs /\ j.host = h /\ j.phase = "upload" /\ j.result = "none" /\ j.files = files
        /\ j.target = job[u].target /\ j.bulk = job[u].bulk /\ j.probed = job[u].probed
        /\ j.next = job[u].next
    BY <1>1 DEF Jobs, Phases
  <2>2. job' = [job EXCEPT ![u] = j]
    BY <1>3 DEF UpdateIInv, UpdateTypes, Jobs
  <2> HIDE DEF j, h, m
  <2>3. Told(j, m, release)
    BY <1>1, <1>3, <2>1 DEF Told, Pending, Older
  <2>4. Sent(j, m)
    <3>1. j.next = 1 /\ \A i \in DOMAIN Bins : ~(i < 1)
      BY <1>1, <2>1, BinsAre DEF Sent
    <3> QED BY <2>1, <3>1 DEF Sent
  <2> QED BY <1>1, <2>1, <2>2, <2>3, <2>4, WorkDone DEF h
<1>4. CASE job' = [job EXCEPT ![u].phase = "remote"]
  <2> DEFINE j == [job[u] EXCEPT !.phase = "remote"]
  <2>1. /\ j \in Jobs /\ j.host = h /\ j.phase = "remote" /\ j.result = "none"
        /\ j.target = job[u].target /\ j.bulk = job[u].bulk /\ j.probed = job[u].probed
    BY <1>1 DEF Jobs, Phases
  <2>2. job' = [job EXCEPT ![u] = j]
    BY <1>4 DEF UpdateIInv, UpdateTypes, Jobs
  <2> HIDE DEF j, h, m
  <2>3. Told(j, m, release) /\ Sent(j, m)
    BY <1>1, <2>1 DEF Told, Sent, Pending, Older
  <2> QED BY <1>1, <2>1, <2>2, <2>3, WorkDone DEF h
<1>5. release \in Nat /\ job[u].target \in Versions /\ job[u].target <= release
      /\ job[u].target >= job[u].target
  BY <1>1, Numbers DEF Told, Pending, UpdateIInv, UpdateTypes
<1>6. CASE /\ Update!findUpToDateSourceDir(job[u].target)
           /\ job' = [job EXCEPT ![u].phase = "upload", ![u].files = source]
  <2>1. source \in Versions /\ source >= job[u].target
    BY <1>6 DEF Update!findUpToDateSourceDir, UpdateIInv, UpdateTypes
  <2> QED BY <1>3, <1>6, <2>1
<1>7. CASE job' = [job EXCEPT ![u].phase = "upload", ![u].files = job[u].target]
  BY <1>3, <1>5, <1>7
<1> QED BY <1>2, <1>4, <1>6, <1>7 DEF Update!Prepare

\* A step of a job that writes to its host.
LEMMA StepUpload ==
  ASSUME Shipping, UpdateIInv, NEW u \in Updates, Update!Upload(u)
  PROVE  UpdateIInv'
<1> DEFINE h == job[u].host
           m == host[h]
           n == [m EXCEPT !.staged[Update!Binary(u)] = Update!Torn]
           j == [job[u] EXCEPT !.phase = "uploading"]
<1>1. /\ job[u].phase = "upload" /\ UNCHANGED <<release, source, cached, own, install, health>>
      /\ job[u] \in Jobs /\ h \in Hosts /\ m \in Machines /\ host = [host EXCEPT ![h] = m]
      /\ Told(job[u], m, release) /\ Sent(job[u], m) /\ job[u].next \in DOMAIN Bins
      /\ health' \in [Hosts -> Versions \cup {Update!None}] /\ job[u].result = "none"
      /\ Update!Binary(u) \in Update!BinSet /\ Update!Binary(u) = Bins[job[u].next]
      /\ host \in [Hosts -> Machines] /\ job \in [Updates -> Jobs]
  BY AtWork, BinsAre DEF Update!Upload, UpdateIInv, UpdateTypes, Remote, Update!Binary
<1>2. n \in Machines /\ n.running = m.running /\ n.bin = m.bin
      /\ \A b \in Update!BinSet \ {Update!Binary(u)} : n.staged[b] = m.staged[b]
  BY <1>1 DEF Machines, Files
<1>3. CASE UNCHANGED host /\ Update!Ends(u, "error")
  <2>1. host' = [host EXCEPT ![h] = m]
    BY <1>1, <1>3
  <2> QED BY <1>1, <1>3, <2>1, StepEnds
<1>4. ASSUME host' = Update!Staged(h, Update!Binary(u), Update!Torn) PROVE host' = [host EXCEPT ![h] = n]
  BY <1>1, <1>4 DEF Update!Staged, Machines
<1>5. CASE host' = Update!Staged(h, Update!Binary(u), Update!Torn) /\ Update!Ends(u, "error")
  BY <1>1, <1>2, <1>4, <1>5, StepEnds
<1>6. CASE host' = Update!Staged(h, Update!Binary(u), Update!Torn) /\ job' = [job EXCEPT ![u].phase = "uploading"]
  <2>1. /\ j \in Jobs /\ j.host = h /\ j.phase = "uploading" /\ j.result = "none"
        /\ j.target = job[u].target /\ j.bulk = job[u].bulk /\ j.probed = job[u].probed
        /\ j.next = job[u].next /\ j.files = job[u].files
    BY <1>1 DEF Jobs, Phases
  <2>2. job' = [job EXCEPT ![u] = j]
    BY <1>1, <1>6 DEF Jobs
  <2>3. host' = [host EXCEPT ![h] = n]
    BY <1>4, <1>6
  <2> HIDE DEF j, h, m, n
  <2>4. Told(j, n, release)
    BY <1>1, <1>2, <2>1 DEF Told, Pending, Older
  <2>5. \A i \in DOMAIN Bins : Bins[i] # Bins[j.next] => n.staged[Bins[i]] = m.staged[Bins[i]]
    BY <1>1, <1>2, <2>1, BinsAre
  <2>6. Sent(j, n)
    BY <1>1, <2>1, <2>5 DEF Sent
  <2> QED BY <1>1, <1>2, <2>1, <2>2, <2>3, <2>4, <2>6, WorkDone DEF h
<1> QED BY <1>3, <1>5, <1>6 DEF Update!Upload

LEMMA StepUploaded ==
  ASSUME Shipping, UpdateIInv, NEW u \in Updates, Update!Uploaded(u)
  PROVE  UpdateIInv'
<1> DEFINE h == job[u].host
           m == host[h]
           f == job[u].files
           k == job[u].next
           n == [m EXCEPT !.staged[Update!Binary(u)] = f]
<1>1. /\ job[u].phase = "uploading" /\ UNCHANGED <<release, source, cached, own, install, health>>
      /\ job[u] \in Jobs /\ h \in Hosts /\ m \in Machines /\ host = [host EXCEPT ![h] = m]
      /\ Told(job[u], m, release) /\ Sent(job[u], m) /\ k \in DOMAIN Bins
      /\ health' \in [Hosts -> Versions \cup {Update!None}] /\ job[u].result = "none"
      /\ Update!Binary(u) \in Update!BinSet /\ Update!Binary(u) = Bins[k] /\ f \in Versions
      /\ host \in [Hosts -> Machines] /\ job \in [Updates -> Jobs]
  BY AtWork, BinsAre DEF Update!Uploaded, UpdateIInv, UpdateTypes, Remote, Update!Binary, Told
<1>2. n \in Machines /\ n.running = m.running /\ n.bin = m.bin /\ n.staged[Update!Binary(u)] = f
      /\ \A b \in Update!BinSet \ {Update!Binary(u)} : n.staged[b] = m.staged[b]
  BY <1>1 DEF Machines, Files
<1>3. host' = [host EXCEPT ![h] = n]
  BY <1>1 DEF Update!Staged, Machines, Update!Uploaded
<1>4. \A i \in DOMAIN Bins : i <= k => n.staged[Bins[i]] = f
  <2>1. \A i \in DOMAIN Bins : i <= k => i < k \/ i = k
    BY <1>1, BinsAre
  <2>2. \A i \in DOMAIN Bins : i < k /\ Bins[i] # Bins[k] => m.staged[Bins[i]] = f
    BY <1>1 DEF Sent
  <2>3. \A i \in DOMAIN Bins : Bins[i] \in Update!BinSet
    BY BinsAre
  <2> HIDE DEF n, m, f, k
  <2> QED BY <1>1, <1>2, <2>1, <2>2, <2>3
<1> HIDE DEF n, m, h
<1>5. ASSUME NEW j \in Jobs, job' = [job EXCEPT ![u] = j],
             j.host = h, j.phase \in {"upload", "rename"}, j.result = "none", j.files = f,
             j.target = job[u].target, j.bulk = job[u].bulk, j.probed = job[u].probed,
             Sent(j, n)
      PROVE  UpdateIInv'
  <2>1. Told(j, n, release)
    BY <1>1, <1>2, <1>5 DEF Told, Pending, Older
  <2> QED BY <1>1, <1>2, <1>3, <1>5, <2>1, WorkDone DEF h
<1>6. CASE k = Len(Bins)
  <2> DEFINE j == [job[u] EXCEPT !.phase = "rename", !.next = 1]
  <2>1. /\ j \in Jobs /\ j.host = h /\ j.phase = "rename" /\ j.result = "none"
        /\ j.target = job[u].target /\ j.bulk = job[u].bulk /\ j.probed = job[u].probed
        /\ j.files = f
    BY <1>1, BinsAre DEF Jobs, Phases, h
  <2>2. job' = [job EXCEPT ![u] = j]
    BY <1>1, <1>6 DEF Update!Uploaded, Jobs
  <2> HIDE DEF j, f, k
  <2>3. \A i \in DOMAIN Bins : i <= k
    BY <1>6, BinsAre
  <2>4. \A b \in Update!BinSet : n.staged[b] = f
    BY <1>4, <2>3, BinsAre
  <2>5. Sent(j, n)
    BY <2>1, <2>4 DEF Sent
  <2> QED BY <1>5, <2>1, <2>2, <2>5
<1>7. CASE k # Len(Bins)
  <2> DEFINE j == [job[u] EXCEPT !.phase = "upload", !.next = k + 1]
  <2>1. k + 1 \in DOMAIN Bins /\ \A i \in DOMAIN Bins : i < k + 1 => i <= k
    BY <1>1, <1>7, BinsAre
  <2>2. /\ j \in Jobs /\ j.host = h /\ j.phase = "upload" /\ j.result = "none"
        /\ j.target = job[u].target /\ j.bulk = job[u].bulk /\ j.probed = job[u].probed
        /\ j.files = f /\ j.next = k + 1
    BY <1>1, <2>1 DEF Jobs, Phases, h
  <2>3. job' = [job EXCEPT ![u] = j]
    BY <1>1, <1>7 DEF Update!Uploaded, Jobs
  <2> HIDE DEF j, f, k
  <2>4. Sent(j, n)
    BY <1>4, <2>1, <2>2 DEF Sent
  <2> QED BY <1>5, <2>2, <2>3, <2>4
<1> QED BY <1>6, <1>7

LEMMA StepRename ==
  ASSUME Shipping, UpdateIInv, NEW u \in Updates, Update!Rename(u)
  PROVE  UpdateIInv'
<1> DEFINE h == job[u].host
           m == host[h]
           b == Update!Binary(u)
           n == IF m.staged[b] = Update!None THEN m
                ELSE [m EXCEPT !.bin[b] = m.staged[b], !.staged[b] = Update!None]
<1>1. /\ job[u].phase = "rename" /\ UNCHANGED <<release, source, cached, own, install, health>>
      /\ job[u] \in Jobs /\ h \in Hosts /\ m \in Machines /\ host = [host EXCEPT ![h] = m]
      /\ Told(job[u], m, release) /\ Sent(job[u], m) /\ job[u].next \in DOMAIN Bins
      /\ health' \in [Hosts -> Versions \cup {Update!None}] /\ job[u].result = "none"
      /\ b \in Update!BinSet /\ job[u].files \in Versions
      /\ host \in [Hosts -> Machines] /\ job \in [Updates -> Jobs]
  BY AtWork, BinsAre DEF Update!Rename, UpdateIInv, UpdateTypes, Remote, Update!Binary, Told
<1>2. CASE UNCHANGED host /\ Update!Ends(u, "error")
  <2>1. host' = [host EXCEPT ![h] = m]
    BY <1>1, <1>2
  <2> QED BY <1>1, <1>2, <2>1, StepEnds
<1>3. CASE /\ host' = IF host[h].staged[b] = Update!None THEN host
                      ELSE [host EXCEPT ![h].bin[b] = host[h].staged[b], ![h].staged[b] = Update!None]
           /\ Update!Step(u, "restart")
  <2>1. \A c \in Update!BinSet : m.staged[c] \in {job[u].files, Update!None}
    BY <1>1 DEF Sent
  <2>2. n \in Machines /\ n.running = m.running
        /\ \A c \in Update!BinSet : n.staged[c] \in {job[u].files, Update!None}
    <3>1. CASE m.staged[b] = Update!None
      BY <1>1, <2>1, <3>1
    <3>2. CASE m.staged[b] # Update!None
      <4>1. m.staged[b] \in Versions
        BY <1>1, <2>1, <3>2
      <4>2. n = [m EXCEPT !.bin[b] = m.staged[b], !.staged[b] = Update!None]
        BY <3>2
      <4> HIDE DEF n
      <4> QED BY <1>1, <2>1, <4>1, <4>2 DEF Machines, Files
    <3> QED BY <3>1, <3>2
  <2>3. host' = [host EXCEPT ![h] = n]
    BY <1>1, <1>3 DEF Machines
  <2> DEFINE j == IF job[u].next = Len(Bins) THEN [job[u] EXCEPT !.phase = "restart", !.next = 1]
                  ELSE [job[u] EXCEPT !.next = job[u].next + 1]
  <2>4. job[u].next # Len(Bins) => job[u].next + 1 \in DOMAIN Bins
    BY <1>1, BinsAre
  <2>5. /\ j \in Jobs /\ j.host = h /\ j.phase \in {"rename", "restart"} /\ j.result = "none"
        /\ j.target = job[u].target /\ j.bulk = job[u].bulk /\ j.probed = job[u].probed
        /\ j.files = job[u].files
    BY <1>1, <2>4, BinsAre DEF Jobs, Phases
  <2>6. job' = [job EXCEPT ![u] = j]
    BY <1>1, <1>3 DEF Update!Step, Jobs
  <2> HIDE DEF j, n, m, h, b
  <2>7. Told(j, n, release)
    BY <1>1, <2>2, <2>5 DEF Told, Pending, Older
  <2>8. Sent(j, n)
    BY <2>2, <2>5 DEF Sent
  <2>9. j.phase # "free" /\ j.phase # "done"
    BY <2>5
  <2> QED BY <1>1, <2>2, <2>3, <2>5, <2>6, <2>7, <2>8, <2>9, WorkDone DEF h
<1> QED BY <1>2, <1>3 DEF Update!Rename

\* The host's daemon starts again, or the host has updated itself.
LEMMA StepRestarts ==
  ASSUME Shipping, UpdateIInv, NEW u \in Updates, Update!RestartRemote(u) \/ Update!RemoteUpdate(u)
  PROVE  UpdateIInv'
<1> DEFINE h == job[u].host
           m == host[h]
           j == [job[u] EXCEPT !.phase = "verify"]
<1>1. /\ job[u].phase \in {"restart", "remote"}
      /\ UNCHANGED <<release, source, cached, own, install, health>>
      /\ job[u] \in Jobs /\ h \in Hosts /\ m \in Machines /\ host = [host EXCEPT ![h] = m]
      /\ Told(job[u], m, release)
      /\ health' \in [Hosts -> Versions \cup {Update!None}] /\ job[u].result = "none"
      /\ host \in [Hosts -> Machines] /\ job \in [Updates -> Jobs] /\ release \in Versions
  BY AtWork DEF Update!RestartRemote, Update!RemoteUpdate, UpdateIInv, UpdateTypes, Remote
<1>2. CASE UNCHANGED host /\ Update!Ends(u, "error")
  <2>1. host' = [host EXCEPT ![h] = m]
    BY <1>1, <1>2
  <2>2. job[u].phase # "free"
    BY <1>1
  <2> QED BY <1>1, <1>2, <2>1, <2>2, StepEnds
<1>3. ASSUME NEW n \in Machines, host' = [host EXCEPT ![h] = n], n.running = n.bin[Update!Daemon],
             job' = [job EXCEPT ![u].phase = "verify"]
      PROVE  UpdateIInv'
  <2>1. /\ j \in Jobs /\ j.host = h /\ j.phase = "verify" /\ j.result = "none"
        /\ j.target = job[u].target
    BY <1>1 DEF Jobs, Phases
  <2>2. job' = [job EXCEPT ![u] = j]
    BY <1>1, <1>3 DEF Jobs
  <2> HIDE DEF j, h, m
  <2>3. Told(j, n, release)
    BY <1>1, <2>1 DEF Told, Pending, Older
  <2>4. Sent(j, n)
    BY <1>3, <2>1 DEF Sent
  <2> QED BY <1>1, <1>3, <2>1, <2>2, <2>3, <2>4, WorkDone DEF h
<1>4. CASE /\ host' = [host EXCEPT ![h].running = host[h].bin[Update!Daemon]]
           /\ job' = [job EXCEPT ![u].phase = "verify"]
  <2> DEFINE n == [m EXCEPT !.running = m.bin[Update!Daemon]]
  <2>1. n \in Machines /\ n.running = n.bin[Update!Daemon]
    BY <1>1 DEF Machines, Shipping
  <2>2. host' = [host EXCEPT ![h] = n]
    BY <1>1, <1>4 DEF Machines
  <2> HIDE DEF n
  <2> QED BY <1>3, <1>4, <2>1, <2>2
<1>5. CASE /\ host' = [host EXCEPT ![h].bin = [b \in Update!BinSet |-> release], ![h].running = release]
           /\ job' = [job EXCEPT ![u].phase = "verify"]
  <2> DEFINE n == [m EXCEPT !.bin = [b \in Update!BinSet |-> release], !.running = release]
  <2>1. n \in Machines /\ n.running = n.bin[Update!Daemon]
    BY <1>1 DEF Machines, Shipping
  <2>2. host' = [host EXCEPT ![h] = n]
    BY <1>1, <1>5 DEF Machines
  <2> HIDE DEF n
  <2> QED BY <1>3, <1>5, <2>1, <2>2
<1> QED BY <1>2, <1>4, <1>5 DEF Update!RestartRemote, Update!RemoteUpdate

LEMMA StepVerify ==
  ASSUME Shipping, UpdateIInv, NEW u \in Updates, Update!Verify(u)
  PROVE  UpdateIInv'
<1> DEFINE h == job[u].host
           m == host[h]
<1>1. /\ job[u].phase = "verify" /\ UNCHANGED <<release, source, cached, own, install, host>>
      /\ job[u] \in Jobs /\ h \in Hosts /\ m \in Machines /\ host' = [host EXCEPT ![h] = m]
      /\ Told(job[u], m, release) /\ m.running = m.bin[Update!Daemon]
      /\ host \in [Hosts -> Machines] /\ job \in [Updates -> Jobs]
      /\ health \in [Hosts -> Versions \cup {Update!None}]
  BY AtWork DEF Update!Verify, UpdateIInv, UpdateTypes, Remote, Sent
<1>2. PICK way \in {"http", "ssh", "neither"} :
        /\ job' = [job EXCEPT ![u].phase = "done", ![u].probed = way # "neither",
                        ![u].result = IF Update!IsNewer(job[u].target, Update!Reported(u, way)) THEN "error" ELSE "updated"]
        /\ health' = IF way = "http" THEN [health EXCEPT ![h] = host[h].running] ELSE health
  BY DEF Update!Verify
<1> DEFINE r == IF Update!IsNewer(job[u].target, Update!Reported(u, way)) THEN "error" ELSE "updated"
           p == way # "neither"
           j == [job[u] EXCEPT !.phase = "done", !.probed = p, !.result = r]
<1>3. m.running \in Versions /\ health' \in [Hosts -> Versions \cup {Update!None}]
  BY <1>1, <1>2 DEF Machines
<1>4. r \in {"error", "updated"} /\ p \in BOOLEAN
  OBVIOUS
<1>5. /\ j \in Jobs /\ j.host = h /\ j.phase = "done" /\ j.result = r /\ j.probed = p
      /\ j.target = job[u].target
  <2> HIDE DEF r, p
  <2> QED BY <1>1, <1>4 DEF Jobs, Phases
<1>6. job' = [job EXCEPT ![u] = j]
  BY <1>1, <1>2 DEF Jobs
<1>7. r = "updated" /\ p => m.running >= job[u].target
  <2>1. job[u].target \in Versions
    BY <1>1 DEF Told, Pending
  <2>2. p => Update!Reported(u, way) = m.running
    BY <1>1, <1>2 DEF Update!Reported
  <2>3. job[u].target \in Nat /\ m.running \in Nat
    BY <1>3, <2>1, Numbers
  <2> QED BY <2>2, <2>3 DEF Update!IsNewer
<1> HIDE DEF j, r, p, m, h
<1>8. Told(j, m, release)
  BY <1>1, <1>5, <1>7 DEF Told, Pending, Older
<1>9. Sent(j, m)
  BY <1>5 DEF Sent
<1> QED BY <1>1, <1>3, <1>5, <1>6, <1>8, <1>9, WorkDone DEF h

LEMMA StepAnswered ==
  ASSUME Shipping, UpdateIInv, NEW u \in Updates, Update!Answered(u)
  PROVE  UpdateIInv'
<1>1. /\ job' = [job EXCEPT ![u] = Update!NoJob]
      /\ UNCHANGED <<release, source, cached, own, install, host, health>>
  BY DEF Update!Answered
<1>2. job' \in [Updates -> Jobs]
      /\ \A w \in Updates : job'[w] = Update!NoJob \/ job'[w] = job[w]
  BY <1>1, EmptyJob DEF UpdateIInv, UpdateTypes
<1>3. UpdateTypes' /\ Local'
  BY <1>1, <1>2 DEF UpdateIInv, UpdateTypes, Local
<1>4. Remote'
  <2>1. \A w \in Updates : job'[w].host # Update!Nobody => job'[w] = job[w]
    BY <1>2, EmptyJob
  <2> QED BY <1>1, <1>2, <2>1, EmptyJob DEF UpdateIInv, Remote
<1> QED BY <1>3, <1>4 DEF UpdateIInv

-----------------------------------------------------------------------------
(***************************************************************************)
(* Every state that can be reached.                                        *)
(***************************************************************************)
LEMMA UpdateInitially ==
  ASSUME Shipping, Update!Init
  PROVE  UpdateIInv
<1>1. UpdateTypes
  <2>1. own \in [bin : [Update!BinSet -> Versions], running : Versions, kind : {"standalone", "homebrew"}]
    BY DEF Update!Init
  <2>2. install \in [phase : {"free", "extract", "hosts"}, target : Versions \cup {Update!None},
                     next : DOMAIN Bins, restart : BOOLEAN]
    BY BinsAre DEF Update!Init
  <2>3. host \in [Hosts -> Machines]
    BY DEF Update!Init, Machines, Files
  <2> QED BY <2>1, <2>2, <2>3, EmptyJob DEF Update!Init, UpdateTypes
<1>2. Local
  <2>1. Update!None <= release
    BY Numbers DEF Update!Init, Update!None
  <2> QED BY <2>1 DEF Update!Init, Local
<1>3. Remote
  BY EmptyJob DEF Update!Init, Remote
<1> QED BY <1>1, <1>2, <1>3 DEF UpdateIInv

LEMMA UpdateInductive ==
  ASSUME Shipping, UpdateIInv, [Update!Next]_(Update!vars)
  PROVE  UpdateIInv'
<1>1. CASE UNCHANGED Update!vars
  BY <1>1 DEF Update!vars, UpdateIInv, UpdateTypes, Local, Remote
<1>2. CASE Update!Published \/ \E h \in Hosts : Update!Heard(h) \/ Update!Lost(h)
  BY <1>2, StepPublished
<1>3. CASE Update!handleUpdate \/ Update!ExtractTarGz \/ Update!RunHomebrewUpgrade \/ Update!RestartLocal
  BY <1>3, StepHandleUpdate, StepExtract, StepRestartLocal
<1>4. CASE \E h \in Hosts : Update!UpdatesItself(h)
  BY <1>4, StepUpdatesItself
<1>5. CASE \E h \in Hosts, u \in Updates : Update!UpdateOutdated(u, h) \/ Update!handleHostUpdate(u, h)
  BY <1>5, StepBegins
<1>6. CASE \E u \in Updates : Update!Prepare(u) \/ Update!Upload(u) \/ Update!Uploaded(u) \/ Update!Rename(u)
  BY <1>6, StepPrepare, StepUpload, StepUploaded, StepRename
<1>7. CASE \E u \in Updates : Update!RestartRemote(u) \/ Update!RemoteUpdate(u) \/ Update!Verify(u) \/ Update!Answered(u)
  BY <1>7, StepRestarts, StepVerify, StepAnswered
<1> QED BY <1>1, <1>2, <1>3, <1>4, <1>5, <1>6, <1>7 DEF Update!Next

LEMMA UpdateAlways ==
  ASSUME Shipping
  PROVE  Update!Spec => []UpdateIInv
<1>1. Update!Init => UpdateIInv
  BY UpdateInitially
<1>2. UpdateIInv /\ [Update!Next]_(Update!vars) => UpdateIInv'
  BY UpdateInductive
<1> QED BY <1>1, <1>2, PTL DEF Update!Spec

\* Versions are versions, whatever fails: a daemon runs one, and a binary
\* of a host is whole.
THEOREM UpdateTyping ==
  ASSUME Shipping
  PROVE  Update!Spec => []Update!TypeOK
<1>1. UpdateIInv => Update!TypeOK
  <2> SUFFICES ASSUME UpdateIInv PROVE Update!TypeOK
    OBVIOUS
  <2>1. {release, own.running, own.bin[Update!Daemon]} \subseteq Versions
    BY DEF UpdateIInv, UpdateTypes, Shipping
  <2>2. \A u \in Updates : job[u].next \in DOMAIN Bins
    BY DEF UpdateIInv, UpdateTypes, Jobs
  <2>3. \A h \in Hosts, b \in Update!BinSet : host[h].staged[b] \in Versions \cup {Update!None, Update!Torn}
    BY DEF UpdateIInv, UpdateTypes, Machines, Files
  <2> QED BY <2>1, <2>2, <2>3 DEF Update!TypeOK
<1> QED BY <1>1, UpdateAlways, PTL

\* Updates of one host that follow each other, however each ends: no torn
\* file is ever in a binary's place, and what the host answered to is what
\* is reported as updated.
THEOREM Whole ==
  ASSUME Shipping
  PROVE  Update!Spec => []Update!WholeBinaries
<1>1. UpdateIInv => Update!WholeBinaries
  <2> SUFFICES ASSUME UpdateIInv PROVE Update!WholeBinaries
    OBVIOUS
  <2>1. \A h \in Hosts, b \in Update!BinSet : host[h].bin[b] # Update!Torn /\ host[h].running # Update!Torn
    BY Numbers DEF UpdateIInv, UpdateTypes, Machines
  <2>2. ASSUME NEW u \in Updates, job[u].result = "updated", job[u].probed
        PROVE  LET h == job[u].host
               IN  host[h].bin[Update!Daemon] >= job[u].target /\ host[h].running >= job[u].target
    <3>1. job[u].host # Update!Nobody
      BY <2>2 DEF UpdateIInv, Remote
    <3>2. Told(job[u], host[job[u].host], release)
      BY <3>1 DEF UpdateIInv, Remote
    <3> QED BY <2>2, <3>2 DEF Told
  <2> QED BY <2>1, <2>2 DEF Update!WholeBinaries
<1> QED BY <1>1, UpdateAlways, PTL

\* The daemon here restarts only into a whole update; a host that has said
\* what it runs is not taken back by the update of all hosts.
LEMMA StepUpgrades ==
  ASSUME Shipping, UpdateIInv, [Update!Next]_(Update!vars)
  PROVE  Update!Upgrades
<1>1. own.kind = "standalone" /\ own'.running # own.running =>
        \A b \in Update!BinSet : own.bin[b] = own'.running
  <2>1. own.kind = "standalone" /\ own'.running # own.running =>
          install.restart /\ own'.running = own.bin[Update!Daemon]
    <3>1. own \in [bin : [Update!BinSet -> Versions], running : Versions, kind : {"standalone", "homebrew"}]
      BY DEF UpdateIInv, UpdateTypes
    <3>2. CASE Update!RestartLocal
      BY <3>1, <3>2 DEF Update!RestartLocal
    <3>3. CASE Update!ExtractTarGz \/ Update!RunHomebrewUpgrade
      <4>1. own'.running = own.running
        BY <3>1, <3>3 DEF Update!ExtractTarGz, Update!RunHomebrewUpgrade
      <4> QED BY <4>1
    <3>4. CASE UNCHANGED own
      BY <3>4
    <3>5. Update!RestartLocal \/ Update!ExtractTarGz \/ Update!RunHomebrewUpgrade \/ UNCHANGED own
      BY DEF Update!Next, Update!vars, Update!Published, Update!handleUpdate, Update!UpdatesItself,
          Update!Heard, Update!Lost, Update!UpdateOutdated,
             Update!handleHostUpdate, Update!Prepare, Update!Upload, Update!Uploaded, Update!Rename, Update!RestartRemote, Update!RemoteUpdate,
             Update!Verify, Update!Answered
    <3> QED BY <3>2, <3>3, <3>4, <3>5
  <2> QED BY <2>1 DEF UpdateIInv, Local, Shipping
<1>2. ASSUME NEW h \in Hosts, host'[h].bin[Update!Daemon] # host[h].bin[Update!Daemon],
             host'[h].bin[Update!Daemon] < host[h].running
      PROVE  \E u \in Updates : /\ job[u].host = h /\ job[u].phase \in {"rename", "remote"}
                                /\ ~(job[u].bulk /\ job[u].probed)
  <2>1. host \in [Hosts -> Machines] /\ release \in Versions /\ Update!Daemon \in Update!BinSet
    BY DEF UpdateIInv, UpdateTypes, Shipping
  <2>2. host[h].running \in Nat /\ host[h] \in Machines
    BY <2>1, Numbers DEF Machines
  <2>3. CASE \E k \in Hosts : Update!UpdatesItself(k)
    <3>1. PICK k \in Hosts, v \in Versions :
            /\ v > host[k].running
            /\ host' = [host EXCEPT ![k].bin = [b \in Update!BinSet |-> v], ![k].running = v]
      BY <2>3 DEF Update!UpdatesItself
    <3>2. CASE k = h
      <4>1. host'[h].bin[Update!Daemon] = v /\ v \in Nat /\ v > host[h].running
        BY <2>1, <3>1, <3>2, Numbers DEF Machines
      <4> QED BY <1>2, <2>2, <4>1
    <3>3. CASE k # h
      BY <1>2, <2>1, <3>1, <3>3
    <3> QED BY <3>2, <3>3
  <2>4. CASE \E u \in Updates : Update!Rename(u) \/ Update!RemoteUpdate(u)
    <3>1. PICK u \in Updates : Update!Rename(u) \/ Update!RemoteUpdate(u)
      BY <2>4
    <3>2. job[u].phase \in {"rename", "remote"}
      BY <3>1 DEF Update!Rename, Update!RemoteUpdate
    <3>3. /\ job[u].host \in Hosts /\ job[u] \in Jobs
          /\ Sent(job[u], host[job[u].host]) /\ Told(job[u], host[job[u].host], release)
      BY <3>2, AtWork
    <3>4. job[u].host = h
      <4>1. ASSUME job[u].host # h PROVE host'[h] = host[h]
        BY <2>1, <3>1, <3>3, <4>1 DEF Update!Rename, Update!RemoteUpdate
      <4> QED BY <1>2, <4>1
    <3>5. host'[h].bin[Update!Daemon] \in {job[u].files, release, host[h].bin[Update!Daemon]}
          /\ (job[u].phase = "remote" => host'[h].bin[Update!Daemon] \in {release, host[h].bin[Update!Daemon]})
      <4>1. CASE Update!Rename(u)
        <5>1. Update!Binary(u) \in Update!BinSet /\ job[u].phase = "rename"
          BY <3>3, <4>1, BinsAre DEF Update!Rename, Update!Binary, Jobs
        <5>2. host[h].staged[Update!Binary(u)] \in {job[u].files, Update!None}
          BY <3>3, <3>4, <5>1 DEF Sent
        <5>3. CASE UNCHANGED host
          BY <5>1, <5>3
        <5>4. CASE host' = [host EXCEPT ![h].bin[Update!Binary(u)] = host[h].staged[Update!Binary(u)],
                                        ![h].staged[Update!Binary(u)] = Update!None]
                   /\ host[h].staged[Update!Binary(u)] # Update!None
          <6>1. host'[h].bin = [host[h].bin EXCEPT ![Update!Binary(u)] = host[h].staged[Update!Binary(u)]]
            BY <2>1, <5>4 DEF Machines
          <6>2. host'[h].bin[Update!Daemon] \in {host[h].bin[Update!Daemon], host[h].staged[Update!Binary(u)]}
            BY <2>1, <2>2, <6>1 DEF Machines
          <6> QED BY <5>1, <5>2, <5>4, <6>2
        <5> QED BY <3>4, <4>1, <5>3, <5>4 DEF Update!Rename
      <4>2. CASE Update!RemoteUpdate(u)
        BY <2>1, <2>2, <3>4, <4>2 DEF Update!RemoteUpdate, Machines
      <4> QED BY <3>1, <4>1, <4>2
    <3>6. ASSUME job[u].bulk, job[u].probed PROVE FALSE
      <4>1. host[h].running <= job[u].target /\ job[u].target \in Versions /\ job[u].target <= release
            /\ (job[u].phase = "rename" => job[u].files \in Versions /\ job[u].files >= job[u].target)
        BY <3>2, <3>3, <3>4, <3>6 DEF Told, Pending, Older
      <4>2. job[u].target \in Nat /\ release \in Nat /\ (job[u].phase = "rename" => job[u].files \in Nat)
        BY <2>1, <4>1, Numbers
      <4>3. \/ host'[h].bin[Update!Daemon] = job[u].files /\ job[u].phase = "rename"
            \/ host'[h].bin[Update!Daemon] = release
        BY <1>2, <3>2, <3>5
      <4> QED BY <1>2, <2>2, <4>1, <4>2, <4>3
    <3> QED BY <3>2, <3>4, <3>6
  <2>5. CASE host'[h].bin = host[h].bin
    BY <1>2, <2>5
  <2>6. host'[h].bin = host[h].bin \/ (\E k \in Hosts : Update!UpdatesItself(k))
        \/ (\E u \in Updates : Update!Rename(u) \/ Update!RemoteUpdate(u))
    <3>1. CASE \E u \in Updates : Update!Upload(u) \/ Update!Uploaded(u) \/ Update!RestartRemote(u)
      <4>1. PICK u \in Updates : Update!Upload(u) \/ Update!Uploaded(u) \/ Update!RestartRemote(u)
        BY <3>1
      <4> QED BY <2>1, <4>1 DEF Update!Upload, Update!Uploaded, Update!RestartRemote,
                 Update!Staged, Machines
    <3>2. CASE UNCHANGED host
      BY <3>2
    <3>3. \/ UNCHANGED host \/ (\E k \in Hosts : Update!UpdatesItself(k))
          \/ (\E u \in Updates : Update!Rename(u) \/ Update!RemoteUpdate(u))
          \/ (\E u \in Updates : Update!Upload(u) \/ Update!Uploaded(u) \/ Update!RestartRemote(u))
      BY DEF Update!Next, Update!vars, Update!Published, Update!handleUpdate, Update!ExtractTarGz,
          Update!RunHomebrewUpgrade, Update!RestartLocal,
             Update!Heard, Update!Lost, Update!UpdateOutdated, Update!handleHostUpdate, Update!Prepare, Update!Verify, Update!Answered
    <3> QED BY <3>1, <3>2, <3>3
  <2> QED BY <2>3, <2>4, <2>5, <2>6
<1> QED BY <1>1, <1>2 DEF Update!Upgrades

\* The daemon restarts into an update only with all its binaries, and an
\* update of all hosts takes none that said what it runs back to an older
\* version (handleUpdate, updateRemoteHostToVersion).
THEOREM Upgrading ==
  ASSUME Shipping
  PROVE  Update!Spec => Update!NeverDowngraded
<1>1. UpdateIInv /\ [Update!Next]_(Update!vars) => [Update!Upgrades]_(Update!vars)
  BY StepUpgrades
<1> QED BY <1>1, UpdateAlways, PTL DEF Update!Spec, Update!NeverDowngraded

-----------------------------------------------------------------------------
(***************************************************************************)
(* The routing of spawns.                                                  *)
(***************************************************************************)
Even == {2 * k : k \in 0 .. MaxLoad}
Loads == {{}} \cup {{n} : n \in Even}
Reports == [online : BOOLEAN, caps : {{}} \cup {Routing!Policy(h).caps : h \in Routing!Members}, load : Loads]
Askings == Requests \cup {Routing!Forwarded(r) : r \in Requests} \cup {Routing!NoRequest}

RoutingTypes ==
    /\ fleet \in Fleets
    /\ peers \in [Routing!Members -> SUBSET Routing!Members] /\ up \subseteq Routing!Members
    /\ report \in [Routing!Members -> [Routing!Members -> Reports]]
    /\ load \in [Routing!Members -> Even]
    /\ spawn \in [at : Routing!Members \cup {Routing!None}, req : Askings, asked : {r.caps : r \in Requests} \cup {{}},
                  hops : 0 .. MaxHops, known : BOOLEAN]
    /\ skewed \in BOOLEAN

\* What a daemon picks among the hosts S if it knows all of them as they are.
Reaches(h, cap) == cap \in Routing!Policy(h).caps \cup Routing!Policy(h).tags \cup (IF Routing!Policy(h).repo THEN {"repo"} ELSE {})
Ready(S) == {h \in S : ~Routing!hostHasTag(h, "drain")}
Needs(S, r) == r.caps \cup (IF \E h \in S : Reaches(h, r.agent) THEN {r.agent} ELSE {})
Tied(S, r) == r.node /\ \E h \in Ready(S) : Routing!Policy(h).repo
Fit(S, r) == {h \in Ready(S) : (Tied(S, r) => Routing!Policy(h).repo) /\ \A cap \in Needs(S, r) : Reaches(h, cap)}
Lasting(h) == Routing!AlwaysOn(h) /\ ~Routing!hostHasTag(h, "ephemeral")
Strict(S, r) == IF \E h \in Fit(S, r) : Lasting(h) THEN {h \in Fit(S, r) : Lasting(h)} ELSE Fit(S, r)
Relaxed(S) == IF \E h \in Ready(S) : Routing!AlwaysOn(h) THEN {h \in Ready(S) : Routing!AlwaysOn(h)} ELSE Ready(S)
Choice(S, r) == IF Fit(S, r) # {} THEN Strict(S, r) ELSE Relaxed(S)
Outdoes(h, g) ==
    \/ Routing!Weight(h) * (load[g] + 2) > Routing!Weight(g) * (load[h] + 2)
    \/ Routing!Weight(h) * (load[g] + 2) = Routing!Weight(g) * (load[h] + 2) /\ Routing!Policy(h).weight > Routing!Policy(g).weight
Best(t, S, r) == t \in Choice(S, r) /\ \A g \in Choice(S, r) : ~Outdoes(g, t)

\* A request that was forwarded is on the best host of all for what it was, or,
\* forwarded again by its repository alone, for what it is.
Routed ==
    IF spawn.at = Routing!None THEN spawn.hops = 0
    ELSE /\ spawn.hops = 0 => /\ spawn.at \in fleet.clients /\ spawn.req \in Requests
                              /\ spawn.asked = spawn.req.caps
         /\ spawn.hops > 0 /\ spawn.known =>
              \E r \in Requests :
                  /\ spawn.req = Routing!Forwarded(r) /\ spawn.asked = r.caps
                  /\ IF spawn.hops = 1 THEN Best(spawn.at, Routing!Members, r)
                     ELSE /\ r.caps # {} /\ Routing!hasRoutingHint(spawn.req)
                          /\ Best(spawn.at, Routing!Members, spawn.req)

RoutingIInv == RoutingTypes /\ Routed /\ Routing!Balanced

LEMMA Evens ==
    ASSUME Sharing
    PROVE  /\ 0 \in Even /\ \A n \in Even : n \in Nat /\ n <= 2 * MaxLoad
           /\ \A n \in Even : n < 2 * MaxLoad => n + 2 \in Even
           /\ \A n \in Even : n >= 2 => n - 2 \in Even
<1>1. \A n \in Even : \E k \in 0 .. MaxLoad : n = 2 * k
  BY DEF Even
<1>2. \A k \in 0 .. MaxLoad : 2 * k \in Even
  BY DEF Even
<1>3. MaxLoad \in Nat
  BY DEF Sharing
<1>4. 0 \in Even
  <2>1. 0 \in 0 .. MaxLoad
    BY <1>3
  <2> QED BY <1>2, <2>1
<1>5. ASSUME NEW n \in Even PROVE  n \in Nat /\ n <= 2 * MaxLoad
  BY <1>1, <1>3
<1>6. ASSUME NEW n \in Even, n < 2 * MaxLoad PROVE  n + 2 \in Even
  <2>1. PICK k \in 0 .. MaxLoad : n = 2 * k
    BY <1>1
  <2>2. k + 1 \in 0 .. MaxLoad /\ 2 * (k + 1) = n + 2
    BY <1>3, <1>6, <2>1
  <2> QED BY <1>2, <2>2
<1>7. ASSUME NEW n \in Even, n >= 2 PROVE  n - 2 \in Even
  <2>1. PICK k \in 0 .. MaxLoad : n = 2 * k
    BY <1>1
  <2>2. k - 1 \in 0 .. MaxLoad /\ 2 * (k - 1) = n - 2
    BY <1>3, <1>7, <2>1
  <2> QED BY <1>2, <2>2
<1> QED BY <1>4, <1>5, <1>6, <1>7

LEMMA Policies ==
    ASSUME Sharing, fleet \in Fleets
    PROVE  /\ \A h \in Routing!Members : /\ Routing!Policy(h) \in [tags : {Routing!Policy(h).tags}, weight : Nat,
                                                           caps : {Routing!Policy(h).caps}, repo : BOOLEAN]
                                         /\ Routing!Weight(h) \in Nat /\ Routing!Weight(h) > 0
           /\ Routing!None \notin Routing!Members /\ fleet.clients \subseteq Routing!Members
           /\ fleet.knows \in [Routing!Members -> SUBSET Routing!Members]
           /\ \A d \in Routing!Members : fleet.knows[d] = {} \/ fleet.knows[d] \cup {d} = Routing!Members
           /\ \A d \in fleet.clients : fleet.knows[d] \cup {d} = Routing!Members
           /\ \A h \in Routing!Members : Routing!Number(h) \in DOMAIN Daemons /\ Daemons[Routing!Number(h)] = h
           /\ IsFiniteSet(Routing!Members)
<1>1. /\ \A h \in Routing!Members : Routing!Policy(h) \in [tags : {Routing!Policy(h).tags}, weight : Nat,
                                           caps : {Routing!Policy(h).caps}, repo : BOOLEAN]
      /\ Routing!Members \subseteq {Daemons[i] : i \in DOMAIN Daemons} \ {Routing!None}
      /\ fleet.clients \subseteq Routing!Members
      /\ fleet.knows \in [Routing!Members -> SUBSET Routing!Members]
      /\ \A d \in Routing!Members : fleet.knows[d] = {} \/ fleet.knows[d] \cup {d} = Routing!Members
      /\ \A d \in fleet.clients : fleet.knows[d] \cup {d} = Routing!Members
  BY DEF Sharing, Routing!Members, Routing!Policy
<1>2. \A h \in Routing!Members : Routing!Weight(h) \in Nat /\ Routing!Weight(h) > 0
  BY <1>1 DEF Routing!Weight
<1>3. \A h \in Routing!Members : Routing!Number(h) \in DOMAIN Daemons /\ Daemons[Routing!Number(h)] = h
  BY <1>1 DEF Routing!Number
<1>4. IsFiniteSet(Routing!Members)
  <2> DEFINE T == {i \in DOMAIN Daemons : Daemons[i] \in Routing!Members}
             f == [i \in T |-> Daemons[i]]
  <2>1. IsFiniteSet(DOMAIN Daemons)
    BY FS_Interval DEF Sharing
  <2>2. IsFiniteSet(T)
    BY <2>1, FS_Subset
  <2>3. f \in Surjection(T, Routing!Members)
    <3>1. f \in [T -> Routing!Members]
      OBVIOUS
    <3>2. \A h \in Routing!Members : Routing!Number(h) \in T /\ f[Routing!Number(h)] = h
      BY <1>3
    <3> QED BY <3>1, <3>2 DEF Surjection
  <2> HIDE DEF T, f
  <2> QED BY <2>2, <2>3, FS_Surjection
<1> QED BY <1>1, <1>2, <1>3, <1>4

-----------------------------------------------------------------------------
(* The order of the hosts. *)
LEMMA Cross ==
    ASSUME NEW a \in Nat, NEW b \in Nat, NEW c \in Nat, NEW x \in Nat, NEW y \in Nat, NEW z \in Nat,
           a > 0, b > 0, c > 0, x > 0, y > 0, z > 0, a * y >= b * x, b * z >= c * y
    PROVE  /\ a * z >= c * x
           /\ a * y > b * x \/ b * z > c * y => a * z > c * x
<1>1. \A p, q, n \in Nat : n > 0 => (p >= q => p * n >= q * n) /\ (p > q => p * n > q * n)
                                  /\ (p * n >= q * n => p >= q) /\ (p * n > q * n => p > q)
  OBVIOUS
<1>2. /\ a * y \in Nat /\ b * x \in Nat /\ b * z \in Nat /\ c * y \in Nat
      /\ a * z \in Nat /\ c * x \in Nat
  OBVIOUS
<1>3. (a * y) * z >= (b * x) * z /\ (b * z) * x >= (c * y) * x
  BY <1>1, <1>2
<1>4. (a * z) * y = (a * y) * z /\ (b * x) * z = (b * z) * x /\ (c * y) * x = (c * x) * y
  OBVIOUS
<1>5. (a * z) * y >= (c * x) * y
  BY <1>2, <1>3, <1>4
<1>6. a * y > b * x \/ b * z > c * y => (a * z) * y > (c * x) * y
  <2>1. a * y > b * x => (a * y) * z > (b * x) * z
    BY <1>1, <1>2
  <2>2. b * z > c * y => (b * z) * x > (c * y) * x
    BY <1>1, <1>2
  <2> QED BY <1>2, <1>3, <1>4, <2>1, <2>2
<1> QED BY <1>1, <1>2, <1>5, <1>6

LEMMA Weakly ==
    ASSUME Sharing, RoutingTypes, NEW a \in Routing!Members, NEW b \in Routing!Members,
           NEW c \in Routing!Members
    PROVE  /\ Outdoes(a, b) => ~Outdoes(b, a)
           /\ ~Outdoes(a, b) /\ ~Outdoes(b, c) => ~Outdoes(a, c)
<1> DEFINE x(h) == load[h] + 2
<1>1. \A h \in Routing!Members : /\ Routing!Weight(h) \in Nat /\ Routing!Weight(h) > 0 /\ Routing!Policy(h).weight \in Nat
                                 /\ x(h) \in Nat /\ x(h) > 0
  BY Policies, Evens DEF RoutingTypes
<1>2. \A h, g \in Routing!Members : Routing!Weight(h) * x(g) \in Nat
  BY <1>1
<1>3. \A h, g \in Routing!Members :
        Outdoes(h, g) <=> \/ Routing!Weight(h) * x(g) > Routing!Weight(g) * x(h)
                          \/ Routing!Weight(h) * x(g) = Routing!Weight(g) * x(h) /\ Routing!Policy(h).weight > Routing!Policy(g).weight
  BY DEF Outdoes
<1> HIDE DEF x
<1>4. Routing!Weight(c) * x(b) >= Routing!Weight(b) * x(c) /\ Routing!Weight(b) * x(a) >= Routing!Weight(a) * x(b) =>
        /\ Routing!Weight(c) * x(a) >= Routing!Weight(a) * x(c)
        /\ Routing!Weight(c) * x(b) > Routing!Weight(b) * x(c) \/ Routing!Weight(b) * x(a) > Routing!Weight(a) * x(b) =>
             Routing!Weight(c) * x(a) > Routing!Weight(a) * x(c)
  <2> DEFINE u == Routing!Weight(a)
             v == Routing!Weight(b)
             w == Routing!Weight(c)
             xa == x(a)
             xb == x(b)
             xc == x(c)
  <2>1. /\ u \in Nat /\ v \in Nat /\ w \in Nat /\ xa \in Nat /\ xb \in Nat /\ xc \in Nat
        /\ u > 0 /\ v > 0 /\ w > 0 /\ xa > 0 /\ xb > 0 /\ xc > 0
    BY <1>1
  <2> HIDE DEF u, v, w, xa, xb, xc
  <2>2. w * xb >= v * xc /\ v * xa >= u * xb =>
          /\ w * xa >= u * xc
          /\ w * xb > v * xc \/ v * xa > u * xb => w * xa > u * xc
    BY <2>1, Cross
  <2> QED BY <2>2, Zenon DEF u, v, w, xa, xb, xc
<1>5. Outdoes(a, b) => ~Outdoes(b, a)
  BY <1>1, <1>2, <1>3
<1>6. ASSUME ~Outdoes(a, b), ~Outdoes(b, c) PROVE  ~Outdoes(a, c)
  <2>1. /\ Routing!Weight(b) * x(a) >= Routing!Weight(a) * x(b)
        /\ Routing!Weight(b) * x(a) = Routing!Weight(a) * x(b) => Routing!Policy(a).weight <= Routing!Policy(b).weight
    BY <1>1, <1>2, <1>3, <1>6
  <2>2. /\ Routing!Weight(c) * x(b) >= Routing!Weight(b) * x(c)
        /\ Routing!Weight(c) * x(b) = Routing!Weight(b) * x(c) => Routing!Policy(b).weight <= Routing!Policy(c).weight
    BY <1>1, <1>2, <1>3, <1>6
  <2>3. /\ Routing!Weight(c) * x(a) >= Routing!Weight(a) * x(c)
        /\ Routing!Weight(c) * x(a) = Routing!Weight(a) * x(c) =>
             Routing!Weight(c) * x(b) = Routing!Weight(b) * x(c) /\ Routing!Weight(b) * x(a) = Routing!Weight(a) * x(b)
    BY <1>1, <1>2, <1>4, <2>1, <2>2
  <2> QED BY <1>1, <1>2, <1>3, <2>1, <2>2, <2>3
<1> QED BY <1>5, <1>6


\* A finite set that is ordered has a first element.
LEMMA Foremosts ==
    ASSUME NEW S, IsFiniteSet(S), S # {}, NEW R,
           \A a, b, c \in S : <<a, b>> \in R /\ <<b, c>> \in R => <<a, c>> \in R,
           \A a \in S : <<a, a>> \notin R,
           \A a, b \in S : a # b => <<a, b>> \in R \/ <<b, a>> \in R
    PROVE  \E h \in S : \A g \in S \ {h} : <<h, g>> \in R
<1> DEFINE before(h) == {g \in S : <<g, h>> \in R}
           ranks == {Cardinality(before(h)) : h \in S}
<1>1. \A h \in S : IsFiniteSet(before(h)) /\ Cardinality(before(h)) \in Nat
  <2> TAKE h \in S
  <2>1. before(h) \in SUBSET S
    OBVIOUS
  <2> HIDE DEF before
  <2> QED BY <2>1, FS_Subset, FS_CardinalityType
<1>2. PICK n \in ranks : \A m \in ranks : n <= m
  <2>1. ranks \subseteq Nat
    <3>1. ASSUME NEW m \in ranks PROVE  \E h \in S : m = Cardinality(before(h))
      OBVIOUS
    <3> HIDE DEF ranks, before
    <3> QED BY <1>1, <3>1
  <2>2. ranks # {}
    <3>1. PICK h : h \in S
      OBVIOUS
    <3>2. Cardinality(before(h)) \in ranks
      BY <3>1
    <3> QED BY <3>2
  <2> HIDE DEF ranks
  <2> QED BY <2>1, <2>2, Least
<1>3. PICK h \in S : \A g \in S : Cardinality(before(h)) <= Cardinality(before(g))
  <2>1. PICK h \in S : n = Cardinality(before(h))
    BY <1>2
  <2>2. \A g \in S : Cardinality(before(g)) \in ranks
    OBVIOUS
  <2> HIDE DEF ranks, before
  <2> QED BY <1>2, <2>1, <2>2
<1>4. ASSUME NEW g \in S \ {h}, <<h, g>> \notin R PROVE  FALSE
  <2>1. <<g, h>> \in R
    BY <1>4
  <2>2. before(g) \in SUBSET before(h) /\ g \in before(h) /\ g \notin before(g)
    BY <2>1
  <2> HIDE DEF before
  <2>3. Cardinality(before(g)) <= Cardinality(before(h)) /\ before(g) # before(h)
    BY <1>1, <2>2, FS_Subset
  <2>4. Cardinality(before(g)) # Cardinality(before(h))
    BY <1>1, <2>2, <2>3, FS_Subset
  <2> QED BY <1>1, <1>3, <2>3, <2>4
<1> QED BY <1>4

-----------------------------------------------------------------------------
(* What a daemon picks that knows its hosts. *)
LEMMA Sees ==
    ASSUME Sharing, RoutingTypes, Routing!AllKnown, NEW d \in Routing!Members, NEW r \in Askings
    PROVE  LET S == {d} \cup fleet.knows[d]
           IN  /\ S \subseteq Routing!Members /\ Routing!GetAllFleetHosts(d) = S
               /\ Routing!Pool(d, r) = Choice(S, r)
               /\ \A h, g \in S : Routing!Beats(d, h, g) <=> Outdoes(h, g)
<1> DEFINE S == {d} \cup fleet.knows[d]
<1>1. S \subseteq Routing!Members /\ Routing!GetAllFleetHosts(d) = S
  <2>1. peers[d] = fleet.knows[d] /\ peers[d] \subseteq Routing!Members
    BY DEF Routing!AllKnown, Routing!Current, RoutingTypes
  <2> QED BY <2>1 DEF Routing!GetAllFleetHosts
<1>2. \A h \in S : Routing!Seen(d, h) = Routing!Telemetry(h)
  <2>1. \A h \in peers[d] : h \in up => report[d][h] = Routing!Telemetry(h)
    BY DEF Routing!AllKnown, Routing!Current
  <2> QED BY <1>1, <2>1 DEF Routing!AllKnown, Routing!Seen, Routing!LocalHostRecord,
             Routing!GetAllFleetHosts
<1> HIDE DEF S
<1>3. \A h \in S : \A cap : Routing!hostHasCapability(d, h, cap) <=> Reaches(h, cap)
  BY <1>2 DEF Routing!hostHasCapability, Reaches, Routing!Telemetry
<1>4. \A h \in S : Routing!Seen(d, h).online
  BY <1>2 DEF Routing!Telemetry
<1>5. Routing!Usable(d) = Ready(S)
  BY <1>1, <1>4 DEF Routing!Usable, Ready
<1>6. Routing!RequiredCaps(d, r) = Needs(S, r)
  BY <1>1, <1>3, <1>4 DEF Routing!RequiredCaps, Needs
<1>7. Routing!EnforceRepo(d, r) <=> Tied(S, r)
  BY <1>5 DEF Routing!EnforceRepo, Tied
<1>8. Routing!Candidates(d, r) = Fit(S, r)
  BY <1>3, <1>5, <1>6, <1>7 DEF Routing!Candidates, Fit, Ready
<1>9. Routing!Pool(d, r) = Choice(S, r)
  <2>1. Fit(S, r) \subseteq Routing!Members /\ Ready(S) \subseteq Routing!Members
    BY <1>1 DEF Fit, Ready
  <2> QED BY <1>5, <1>8, <2>1 DEF Routing!Pool, Choice, Strict, Relaxed, Lasting
<1>10. \A h \in S : Routing!computeEffectiveLoad(d, h) = load[h]
  BY <1>2 DEF Routing!computeEffectiveLoad, Routing!Telemetry
<1>11. \A h, g \in S : Routing!Beats(d, h, g) <=> Outdoes(h, g)
  BY <1>10 DEF Routing!Beats, Outdoes
<1> QED BY <1>1, <1>9, <1>11 DEF S

LEMMA Picks ==
    ASSUME Sharing, RoutingTypes, Routing!AllKnown, NEW d \in Routing!Members, NEW r \in Askings,
           Choice({d} \cup fleet.knows[d], r) # {}
    PROVE  Best(Routing!SelectTargetHost(d, r), {d} \cup fleet.knows[d], r)
<1> DEFINE S == {d} \cup fleet.knows[d]
           P == Choice(S, r)
           R == {p \in P \X P : Routing!Preferred(d, p[1], p[2])}
<1>1. /\ S \subseteq Routing!Members /\ Routing!Pool(d, r) = P
      /\ \A h, g \in S : Routing!Beats(d, h, g) <=> Outdoes(h, g)
  BY Sees
<1>2. P \subseteq S
  BY DEF Choice, Strict, Relaxed, Fit, Ready
<1>3. P # {}
  OBVIOUS
<1> HIDE DEF S
<1>4. IsFiniteSet(P)
  BY <1>1, <1>2, Policies, FS_Subset DEF RoutingTypes
<1> HIDE DEF P
<1>5. \A h, g \in P : <<h, g>> \in R <=> Outdoes(h, g) \/ (~Outdoes(g, h) /\ Routing!Before(d, h, g))
  BY <1>1, <1>2 DEF Routing!Preferred
<1>6. \A h \in P : h \in Routing!Members
  BY <1>1, <1>2
<1>7. \A h \in P : Routing!Number(h) \in Int /\ Daemons[Routing!Number(h)] = h
  <2>1. \A h \in P : Routing!Number(h) \in DOMAIN Daemons /\ Daemons[Routing!Number(h)] = h
    BY <1>6, Policies DEF RoutingTypes
  <2>2. \A i \in DOMAIN Daemons : i \in Int
    BY DEF Sharing
  <2> QED BY <2>1, <2>2
<1> HIDE DEF R
<1>8. \A a, b, c \in P : <<a, b>> \in R /\ <<b, c>> \in R => <<a, c>> \in R
  <2> SUFFICES ASSUME NEW a \in P, NEW b \in P, NEW c \in P, <<a, b>> \in R, <<b, c>> \in R
               PROVE  <<a, c>> \in R
    OBVIOUS
  <2>1. /\ Outdoes(a, b) => ~Outdoes(b, a)
        /\ Outdoes(b, c) => ~Outdoes(c, b)
    BY <1>6, Weakly
  <2>2. ~Outdoes(c, b) /\ ~Outdoes(b, a) => ~Outdoes(c, a)
    BY <1>6, Weakly
  <2>3. ~Outdoes(a, c) /\ ~Outdoes(c, b) => ~Outdoes(a, b)
    BY <1>6, Weakly
  <2>4. ~Outdoes(b, a) /\ ~Outdoes(a, c) => ~Outdoes(b, c)
    BY <1>6, Weakly
  <2>5. Routing!Before(d, a, b) /\ Routing!Before(d, b, c) => Routing!Before(d, a, c)
    BY <1>7 DEF Routing!Before
  <2> QED BY <1>5, <2>1, <2>2, <2>3, <2>4, <2>5
<1>9. \A a \in P : <<a, a>> \notin R
  <2> TAKE a \in P
  <2>1. ~Outdoes(a, a)
    BY <1>6, Weakly
  <2> QED BY <1>5, <1>7, <2>1 DEF Routing!Before
<1>10. \A a, b \in P : a # b => <<a, b>> \in R \/ <<b, a>> \in R
  <2> TAKE a, b \in P
  <2>1. a # b => Routing!Before(d, a, b) \/ Routing!Before(d, b, a)
    BY <1>7 DEF Routing!Before
  <2> QED BY <1>5, <2>1
<1>11. PICK h \in P : \A g \in P \ {h} : <<h, g>> \in R
  BY <1>3, <1>4, <1>8, <1>9, <1>10, Foremosts
<1>12. \A g \in P \ {h} : Routing!Preferred(d, h, g)
  BY <1>11 DEF R
<1> DEFINE t == Routing!SelectTargetHost(d, r)
<1>13. t \in P /\ \A g \in P \ {t} : Routing!Preferred(d, t, g)
  BY <1>1, <1>3, <1>12 DEF Routing!SelectTargetHost
<1> HIDE DEF t
<1>14. \A g \in P : ~Outdoes(g, t)
  <2> TAKE g \in P
  <2>1. CASE g = t
    BY <1>6, <1>13, <2>1, Weakly
  <2>2. CASE g # t
    <3>1. Outdoes(t, g) \/ ~Outdoes(g, t)
      BY <1>1, <1>2, <1>13, <2>2 DEF Routing!Preferred
    <3> QED BY <1>6, <1>13, <3>1, Weakly
  <2> QED BY <2>1, <2>2
<1> QED BY <1>13, <1>14 DEF Best, P, t, S

-----------------------------------------------------------------------------
LEMMA Asks ==
    ASSUME Sharing, RoutingTypes, NEW r \in Requests
    PROVE  /\ Routing!Forwarded(r) \in Askings /\ r \in Askings /\ Routing!Forwarded(Routing!Forwarded(r)) = Routing!Forwarded(r)
           /\ Routing!Forwarded(r).caps = {} /\ Routing!Forwarded(r).agent = r.agent
           /\ Routing!Forwarded(r).node = r.node
           /\ r.caps = {} => Routing!Forwarded(r) = r
<1>1. r \in [caps : {r.caps}, agent : {r.agent}, node : BOOLEAN]
  BY DEF Sharing
<1>2. Routing!Forwarded(r) = [caps |-> {}, agent |-> r.agent, node |-> r.node]
  BY <1>1 DEF Routing!Forwarded
<1>3. Routing!Forwarded(Routing!Forwarded(r)) = Routing!Forwarded(r)
  BY <1>2 DEF Routing!Forwarded
<1>4. r.caps = {} => Routing!Forwarded(r) = r
  BY <1>1, <1>2
<1> QED BY <1>1, <1>2, <1>3, <1>4 DEF Askings

\* Whoever is best of all hosts is best of those it knows.
LEMMA Stays ==
    ASSUME Sharing, RoutingTypes, Routing!AllKnown, NEW t \in Routing!Members, NEW r \in Askings,
           Best(t, Routing!Members, r)
    PROVE  Routing!SelectTargetHost(t, r) = t
<1> DEFINE S == {t} \cup fleet.knows[t]
           P == Choice(S, r)
<1>1. /\ S \subseteq Routing!Members /\ Routing!Pool(t, r) = P
      /\ \A h, g \in S : Routing!Beats(t, h, g) <=> Outdoes(h, g)
  BY Sees
<1>2. t \in S /\ (S = {t} \/ S = Routing!Members)
  <2>1. fleet.knows[t] = {} \/ fleet.knows[t] \cup {t} = Routing!Members
    BY Policies DEF RoutingTypes
  <2> QED BY <2>1
<1> HIDE DEF S
<1>3. P \subseteq S
  BY DEF Choice, Strict, Relaxed, Fit, Ready
<1>4. t \in P
  <2>1. CASE S = Routing!Members
    BY <2>1 DEF Best
  <2>2. CASE S = {t}
    <3>1. t \in Ready(Routing!Members)
      BY DEF Best, Choice, Strict, Relaxed, Fit
    <3>2. Ready(S) = {t}
      BY <2>2, <3>1 DEF Ready
    <3>3. P # {}
      BY <3>2 DEF Choice, Strict, Relaxed
    <3> QED BY <1>3, <2>2, <3>3
  <2> QED BY <1>2, <2>1, <2>2
<1>5. \A g \in P : ~Outdoes(g, t)
  <2>1. CASE S = Routing!Members
    BY <2>1 DEF Best
  <2>2. CASE S = {t}
    <3>1. ~Outdoes(t, t)
      BY Weakly
    <3> QED BY <1>3, <2>2, <3>1
  <2> QED BY <1>2, <2>1, <2>2
<1> HIDE DEF P
<1>6. \A g \in P \ {t} : Routing!Preferred(t, t, g)
  BY <1>1, <1>3, <1>4, <1>5 DEF Routing!Preferred, Routing!Before
<1>7. ASSUME NEW h \in P, \A g \in P \ {h} : Routing!Preferred(t, h, g) PROVE  h = t
  <2> SUFFICES ASSUME h # t PROVE FALSE
    OBVIOUS
  <2>1. Routing!Preferred(t, h, t)
    BY <1>4, <1>7
  <2> QED BY <1>1, <1>3, <1>4, <1>5, <2>1 DEF Routing!Preferred, Routing!Before
<1> QED BY <1>1, <1>4, <1>6, <1>7 DEF Routing!SelectTargetHost

\* A request that leaves a host goes to the best of all, since a host that knows
\* no other keeps what it gets.
LEMMA Leaves ==
    ASSUME Sharing, RoutingTypes, Routing!AllKnown, spawn.at \in Routing!Members,
           Routing!Target # spawn.at
    PROVE  Routing!hasRoutingHint(spawn.req) /\ Best(Routing!Target, Routing!Members, spawn.req)
<1> DEFINE S == {spawn.at} \cup fleet.knows[spawn.at]
<1>1. Routing!hasRoutingHint(spawn.req) /\ Routing!Target = Routing!SelectTargetHost(spawn.at, spawn.req)
  BY DEF Routing!Target
<1>2. spawn.req \in Askings
  BY DEF RoutingTypes
<1>3. Routing!Pool(spawn.at, spawn.req) = Choice(S, spawn.req)
  BY <1>2, Sees
<1>4. Choice(S, spawn.req) # {}
  BY <1>1, <1>3 DEF Routing!SelectTargetHost
<1>5. Best(Routing!Target, S, spawn.req)
  BY <1>1, <1>2, <1>4, Picks
<1>6. Routing!Target \in S
  BY <1>5 DEF Best, Choice, Strict, Relaxed, Fit, Ready
<1>7. S = {spawn.at} \/ S = Routing!Members
  <2>1. fleet.knows[spawn.at] = {} \/ fleet.knows[spawn.at] \cup {spawn.at} = Routing!Members
    BY Policies DEF RoutingTypes
  <2> QED BY <2>1
<1> HIDE DEF S
<1> QED BY <1>1, <1>5, <1>6, <1>7

LEMMA Resting ==
    ASSUME Sharing, RoutingTypes, Routed, Routing!AllKnown, spawn.at # Routing!None,
           spawn.hops > 0, spawn.known
    PROVE  /\ spawn.hops > 1 \/ ~Routing!RoutedAgain => Routing!Target = spawn.at
           /\ \/ Routing!RoutedAgain
              \/ spawn.asked \subseteq Routing!Policy(spawn.at).caps
              \/ ~\E h \in Routing!Members : /\ spawn.asked \cup {spawn.req.agent} \subseteq Routing!Policy(h).caps
                                             /\ ~Routing!hostHasTag(h, "drain")
<1>1. PICK r \in Requests : /\ spawn.req = Routing!Forwarded(r) /\ spawn.asked = r.caps
                            /\ IF spawn.hops = 1 THEN Best(spawn.at, Routing!Members, r)
                               ELSE /\ r.caps # {} /\ Routing!hasRoutingHint(spawn.req)
                                    /\ Best(spawn.at, Routing!Members, spawn.req)
  BY DEF Routed
<1>2. spawn.at \in Routing!Members /\ fleet \in Fleets /\ spawn.req \in Askings
      /\ spawn.hops \in 0 .. MaxHops /\ MaxHops \in Nat
  BY DEF RoutingTypes, Sharing
<1>3. ASSUME spawn.hops > 1 \/ ~Routing!RoutedAgain PROVE  Routing!Target = spawn.at
  <2>1. CASE ~Routing!hasRoutingHint(spawn.req)
    BY <2>1 DEF Routing!Target
  <2>2. CASE r.caps = {}
    <3>1. spawn.req = r /\ Best(spawn.at, Routing!Members, r)
      BY <1>1, <2>2, Asks
    <3> QED BY <1>2, <3>1, Stays DEF Routing!Target
  <2>3. CASE spawn.hops # 1
    BY <1>1, <1>2, <2>3, Stays DEF Routing!Target
  <2> QED BY <1>1, <1>2, <1>3, <2>1, <2>2, <2>3 DEF Routing!RoutedAgain
<1>4. ASSUME NEW h \in Routing!Members, r.caps \cup {r.agent} \subseteq Routing!Policy(h).caps, ~Routing!hostHasTag(h, "drain"),
             r.caps # {}, ~Routing!RoutedAgain
      PROVE  r.caps \subseteq Routing!Policy(spawn.at).caps
  <2>1. h \in Fit(Routing!Members, r)
    <3>1. h \in Ready(Routing!Members) /\ ~Tied(Routing!Members, r)
      <4>1. ~Routing!hasRoutingHint(spawn.req) /\ spawn.req.node = r.node
        BY <1>1, <1>4, Asks DEF Routing!RoutedAgain
      <4> QED BY <1>4, <4>1 DEF Ready, Tied, Routing!hasRoutingHint
    <3>2. \A cap \in Needs(Routing!Members, r) : Reaches(h, cap)
      BY <1>4 DEF Needs, Reaches
    <3> QED BY <3>1, <3>2 DEF Fit
  <2>2. spawn.at \in Fit(Routing!Members, r)
    <3>1. Best(spawn.at, Routing!Members, r)
      BY <1>1, <1>4 DEF Routing!RoutedAgain
    <3> QED BY <2>1, <3>1 DEF Best, Choice, Strict
  <2>3. \A cap \in r.caps : Reaches(spawn.at, cap)
    BY <2>2 DEF Fit, Needs
  <2>4. (r.caps \cup {r.agent}) \cap (Routing!Policy(spawn.at).tags \cup {"repo"}) = {}
    BY <1>2 DEF Sharing, Routing!Members, Routing!Policy
  <2> QED BY <2>3, <2>4 DEF Reaches
<1>5. spawn.req.agent = r.agent
  BY <1>1, Asks
<1> QED BY <1>1, <1>3, <1>4, <1>5

-----------------------------------------------------------------------------
LEMMA RoutingInitially ==
    ASSUME Sharing, Routing!Init
    PROVE  RoutingIInv
<1>1. fleet \in Fleets /\ fleet.knows \in [Routing!Members -> SUBSET Routing!Members] /\ 0 \in Even
  BY Policies, Evens DEF Routing!Init
<1>2. Routing!Unknown \in Reports
  BY DEF Routing!Unknown, Reports, Loads
<1>3. RoutingTypes
  <2>1. Routing!Idle \in [at : Routing!Members \cup {Routing!None}, req : Askings, asked : {r.caps : r \in Requests} \cup {{}},
                  hops : 0 .. MaxHops, known : BOOLEAN]
    BY DEF Routing!Idle, Askings, Sharing
  <2> QED BY <1>1, <1>2, <2>1 DEF Routing!Init, RoutingTypes
<1>4. Routed
  BY DEF Routing!Init, Routed, Routing!Idle
<1>5. Routing!Balanced
  BY DEF Routing!Init, Routing!Balanced
<1> QED BY <1>3, <1>4, <1>5 DEF RoutingIInv

LEMMA Keeping ==
    ASSUME NEW p \in Reports
    PROVE  Routing!Offline(p) \in Reports
BY DEF Routing!Offline, Reports, Routing!Unknown, Loads

LEMMA Merging ==
    ASSUME NEW p \in Reports, NEW q \in Reports
    PROVE  Routing!Merged(p, q) \in Reports
BY DEF Routing!Merged, Routing!Offline, Reports, Routing!Unknown, Loads

LEMMA Reporting ==
    ASSUME RoutingTypes, NEW h \in Routing!Members
    PROVE  Routing!Telemetry(h) \in Reports
BY DEF Routing!Telemetry, Reports, RoutingTypes, Loads

LEMMA StepTypes ==
    ASSUME Sharing, RoutingTypes, Routed, [Routing!Next]_(Routing!vars)
    PROVE  RoutingTypes'
<1> USE DEF RoutingTypes
<1>1. Routing!Unknown \in Reports
  BY DEF Routing!Unknown, Reports, Loads
<1>0. UNCHANGED fleet => Routing!Members' = Routing!Members /\ Reports' = Reports
  BY DEF Routing!Members, Reports, Routing!Policy
<1>2. CASE UNCHANGED Routing!vars
  BY <1>0, <1>2 DEF Routing!vars
<1>3. ASSUME NEW d \in Routing!Members, NEW h \in Routing!Members, Routing!ensureHostTunnels(d, h) PROVE RoutingTypes'
  <2>1. Routing!Merged(report[d][h], Routing!Telemetry(h)) \in Reports /\ Routing!Merged(report[d][h], Routing!Unknown) \in Reports
    BY <1>1, Merging, Reporting
  <2>2. report' \in [Routing!Members -> [Routing!Members -> Reports]]
    BY <1>3, <2>1 DEF Routing!ensureHostTunnels
  <2> QED BY <1>0, <1>3, <2>2 DEF Routing!ensureHostTunnels
<1>4. ASSUME NEW d \in Routing!Members, Routing!getFederatedSessions(d) PROVE RoutingTypes'
  <2>1. \A h \in Routing!Members : Routing!Merged(report[d][h], [online |-> h \in up, caps |-> {}, load |-> {}]) \in Reports
    <3> TAKE h \in Routing!Members
    <3>1. [online |-> h \in up, caps |-> {}, load |-> {}] \in Reports
      BY DEF Reports, Loads
    <3> QED BY <3>1, Merging
  <2>2. report' \in [Routing!Members -> [Routing!Members -> Reports]]
    BY <1>4, <2>1 DEF Routing!getFederatedSessions
  <2> QED BY <1>0, <1>4, <2>2 DEF Routing!getFederatedSessions
<1>5. ASSUME NEW d \in Routing!Members, NEW h \in Routing!Members, Routing!RegisterHost(d, h) \/ Routing!DeleteHost(d, h) PROVE RoutingTypes'
  <2>1. peers' \in [Routing!Members -> SUBSET Routing!Members]
    BY <1>5 DEF Routing!RegisterHost, Routing!DeleteHost
  <2>2. report' \in [Routing!Members -> [Routing!Members -> Reports]]
    BY <1>1, <1>5 DEF Routing!RegisterHost, Routing!DeleteHost
  <2> QED BY <1>0, <1>5, <2>1, <2>2 DEF Routing!RegisterHost, Routing!DeleteHost
<1>6. ASSUME NEW h \in Routing!Members, Routing!HostGoes(h) \/ Routing!HostComes(h) PROVE RoutingTypes'
  <2>1. report' \in [Routing!Members -> [Routing!Members -> Reports]] /\ up' \subseteq Routing!Members
    <3>1. \A g \in Routing!Members : Routing!Offline(report[h][g]) \in Reports
      BY Keeping
    <3> QED BY <1>1, <1>6, <3>1 DEF Routing!HostGoes, Routing!HostComes
  <2> QED BY <1>0, <1>6, <2>1 DEF Routing!HostGoes, Routing!HostComes
<1>7. ASSUME NEW h \in Routing!Members, Routing!SessionEnds(h) PROVE RoutingTypes'
  <2>1. load' \in [Routing!Members -> Even]
    BY <1>7, Evens DEF Routing!SessionEnds
  <2> QED BY <1>0, <1>7, <2>1 DEF Routing!SessionEnds
<1>8. ASSUME NEW d \in Routing!Members, NEW req \in Requests, Routing!handleSpawn(d, req) PROVE RoutingTypes'
  <2>1. 0 \in 0 .. MaxHops /\ Routing!AllKnown \in BOOLEAN
    BY DEF Sharing, Routing!AllKnown
  <2>2. spawn' \in [at : Routing!Members \cup {Routing!None}, req : Askings, asked : {r.caps : r \in Requests} \cup {{}},
                    hops : 0 .. MaxHops, known : BOOLEAN]
    BY <1>8, <2>1 DEF Routing!handleSpawn, Askings
  <2> QED BY <1>0, <1>8, <2>2 DEF Routing!handleSpawn
<1>9. CASE Routing!Forward
  <2>1. Routing!Forwarded(spawn.req) \in Askings
    <3>1. ASSUME NEW q \in [caps : {{}}, agent : {Routing!None}, node : {FALSE}]
          PROVE  [q EXCEPT !.caps = {}] = q
      OBVIOUS
    <3>2. Routing!NoRequest \in [caps : {{}}, agent : {Routing!None}, node : {FALSE}]
      BY DEF Routing!NoRequest
    <3>3. Routing!Forwarded(Routing!NoRequest) = Routing!NoRequest
      BY <3>1, <3>2 DEF Routing!Forwarded
    <3> QED BY <3>3, Asks DEF Askings
  <2>2. spawn.hops + 1 \in 0 .. MaxHops /\ Routing!Target \in Routing!Members /\ (spawn.known /\ Routing!AllKnown) \in BOOLEAN
    BY <1>9 DEF Routing!Forward, Sharing
  <2>3. spawn' \in [at : Routing!Members \cup {Routing!None}, req : Askings, asked : {r.caps : r \in Requests} \cup {{}},
                    hops : 0 .. MaxHops, known : BOOLEAN]
    BY <1>9, <2>1, <2>2 DEF Routing!Forward
  <2> QED BY <1>0, <1>9, <2>3 DEF Routing!Forward
<1>10. CASE Routing!ForwardFails \/ Routing!RunHere
  <2>1. load' \in [Routing!Members -> Even]
    <3>1. CASE Routing!ForwardFails
      BY <3>1 DEF Routing!ForwardFails
    <3>2. CASE Routing!RunHere
      BY <3>2, Evens DEF Routing!RunHere
    <3> QED BY <1>10, <3>1, <3>2
  <2>2. Routing!Idle \in [at : Routing!Members \cup {Routing!None}, req : Askings, asked : {r.caps : r \in Requests} \cup {{}},
                  hops : 0 .. MaxHops, known : BOOLEAN]
    BY DEF Routing!Idle, Askings, Sharing
  <2>3. skewed' \in BOOLEAN
    BY <1>10 DEF Routing!ForwardFails, Routing!RunHere, Routing!AllKnown, Routing!hasRoutingHint
  <2> QED BY <1>0, <1>10, <2>1, <2>2, <2>3 DEF Routing!ForwardFails, Routing!RunHere
<1> QED BY <1>2, <1>3, <1>4, <1>5, <1>6, <1>7, <1>8, <1>9, <1>10 DEF Routing!Next

LEMMA SameBest ==
    ASSUME UNCHANGED <<fleet, load>>
    PROVE  /\ Routing!Members' = Routing!Members
           /\ \A t, S, r : Best(t, S, r)' <=> Best(t, S, r)
           /\ \A r : Routing!hasRoutingHint(r)' <=> Routing!hasRoutingHint(r)
<1>1. Routing!Members' = Routing!Members /\ \A h : Routing!Policy(h)' = Routing!Policy(h) /\ Routing!Weight(h)' = Routing!Weight(h)
  BY DEF Routing!Members, Routing!Policy, Routing!Weight
<1>2. \A h, x : (Reaches(h, x)' <=> Reaches(h, x)) /\ (Routing!hostHasTag(h, x)' <=> Routing!hostHasTag(h, x))
  BY <1>1 DEF Reaches, Routing!hostHasTag
<1>3. \A h : (Routing!AlwaysOn(h)' <=> Routing!AlwaysOn(h)) /\ (Lasting(h)' <=> Lasting(h))
  BY <1>1, <1>2 DEF Routing!AlwaysOn, Lasting
<1>4. \A h, g : Outdoes(h, g)' <=> Outdoes(h, g)
  BY <1>1 DEF Outdoes
<1>5. \A S : Ready(S)' = Ready(S)
  BY <1>2 DEF Ready
<1>6. \A S, r : Fit(S, r)' = Fit(S, r)
  <2> TAKE S, r
  <2>1. (Tied(S, r)' <=> Tied(S, r)) /\ Needs(S, r)' = Needs(S, r)
    BY <1>1, <1>2, <1>5 DEF Tied, Needs
  <2> QED BY <1>1, <1>2, <1>5, <2>1 DEF Fit
<1>7. \A S, r : Choice(S, r)' = Choice(S, r)
  <2> TAKE S, r
  <2>1. Strict(S, r)' = Strict(S, r) /\ Relaxed(S)' = Relaxed(S)
    BY <1>3, <1>5, <1>6 DEF Strict, Relaxed
  <2> QED BY <1>6, <2>1 DEF Choice
<1>8. \A r : Routing!hasRoutingHint(r)' <=> Routing!hasRoutingHint(r)
  BY <1>1 DEF Routing!hasRoutingHint
<1> QED BY <1>1, <1>4, <1>7, <1>8 DEF Best

LEMMA StepRouted ==
    ASSUME Sharing, RoutingTypes, Routed, [Routing!Next]_(Routing!vars)
    PROVE  Routed'
<1>1. CASE UNCHANGED <<fleet, load, spawn>>
  BY <1>1, SameBest DEF Routed
<1>2. Routing!None \notin Routing!Members /\ fleet.clients \subseteq Routing!Members
      /\ spawn.at \in Routing!Members \cup {Routing!None} /\ spawn.hops \in 0 .. MaxHops
      /\ MaxHops \in Nat
  BY Policies DEF RoutingTypes, Sharing
<1>3. ASSUME NEW d \in Routing!Members, NEW req \in Requests, Routing!handleSpawn(d, req) PROVE Routed'
  <2>1. spawn' = [at |-> d, req |-> req, asked |-> req.caps, hops |-> 0, known |-> Routing!AllKnown]
        /\ d \in fleet.clients /\ UNCHANGED fleet
    BY <1>3 DEF Routing!handleSpawn
  <2> QED BY <1>2, <2>1 DEF Routed
<1>4. ASSUME NEW h \in Routing!Members, Routing!SessionEnds(h) PROVE Routed'
  <2>1. /\ spawn'.at = spawn.at /\ spawn'.hops = spawn.hops /\ spawn'.req = spawn.req
        /\ spawn'.asked = spawn.asked /\ spawn'.known = FALSE /\ UNCHANGED fleet
    BY <1>4 DEF Routing!SessionEnds, RoutingTypes
  <2> QED BY <2>1 DEF Routed
<1>5. CASE Routing!Forward
  <2>1. /\ spawn'.at = Routing!Target /\ spawn'.hops = spawn.hops + 1
        /\ spawn'.req = Routing!Forwarded(spawn.req)
        /\ spawn'.asked = spawn.asked /\ spawn'.known = (spawn.known /\ Routing!AllKnown)
        /\ UNCHANGED <<fleet, load>> /\ Routing!Target \in Routing!Members /\ Routing!Target # spawn.at
        /\ spawn.at \in Routing!Members
    BY <1>2, <1>5 DEF Routing!Forward, RoutingTypes
  <2>2. ASSUME spawn.known, Routing!AllKnown
        PROVE  \E r \in Requests :
                   /\ Routing!Forwarded(spawn.req) = Routing!Forwarded(r) /\ spawn.asked = r.caps
                   /\ IF spawn.hops = 0 THEN Best(Routing!Target, Routing!Members, r)
                      ELSE /\ r.caps # {} /\ Routing!hasRoutingHint(Routing!Forwarded(spawn.req))
                           /\ Best(Routing!Target, Routing!Members, Routing!Forwarded(spawn.req))
    <3>1. Routing!hasRoutingHint(spawn.req) /\ Best(Routing!Target, Routing!Members, spawn.req)
      BY <2>1, <2>2, Leaves
    <3>2. CASE spawn.hops = 0
      <4>1. spawn.req \in Requests /\ spawn.asked = spawn.req.caps
        BY <1>2, <2>1, <3>2 DEF Routed
      <4> QED BY <3>1, <3>2, <4>1
    <3>3. CASE spawn.hops > 0
      <4>1. Routing!RoutedAgain
        BY <1>2, <2>1, <2>2, <3>3, Resting
      <4>2. PICK r \in Requests : spawn.req = Routing!Forwarded(r) /\ spawn.asked = r.caps
        BY <2>1, <2>2, <3>3 DEF Routed
      <4>3. Routing!Forwarded(spawn.req) = spawn.req
        BY <4>2, Asks
      <4> QED BY <3>1, <3>3, <4>1, <4>2, <4>3 DEF Routing!RoutedAgain
    <3> QED BY <1>2, <3>2, <3>3
  <2>3. spawn'.hops > 0 /\ spawn'.hops # 0 /\ spawn'.at # Routing!None
    BY <1>2, <2>1
  <2>4. CASE ~spawn'.known
    BY <2>3, <2>4 DEF Routed
  <2>5. CASE spawn'.known
    <3>1. PICK r \in Requests :
              /\ Routing!Forwarded(spawn.req) = Routing!Forwarded(r) /\ spawn.asked = r.caps
              /\ IF spawn.hops = 0 THEN Best(Routing!Target, Routing!Members, r)
                 ELSE /\ r.caps # {} /\ Routing!hasRoutingHint(Routing!Forwarded(spawn.req))
                      /\ Best(Routing!Target, Routing!Members, Routing!Forwarded(spawn.req))
      BY <2>1, <2>2, <2>5
    <3>2. spawn'.req = Routing!Forwarded(r) /\ spawn'.asked = r.caps
      BY <2>1, <3>1
    <3>3. spawn'.hops = 1 <=> spawn.hops = 0
      BY <1>2, <2>1
    <3>4. CASE spawn.hops = 0
      <4>1. Best(spawn.at, Routing!Members, r)'
        BY <2>1, <3>1, <3>4, SameBest
      <4> QED BY <2>3, <3>2, <3>3, <3>4, <4>1 DEF Routed
    <3>5. CASE spawn.hops # 0
      <4>1. r.caps # {} /\ Routing!hasRoutingHint(spawn.req)' /\ Best(spawn.at, Routing!Members, spawn.req)'
        BY <2>1, <3>1, <3>5, SameBest
      <4> QED BY <2>3, <3>2, <3>3, <3>5, <4>1 DEF Routed
    <3> QED BY <3>4, <3>5
  <2> QED BY <2>4, <2>5
<1>6. CASE Routing!ForwardFails \/ Routing!RunHere
  BY <1>6 DEF Routing!ForwardFails, Routing!RunHere, Routing!Idle, Routed
<1> QED BY <1>1, <1>3, <1>4, <1>5, <1>6 DEF Routing!Next, Routing!vars, Routing!ensureHostTunnels,
           Routing!getFederatedSessions, Routing!RegisterHost,
           Routing!DeleteHost, Routing!HostGoes, Routing!HostComes

LEMMA StepBalanced ==
    ASSUME Sharing, RoutingTypes, Routed, Routing!Balanced, [Routing!Next]_(Routing!vars)
    PROVE  Routing!Balanced'
<1> DEFINE Peers(h, g) ==
              /\ Routing!AlwaysOn(h) /\ ~Routing!hostHasTag(h, "drain")
              /\ Routing!Policy(g) = [Routing!Policy(h) EXCEPT !.weight = Routing!Policy(g).weight]
              /\ Routing!Policy(g).weight > 0
           Fair(h, g) == load[h] > 0 => Routing!Weight(h) * (load[g] + 2) >= Routing!Weight(g) * load[h]
<1>1. Routing!Balanced <=> (~skewed => \A h, g \in Routing!Members : Peers(h, g) => Fair(h, g))
  BY DEF Routing!Balanced
<1>2. CASE UNCHANGED <<fleet, load, skewed>>
  BY <1>2 DEF Routing!Balanced, Routing!Members, Routing!AlwaysOn, Routing!hostHasTag,
      Routing!Policy, Routing!Weight
<1>3. ASSUME NEW h \in Routing!Members, Routing!SessionEnds(h) PROVE Routing!Balanced'
  BY <1>3 DEF Routing!SessionEnds, Routing!Balanced
<1>4. CASE Routing!RunHere
  <2> SUFFICES ASSUME ~skewed', NEW h \in Routing!Members, NEW g \in Routing!Members, Peers(h, g), load'[h] > 0
               PROVE  Routing!Weight(h) * (load'[g] + 2) >= Routing!Weight(g) * load'[h]
    <3>1. UNCHANGED fleet
      BY <1>4 DEF Routing!RunHere
    <3> QED BY <3>1 DEF Routing!Balanced, Routing!Members, Routing!AlwaysOn, Routing!hostHasTag,
               Routing!Policy, Routing!Weight
  <2> DEFINE t == spawn.at
  <2>1. /\ ~skewed /\ spawn.known /\ Routing!AllKnown /\ Routing!hasRoutingHint(spawn.req)
        /\ Routing!Target = t
        /\ load' = [load EXCEPT ![t] = @ + 2] /\ t # Routing!None
    BY <1>4 DEF Routing!RunHere, RoutingTypes, Routing!AllKnown, Routing!hasRoutingHint
  <2>2. t \in Routing!Members /\ spawn.hops \in 0 .. MaxHops /\ MaxHops \in Nat
    BY <2>1 DEF RoutingTypes, Sharing
  <2>3. /\ \A k \in Routing!Members : load[k] \in Nat /\ Routing!Weight(k) \in Nat /\ Routing!Weight(k) > 0
        /\ load'[t] = load[t] + 2 /\ \A k \in Routing!Members : k # t => load'[k] = load[k]
    BY <2>1, <2>2, Policies, Evens DEF RoutingTypes
  <2>4. CASE h = t
    <3>1. PICK r : Best(t, Routing!Members, r)
      <4>1. CASE spawn.hops = 0
        <5>1. t \in fleet.clients /\ spawn.req \in Requests
          BY <2>1, <4>1 DEF Routed
        <5>2. {t} \cup fleet.knows[t] = Routing!Members
          <6>1. fleet.knows[t] \cup {t} = Routing!Members
            BY <5>1, Policies DEF RoutingTypes
          <6> QED BY <6>1
        <5>3. t \in Ready(Routing!Members)
          BY <2>2, <2>4 DEF Ready
        <5>4. Choice(Routing!Members, spawn.req) # {}
          BY <5>3 DEF Choice, Strict, Relaxed
        <5>5. t = Routing!SelectTargetHost(t, spawn.req)
          BY <2>1 DEF Routing!Target
        <5> HIDE DEF t
        <5>6. spawn.req \in Askings
          BY <5>1 DEF Askings
        <5> QED BY <2>1, <2>2, <5>2, <5>4, <5>5, <5>6, Picks
      <4>2. CASE spawn.hops > 0
        BY <2>1, <2>2, <4>2 DEF Routed
      <4> QED BY <2>2, <4>1, <4>2
    <3>2. /\ Routing!Policy(g).tags = Routing!Policy(t).tags /\ Routing!Policy(g).caps = Routing!Policy(t).caps
          /\ Routing!Policy(g).repo = Routing!Policy(t).repo
      <4>1. ASSUME NEW tags, NEW caps, NEW w,
                   NEW p \in [tags : {tags}, weight : Nat, caps : {caps}, repo : BOOLEAN],
                   NEW q, q = [p EXCEPT !.weight = w]
            PROVE  q.tags = p.tags /\ q.caps = p.caps /\ q.repo = p.repo
        BY <4>1
      <4>2. Routing!Policy(h) \in [tags : {Routing!Policy(h).tags}, weight : Nat, caps : {Routing!Policy(h).caps}, repo : BOOLEAN]
        BY Policies DEF RoutingTypes
      <4>3. Routing!Policy(g) = [Routing!Policy(h) EXCEPT !.weight = Routing!Policy(g).weight]
        OBVIOUS
      <4> QED BY <2>4, <4>1, <4>2, <4>3
    <3>3. g \in Choice(Routing!Members, r)
      <4>1. /\ \A tag : Routing!hostHasTag(g, tag) <=> Routing!hostHasTag(t, tag)
            /\ \A cap : Reaches(g, cap) <=> Reaches(t, cap)
        BY <3>2 DEF Routing!hostHasTag, Reaches
      <4>2. (Routing!AlwaysOn(g) <=> Routing!AlwaysOn(t)) /\ (Lasting(g) <=> Lasting(t))
        BY <2>4, <4>1 DEF Routing!AlwaysOn, Lasting
      <4>3. t \in Choice(Routing!Members, r)
        BY <3>1 DEF Best
      <4> HIDE DEF t
      <4>4. g \in Ready(Routing!Members) <=> t \in Ready(Routing!Members)
        BY <2>2, <4>1 DEF Ready
      <4>5. g \in Fit(Routing!Members, r) <=> t \in Fit(Routing!Members, r)
        BY <3>2, <4>1, <4>4 DEF Fit
      <4> QED BY <4>2, <4>3, <4>4, <4>5 DEF Choice, Strict, Relaxed
    <3>4. Routing!Weight(t) * (load[g] + 2) >= Routing!Weight(g) * (load[t] + 2)
      <4>1. ~(Routing!Weight(g) * (load[t] + 2) > Routing!Weight(t) * (load[g] + 2))
        BY <3>1, <3>3 DEF Best, Outdoes
      <4> HIDE DEF t
      <4> QED BY <2>2, <2>3, <4>1
    <3>5. CASE g # t
      BY <2>3, <2>4, <3>4, <3>5
    <3>6. CASE g = t
      <4> DEFINE w == Routing!Weight(t)
                 x == load[t]
      <4>1. w \in Nat /\ x \in Nat /\ load'[g] = x + 2 /\ load'[h] = x + 2
        BY <2>2, <2>3, <2>4, <3>6
      <4> HIDE DEF w, x
      <4>2. w * (x + 2 + 2) >= w * (x + 2)
        BY <4>1
      <4> QED BY <2>4, <3>6, <4>1, <4>2 DEF w
    <3> QED BY <3>5, <3>6
  <2>5. CASE h # t
    <3>1. Routing!Weight(h) * (load[g] + 2) >= Routing!Weight(g) * load[h]
      BY <1>1, <2>1, <2>3, <2>5
    <3> DEFINE w == Routing!Weight(h)
               x == load[g]
    <3>2. /\ w \in Nat /\ x \in Nat /\ load'[h] = load[h] /\ load'[g] \in {x, x + 2}
          /\ Routing!Weight(g) * load[h] \in Nat
      BY <2>2, <2>3, <2>5
    <3> HIDE DEF w, x
    <3>3. w * (x + 2) \in Nat /\ w * (x + 2 + 2) \in Nat /\ w * (x + 2 + 2) >= w * (x + 2)
      BY <3>2
    <3>4. w * (x + 2) >= Routing!Weight(g) * load[h]
      BY <3>1 DEF w, x
    <3>5. w * (load'[g] + 2) >= Routing!Weight(g) * load[h]
      BY <3>2, <3>3, <3>4
    <3> QED BY <3>2, <3>5 DEF w
  <2> QED BY <2>4, <2>5
<1> QED BY <1>2, <1>3, <1>4 DEF Routing!Next, Routing!vars, Routing!ensureHostTunnels,
           Routing!getFederatedSessions, Routing!RegisterHost,
           Routing!DeleteHost, Routing!HostGoes, Routing!HostComes, Routing!handleSpawn, Routing!Forward, Routing!ForwardFails

LEMMA RoutingInductive ==
    ASSUME Sharing, RoutingIInv, [Routing!Next]_(Routing!vars)
    PROVE  RoutingIInv'
BY StepTypes, StepRouted, StepBalanced DEF RoutingIInv

LEMMA Shared ==
    ASSUME Sharing, RoutingIInv
    PROVE  Routing!TypeOK /\ Routing!FewHops /\ Routing!Balanced
<1>1. Routing!TypeOK
  <2>1. \A n \in Even : {n} \in {{m} : m \in 0 .. 2 * MaxLoad}
    <3> TAKE n \in Even
    <3>1. MaxLoad \in Nat
      BY DEF Sharing
    <3>2. n \in 0 .. 2 * MaxLoad
      BY <3>1, Evens
    <3> QED BY <3>2
  <2>2. Loads \subseteq {{}} \cup {{m} : m \in 0 .. 2 * MaxLoad}
    BY <2>1 DEF Loads
  <2>3. \A d, h \in Routing!Members : report[d][h].load \in Loads /\ report[d][h].online \in BOOLEAN
    <3>1. \A d, h \in Routing!Members : report[d][h] \in Reports
      BY DEF RoutingIInv, RoutingTypes
    <3> QED BY <3>1 DEF Reports
  <2> HIDE DEF Loads
  <2>4. peers \in [Routing!Members -> SUBSET Routing!Members] /\ up \subseteq Routing!Members
        /\ spawn.at \in Routing!Members \cup {Routing!None} /\ spawn.hops \in 0 .. MaxHops
    BY DEF RoutingIInv, RoutingTypes
  <2>5. \A d, h \in Routing!Members : report[d][h].load \in {{}} \cup {{n} : n \in 0 .. 2 * MaxLoad}
    BY <2>2, <2>3
  <2> QED BY <2>3, <2>4, <2>5 DEF Routing!TypeOK
<1>2. Routing!FewHops
  <2>1. spawn.hops > 0 => spawn.at # Routing!None
    BY DEF RoutingIInv, Routed
  <2> QED BY <2>1, Resting DEF RoutingIInv, Routing!FewHops
<1> QED BY <1>1, <1>2 DEF RoutingIInv

\* Between daemons that know the fleet a spawn is forwarded at most once, to a
\* host that can do what was asked for; twice if it names capabilities and a
\* repository (SelectTargetHost, handleSpawn).
THEOREM Settles ==
    ASSUME Sharing
    PROVE  Routing!Spec => [](Routing!TypeOK /\ Routing!FewHops)
<1>1. Routing!Init => RoutingIInv
  BY RoutingInitially
<1>2. RoutingIInv /\ [Routing!Next]_(Routing!vars) => RoutingIInv'
  BY RoutingInductive
<1>3. RoutingIInv => Routing!TypeOK /\ Routing!FewHops
  BY Shared
<1> QED BY <1>1, <1>2, <1>3, PTL DEF Routing!Spec

\* The 24/7 hosts share the sessions by weight, as long as every daemon knows
\* the loads (the deficit score of SelectTargetHost).
THEOREM Sharings ==
    ASSUME Sharing
    PROVE  Routing!Spec => []Routing!Balanced
<1>1. Routing!Init => RoutingIInv
  BY RoutingInitially
<1>2. RoutingIInv /\ [Routing!Next]_(Routing!vars) => RoutingIInv'
  BY RoutingInductive
<1>3. RoutingIInv => Routing!Balanced
  BY Shared
<1> QED BY <1>1, <1>2, <1>3, PTL DEF Routing!Spec
-----------------------------------------------------------------------------
(***************************************************************************)
(* Services.  A behaviour is one of a single part, whose theorems then     *)
(* hold of it; properties of the other parts hold since part is none of    *)
(* theirs.                                                                 *)
(***************************************************************************)
LEMMA OnePart ==
  ASSUME [Next]_vars
  PROVE  part' = part
<1>1. CASE UNCHANGED vars
  BY <1>1 DEF vars
<1>2. CASE Next
  BY <1>2 DEF Next, Keeps, StateStep, BlocksStep, InspectorStep, RoutingStep, UpdateStep,
     TreeStep, LoadStep, BoardStep, MigrationStep
<1> QED BY <1>1, <1>2

LEMMA OnlyState == Spec /\ part = "state" => State!Spec /\ [](part = "state")
<1>1. Init /\ part = "state" => State!Init
  BY DEF Init
<1>2. [Next]_vars /\ part = "state" => [State!Next]_(State!vars)
  <2> SUFFICES ASSUME [Next]_vars, part = "state"
               PROVE  [State!Next]_(State!vars)
    OBVIOUS
  <2>1. CASE UNCHANGED vars
    BY <2>1 DEF vars, stateVars, State!vars
  <2>2. CASE Next
    <3>1. StateStep
      BY <2>2 DEF Next, Keeps, StateStep, BlocksStep, InspectorStep, RoutingStep, UpdateStep,
         TreeStep, LoadStep, BoardStep, MigrationStep
    <3> QED BY <3>1 DEF StateStep
  <2> QED BY <2>1, <2>2
<1>3. [Next]_vars /\ part = "state" => (part = "state")'
  BY OnePart
<1> QED BY <1>1, <1>2, <1>3, PTL DEF Spec, State!Spec

LEMMA OnlyBlocks == Spec /\ part = "blocks" => Blocks!Spec /\ [](part = "blocks")
<1>1. Init /\ part = "blocks" => Blocks!Init
  BY DEF Init
<1>2. [Next]_vars /\ part = "blocks" => [Blocks!Next]_(Blocks!vars)
  <2> SUFFICES ASSUME [Next]_vars, part = "blocks"
               PROVE  [Blocks!Next]_(Blocks!vars)
    OBVIOUS
  <2>1. CASE UNCHANGED vars
    BY <2>1 DEF vars, blocksVars, Blocks!vars
  <2>2. CASE Next
    <3>1. BlocksStep
      BY <2>2 DEF Next, Keeps, StateStep, BlocksStep, InspectorStep, RoutingStep, UpdateStep,
         TreeStep, LoadStep, BoardStep, MigrationStep
    <3> QED BY <3>1 DEF BlocksStep
  <2> QED BY <2>1, <2>2
<1>3. [Next]_vars /\ part = "blocks" => (part = "blocks")'
  BY OnePart
<1> QED BY <1>1, <1>2, <1>3, PTL DEF Spec, Blocks!Spec

LEMMA OnlyInspector == Spec /\ part = "inspector" => Inspector!Spec /\ [](part = "inspector")
<1>1. Init /\ part = "inspector" => Inspector!Init
  BY DEF Init
<1>2. [Next]_vars /\ part = "inspector" => [Inspector!Next]_(Inspector!vars)
  <2> SUFFICES ASSUME [Next]_vars, part = "inspector"
               PROVE  [Inspector!Next]_(Inspector!vars)
    OBVIOUS
  <2>1. CASE UNCHANGED vars
    BY <2>1 DEF vars, inspectorVars, Inspector!vars
  <2>2. CASE Next
    <3>1. InspectorStep
      BY <2>2 DEF Next, Keeps, StateStep, BlocksStep, InspectorStep, RoutingStep, UpdateStep,
         TreeStep, LoadStep, BoardStep, MigrationStep
    <3> QED BY <3>1 DEF InspectorStep
  <2> QED BY <2>1, <2>2
<1>3. [Next]_vars /\ part = "inspector" => (part = "inspector")'
  BY OnePart
<1> QED BY <1>1, <1>2, <1>3, PTL DEF Spec, Inspector!Spec

LEMMA OnlyRouting == Spec /\ part = "routing" => Routing!Spec /\ [](part = "routing")
<1>1. Init /\ part = "routing" => Routing!Init
  BY DEF Init
<1>2. [Next]_vars /\ part = "routing" => [Routing!Next]_(Routing!vars)
  <2> SUFFICES ASSUME [Next]_vars, part = "routing"
               PROVE  [Routing!Next]_(Routing!vars)
    OBVIOUS
  <2>1. CASE UNCHANGED vars
    BY <2>1 DEF vars, routingVars, Routing!vars
  <2>2. CASE Next
    <3>1. RoutingStep
      BY <2>2 DEF Next, Keeps, StateStep, BlocksStep, InspectorStep, RoutingStep, UpdateStep,
         TreeStep, LoadStep, BoardStep, MigrationStep
    <3> QED BY <3>1 DEF RoutingStep
  <2> QED BY <2>1, <2>2
<1>3. [Next]_vars /\ part = "routing" => (part = "routing")'
  BY OnePart
<1> QED BY <1>1, <1>2, <1>3, PTL DEF Spec, Routing!Spec

LEMMA OnlyUpdate == Spec /\ part = "update" => Update!Spec /\ [](part = "update")
<1>1. Init /\ part = "update" => Update!Init
  BY DEF Init
<1>2. [Next]_vars /\ part = "update" => [Update!Next]_(Update!vars)
  <2> SUFFICES ASSUME [Next]_vars, part = "update"
               PROVE  [Update!Next]_(Update!vars)
    OBVIOUS
  <2>1. CASE UNCHANGED vars
    BY <2>1 DEF vars, updateVars, Update!vars
  <2>2. CASE Next
    <3>1. UpdateStep
      BY <2>2 DEF Next, Keeps, StateStep, BlocksStep, InspectorStep, RoutingStep, UpdateStep,
         TreeStep, LoadStep, BoardStep, MigrationStep
    <3> QED BY <3>1 DEF UpdateStep
  <2> QED BY <2>1, <2>2
<1>3. [Next]_vars /\ part = "update" => (part = "update")'
  BY OnePart
<1> QED BY <1>1, <1>2, <1>3, PTL DEF Spec, Update!Spec

LEMMA OnlyTree == Spec /\ part = "tree" => Tree!TreeSpec /\ [](part = "tree")
<1>1. Init /\ part = "tree" => Tree!TreeInit
  BY DEF Init
<1>2. [Next]_vars /\ part = "tree" => [Tree!TreeNext]_(Tree!treeVars)
  <2> SUFFICES ASSUME [Next]_vars, part = "tree"
               PROVE  [Tree!TreeNext]_(Tree!treeVars)
    OBVIOUS
  <2>1. CASE UNCHANGED vars
    BY <2>1 DEF vars, treeVars, Tree!treeVars
  <2>2. CASE Next
    <3>1. TreeStep
      BY <2>2 DEF Next, Keeps, StateStep, BlocksStep, InspectorStep, RoutingStep, UpdateStep,
         TreeStep, LoadStep, BoardStep, MigrationStep
    <3> QED BY <3>1 DEF TreeStep
  <2> QED BY <2>1, <2>2
<1>3. [Next]_vars /\ part = "tree" => (part = "tree")'
  BY OnePart
<1> QED BY <1>1, <1>2, <1>3, PTL DEF Spec, Tree!TreeSpec

LEMMA OnlyBoard == Spec /\ part = "board" => Board!Spec /\ [](part = "board")
<1>1. Init /\ part = "board" => Board!Init
  BY DEF Init
<1>2. [Next]_vars /\ part = "board" => [Board!Next]_(Board!dashVars)
  <2> SUFFICES ASSUME [Next]_vars, part = "board"
               PROVE  [Board!Next]_(Board!dashVars)
    OBVIOUS
  <2>1. CASE UNCHANGED vars
    BY <2>1 DEF vars, boardVars, Board!dashVars
  <2>2. CASE Next
    <3>1. BoardStep
      BY <2>2 DEF Next, Keeps, StateStep, BlocksStep, InspectorStep, RoutingStep, UpdateStep,
         TreeStep, LoadStep, BoardStep, MigrationStep
    <3> QED BY <3>1 DEF BoardStep
  <2> QED BY <2>1, <2>2
<1>3. [Next]_vars /\ part = "board" => (part = "board")'
  BY OnePart
<1> QED BY <1>1, <1>2, <1>3, PTL DEF Spec, Board!Spec

LEMMA OnlyMigration == Spec /\ part = "migration" => Migration!Spec /\ [](part = "migration")
<1>1. Init /\ part = "migration" => Migration!Init
  BY DEF Init
<1>2. [Next]_vars /\ part = "migration" => [Migration!Next]_(Migration!vars)
  <2> SUFFICES ASSUME [Next]_vars, part = "migration"
               PROVE  [Migration!Next]_(Migration!vars)
    OBVIOUS
  <2>1. CASE UNCHANGED vars
    BY <2>1 DEF vars, migrationVars, Migration!vars
  <2>2. CASE Next
    <3>1. MigrationStep
      BY <2>2 DEF Next, Keeps, StateStep, BlocksStep, InspectorStep, RoutingStep, UpdateStep,
         TreeStep, LoadStep, BoardStep, MigrationStep
    <3> QED BY <3>1 DEF MigrationStep
  <2> QED BY <2>1, <2>2
<1>3. [Next]_vars /\ part = "migration" => (part = "migration")'
  BY OnePart
<1> QED BY <1>1, <1>2, <1>3, PTL DEF Spec, Migration!Spec

LEMMA SomePart ==
  Spec => \/ part = "state" \/ part = "blocks" \/ part = "inspector" \/ part = "routing"
          \/ part = "update" \/ part = "tree" \/ part = "load" \/ part = "board" \/ part = "migration"
<1>1. Init => \/ part = "state" \/ part = "blocks" \/ part = "inspector" \/ part = "routing"
              \/ part = "update" \/ part = "tree" \/ part = "load" \/ part = "board"
              \/ part = "migration"
  BY DEF Init
<1> QED BY <1>1, PTL DEF Spec

LEMMA OnlyLoad == Spec /\ part = "load" => [](part = "load")
<1>1. [Next]_vars /\ part = "load" => (part = "load")'
  BY OnePart
<1> QED BY <1>1, PTL DEF Spec

LEMMA Assumed ==
  Burst /\ Overtaking /\ Herd /\ Readable /\ Apart /\ Rooted /\ Shipping /\ Sharing /\ Numbering
BY RowAssumption, ServicesAssumption DEF Burst

\* The types of every part, for any instances of them (Services).
THEOREM TypesAlways == Spec => []TypesOK
<1>1. Spec /\ part = "state" => []TypesOK
  <2>1. State!Spec => [](State!TypeOK)
    BY Assumed, StateTyping, PTL
  <2>2. part = "state" /\ (State!TypeOK) => TypesOK
    BY DEF TypesOK
  <2> QED BY <2>1, <2>2, OnlyState, PTL
<1>2. Spec /\ part = "blocks" => []TypesOK
  <2>1. Blocks!Spec => [](Blocks!TypeOK)
    BY Assumed, BlockTyping, PTL
  <2>2. part = "blocks" /\ (Blocks!TypeOK) => TypesOK
    BY DEF TypesOK
  <2> QED BY <2>1, <2>2, OnlyBlocks, PTL
<1>3. Spec /\ part = "inspector" => []TypesOK
  <2>1. Inspector!Spec => [](Inspector!TypeOK)
    BY Assumed, Inspected, PTL
  <2>2. part = "inspector" /\ (Inspector!TypeOK) => TypesOK
    BY DEF TypesOK
  <2> QED BY <2>1, <2>2, OnlyInspector, PTL
<1>4. Spec /\ part = "routing" => []TypesOK
  <2>1. Routing!Spec => [](Routing!TypeOK)
    BY Assumed, Settles, PTL
  <2>2. part = "routing" /\ (Routing!TypeOK) => TypesOK
    BY DEF TypesOK
  <2> QED BY <2>1, <2>2, OnlyRouting, PTL
<1>5. Spec /\ part = "update" => []TypesOK
  <2>1. Update!Spec => [](Update!TypeOK)
    BY Assumed, UpdateTyping, PTL
  <2>2. part = "update" /\ (Update!TypeOK) => TypesOK
    BY DEF TypesOK
  <2> QED BY <2>1, <2>2, OnlyUpdate, PTL
<1>6. Spec /\ part = "tree" => []TypesOK
  <2>1. Tree!TreeSpec => [](Tree!TreeTypeOK)
    BY Assumed, Shelters, PTL
  <2>2. part = "tree" /\ (Tree!TreeTypeOK) => TypesOK
    BY DEF TypesOK
  <2> QED BY <2>1, <2>2, OnlyTree, PTL
<1>7. Spec /\ part = "board" => []TypesOK
  <2>1. Board!Spec => [](Board!TypeOK)
    BY Assumed, Catching, PTL
  <2>2. part = "board" /\ (Board!TypeOK) => TypesOK
    BY DEF TypesOK
  <2> QED BY <2>1, <2>2, OnlyBoard, PTL
<1>8. Spec /\ part = "migration" => []TypesOK
  <2>1. Migration!Spec => [](Migration!TypeOK)
    BY Assumed, MigrationTyping, PTL
  <2>2. part = "migration" /\ (Migration!TypeOK) => TypesOK
    BY DEF TypesOK
  <2> QED BY <2>1, <2>2, OnlyMigration, PTL
<1>9. Spec /\ part = "load" => []TypesOK
  <2>1. part = "load" => TypesOK
    BY DEF TypesOK
  <2> QED BY <2>1, OnlyLoad, PTL
<1> QED BY <1>1, <1>2, <1>3, <1>4, <1>5, <1>6, <1>7, <1>8, <1>9, SomePart, PTL

\* What a row shows of its CLI, of the subagents and of the pane, where it is
\* filed and what the dashboard makes of it are true: for any prompts, bursts,
\* subagents, panes, trees, sessions, changes and keys.
THEOREM RowAlways == Spec => []RowTrue
<1>1. Spec /\ part = "state" => []RowTrue
  <2>1. State!Spec => [](State!Shown /\ State!NoGhostSubagent)
    BY Assumed, Telling, NoGhosts, PTL
  <2>2. part = "state" /\ (State!Shown /\ State!NoGhostSubagent) => RowTrue
    BY DEF RowTrue
  <2> QED BY <2>1, <2>2, OnlyState, PTL
<1>2. Spec /\ part = "blocks" => []RowTrue
  <2>1. Blocks!Spec => [](Blocks!BlockExact)
    BY Assumed, Exact, PTL
  <2>2. part = "blocks" /\ (Blocks!BlockExact) => RowTrue
    BY DEF RowTrue
  <2> QED BY <2>1, <2>2, OnlyBlocks, PTL
<1>3. Spec /\ part = "inspector" => []RowTrue
  <2>1. Inspector!Spec => [](Inspector!Agrees /\ Inspector!Steady)
    BY Assumed, Inspected, PTL
  <2>2. part = "inspector" /\ (Inspector!Agrees /\ Inspector!Steady) => RowTrue
    BY DEF RowTrue
  <2> QED BY <2>1, <2>2, OnlyInspector, PTL
<1>4. Spec /\ part = "routing" => []RowTrue
  <2>1. part = "routing" => RowTrue
    BY DEF RowTrue
  <2> QED BY <2>1, OnlyRouting, PTL
<1>5. Spec /\ part = "update" => []RowTrue
  <2>1. part = "update" => RowTrue
    BY DEF RowTrue
  <2> QED BY <2>1, OnlyUpdate, PTL
<1>6. Spec /\ part = "tree" => []RowTrue
  <2>1. Tree!TreeSpec => [](Tree!Housed)
    BY Assumed, Shelters, PTL
  <2>2. part = "tree" /\ (Tree!Housed) => RowTrue
    BY DEF RowTrue
  <2> QED BY <2>1, <2>2, OnlyTree, PTL
<1>7. Spec /\ part = "board" => []RowTrue
  <2>1. Board!Spec => [](Board!OneRow /\ Board!Caught)
    BY Assumed, Catching, PTL
  <2>2. part = "board" /\ (Board!OneRow /\ Board!Caught) => RowTrue
    BY DEF RowTrue
  <2> QED BY <2>1, <2>2, OnlyBoard, PTL
<1>8. Spec /\ part = "migration" => []RowTrue
  <2>1. Migration!Spec => [](Migration!UnderOneKey /\ Migration!MapsFollowRow)
    BY Assumed, OneKey, MapsFollow, PTL
  <2>2. part = "migration" /\ (Migration!UnderOneKey /\ Migration!MapsFollowRow) => RowTrue
    BY DEF RowTrue
  <2> QED BY <2>1, <2>2, OnlyMigration, PTL
<1>9. Spec /\ part = "load" => []RowTrue
  <2>1. part = "load" => RowTrue
    BY DEF RowTrue
  <2> QED BY <2>1, OnlyLoad, PTL
<1> QED BY <1>1, <1>2, <1>3, <1>4, <1>5, <1>6, <1>7, <1>8, <1>9, SomePart, PTL

\* A spawn is passed on at most once and the 24/7 hosts share the work by weight,
\* for any fleet whose daemons know every host or none.
THEOREM FleetAlways == Spec => []FleetTrue
<1>1. Spec /\ part = "state" => []FleetTrue
  <2>1. part = "state" => FleetTrue
    BY DEF FleetTrue
  <2> QED BY <2>1, OnlyState, PTL
<1>2. Spec /\ part = "blocks" => []FleetTrue
  <2>1. part = "blocks" => FleetTrue
    BY DEF FleetTrue
  <2> QED BY <2>1, OnlyBlocks, PTL
<1>3. Spec /\ part = "inspector" => []FleetTrue
  <2>1. part = "inspector" => FleetTrue
    BY DEF FleetTrue
  <2> QED BY <2>1, OnlyInspector, PTL
<1>4. Spec /\ part = "routing" => []FleetTrue
  <2>1. Routing!Spec => [](Routing!FewHops /\ Routing!Balanced)
    BY Assumed, Settles, Sharings, PTL
  <2>2. part = "routing" /\ (Routing!FewHops /\ Routing!Balanced) => FleetTrue
    BY DEF FleetTrue
  <2> QED BY <2>1, <2>2, OnlyRouting, PTL
<1>5. Spec /\ part = "update" => []FleetTrue
  <2>1. part = "update" => FleetTrue
    BY DEF FleetTrue
  <2> QED BY <2>1, OnlyUpdate, PTL
<1>6. Spec /\ part = "tree" => []FleetTrue
  <2>1. part = "tree" => FleetTrue
    BY DEF FleetTrue
  <2> QED BY <2>1, OnlyTree, PTL
<1>7. Spec /\ part = "board" => []FleetTrue
  <2>1. part = "board" => FleetTrue
    BY DEF FleetTrue
  <2> QED BY <2>1, OnlyBoard, PTL
<1>8. Spec /\ part = "migration" => []FleetTrue
  <2>1. part = "migration" => FleetTrue
    BY DEF FleetTrue
  <2> QED BY <2>1, OnlyMigration, PTL
<1>9. Spec /\ part = "load" => []FleetTrue
  <2>1. part = "load" => FleetTrue
    BY DEF FleetTrue
  <2> QED BY <2>1, OnlyLoad, PTL
<1> QED BY <1>1, <1>2, <1>3, <1>4, <1>5, <1>6, <1>7, <1>8, <1>9, SomePart, PTL

\* A binary is never partly written, a host reported as updated is, and no step
\* starts a half-installed daemon or takes a host that says what it runs back,
\* for any versions, binaries, hosts and updates of which no two are of one host.
THEOREM UpdatesSafe == Spec => SafeUpdates
<1>1. Spec /\ part = "update" => SafeUpdates
  <2>1. Update!Spec => []Update!WholeBinaries /\ [][Update!Upgrades]_(Update!vars)
    BY Assumed, Whole, Upgrading, PTL DEF Update!NeverDowngraded
  <2>2. Update!WholeBinaries => (part = "update" => Update!WholeBinaries)
    OBVIOUS
  <2>3. [Next]_vars /\ part = "update" /\ [Update!Upgrades]_(Update!vars)
          => [part = "update" => Update!Upgrades]_vars
    <3> SUFFICES ASSUME Next, part = "update", UNCHANGED Update!vars
                 PROVE  UNCHANGED vars
      OBVIOUS
    <3>1. UpdateStep
      BY DEF Next, Keeps, StateStep, BlocksStep, InspectorStep, RoutingStep, UpdateStep,
         TreeStep, LoadStep, BoardStep, MigrationStep
    <3>2. UNCHANGED updateVars
      BY DEF Update!vars, updateVars
    <3> QED BY <3>1, <3>2 DEF UpdateStep, Keeps, vars
  <2> QED BY <2>1, <2>2, <2>3, OnlyUpdate, PTL DEF Spec, SafeUpdates
<1>2. Spec /\ ~(part = "update") => SafeUpdates
  <2>1. [Next]_vars /\ ~(part = "update") => ~(part = "update")'
    BY OnePart
  <2>2. ~(part = "update") => (part = "update" => Update!WholeBinaries)
    OBVIOUS
  <2>3. ~(part = "update") => [part = "update" => Update!Upgrades]_vars
    OBVIOUS
  <2> QED BY <2>1, <2>2, <2>3, PTL DEF Spec, SafeUpdates
<1> QED BY <1>1, <1>2, PTL


\* Deleting a group on an up-to-date view takes nothing else with it, for any
\* tree and sessions.
THEOREM DeletesSpare == Spec => DeleteSpares
<1>1. Spec /\ part = "board" => DeleteSpares
  <2>1. Board!Spec => [][Board!Spares]_(Board!dashVars)
    BY Sparing, PTL DEF Board!DeleteSpares
  <2>2. [Next]_vars /\ part = "board" /\ [Board!Spares]_(Board!dashVars)
          => [part = "board" => Board!Spares]_vars
    <3> SUFFICES ASSUME Next, part = "board", UNCHANGED Board!dashVars
                 PROVE  UNCHANGED vars
      OBVIOUS
    <3>1. BoardStep
      BY DEF Next, Keeps, StateStep, BlocksStep, InspectorStep, RoutingStep, UpdateStep,
         TreeStep, LoadStep, BoardStep, MigrationStep
    <3>2. UNCHANGED boardVars
      BY DEF Board!dashVars, boardVars
    <3> QED BY <3>1, <3>2 DEF BoardStep, Keeps, vars
  <2> QED BY <2>1, <2>2, OnlyBoard, PTL DEF Spec, DeleteSpares
<1>2. Spec /\ ~(part = "board") => DeleteSpares
  <2>1. [Next]_vars /\ ~(part = "board") => ~(part = "board")'
    BY OnePart
  <2>2. ~(part = "board") => [part = "board" => Board!Spares]_vars
    OBVIOUS
  <2> QED BY <2>1, <2>2, PTL DEF Spec, DeleteSpares
<1> QED BY <1>1, <1>2, PTL

=============================================================================
