-------------------------- MODULE SessionRowsProofs --------------------------
(***************************************************************************)
(* Theorems about SessionRows, for any number of ids, terminals, resets    *)
(* and calls: the types, however many writers are at work at one time; and *)
(* that writers that take turns leave no two live rows of Claude Code on   *)
(* one terminal.                                                           *)
(***************************************************************************)
EXTENDS SessionRows, TLAPS, FiniteSetTheorems

Tables   == [Ids -> Row \cup {NoRow}]
Terms(S) == [Ids -> [proc : 0 .. MaxProcs, conv : S \cup {"blank", "shell"}]]

(* A row is no empty one, and a field of a row has its type.                *)
LEMMA RowIsOne == NoRow \notin Row
BY DEF NoRow, Row

LEMMA RowParts ==
  ASSUME NEW r \in Row
  PROVE  /\ r.state \in {"unknown", "live", "ended"} /\ r.managed \in BOOLEAN
         /\ r.tmux \in Ids \cup {None} /\ r.pid \in 0 .. 2 * MaxProcs
         /\ r.cleared \in BOOLEAN
BY DEF Row

(***************************************************************************)
(* What Save and Drop do to a table.                                       *)
(***************************************************************************)
LEMMA Saving ==
  ASSUME NEW table \in Tables, NEW i \in Ids, NEW row \in Row
  PROVE  /\ Save(table, i, row) \in Tables
         /\ Present(Save(table, i, row)) \subseteq Present(table) \cup {i}
BY DEF Save, Tables, Present

LEMMA Dropping ==
  ASSUME NEW table \in Tables, NEW gone
  PROVE  /\ Drop(table, gone) \in Tables
         /\ Present(Drop(table, gone)) \subseteq Present(table)
         /\ \A i \in Ids : i \notin gone => Drop(table, gone)[i] = table[i]
BY DEF Drop, Tables, Present

\* The shape of a write: a table that has lost other rows is given one row.
LEMMA SaveOver ==
  ASSUME NEW table \in Tables, NEW g \in Ids, NEW i \in Ids, i # g, NEW row \in Row
  PROVE  /\ Save(Drop(table, {g}), i, row) \in Tables
         /\ Present(Save(Drop(table, {g}), i, row)) \subseteq Present(table) \cup {i}
<1>1. Drop(table, {g}) \in Tables /\ Present(Drop(table, {g})) \subseteq Present(table)
  BY Dropping
<1> QED BY <1>1, Saving

\* A row that was saved is there.
LEMMA SavedIsOne ==
  ASSUME NEW table \in Tables, NEW i \in Ids, NEW row \in Row
  PROVE  Save(table, i, row)[i] # NoRow
BY Saving, RowIsOne DEF Save, Tables, Row, NoRow

(***************************************************************************)
(* What the operators on the tmux server do to it: every name stays a      *)
(* terminal, and no conversation comes in but the one that is given.       *)
(***************************************************************************)
LEMMA TermParts ==
  ASSUME NEW S, NEW tt \in Terms(S), NEW t \in Ids
  PROVE  tt[t].proc \in 0 .. MaxProcs /\ tt[t].conv \in S \cup {"blank", "shell"}
BY DEF Terms

LEMMA Killing ==
  ASSUME NEW S, NEW tt \in Terms(S), NEW names, NEW pid
  PROVE  /\ KillName(tt, names) \in Terms(S)
         /\ KillPid(tt, pid) \in Terms(S)
<1>1. NoTerm \in [proc : 0 .. MaxProcs, conv : S \cup {"blank", "shell"}]
  BY SessionRowsAssumption DEF NoTerm
<1>2. \A t \in Ids : [tt[t] EXCEPT !.conv = "shell"]
                       \in [proc : 0 .. MaxProcs, conv : S \cup {"blank", "shell"}]
  BY DEF Terms
<1> QED BY <1>1, <1>2 DEF KillName, KillPid, Terms

LEMMA Opening ==
  ASSUME NEW S, NEW tt \in Terms(S), NEW t \in Ids, NEW conv \in S \cup {"blank", "shell"},
         procs \in Nat, procs < MaxProcs
  PROVE  Open(tt, t, conv) \in Terms(S)
<1>1. procs + 1 \in 0 .. MaxProcs
  BY SessionRowsAssumption
<1> QED BY <1>1 DEF Open, Terms

LEMMA Renaming ==
  ASSUME NEW S, NEW tt \in Terms(S), NEW t \in Ids, NEW new \in Ids
  PROVE  /\ Renamed(tt, t, new) \in Terms(S) /\ NewName(tt, t, new) \in Ids
         /\ Renamed(tt, t, new)[NewName(tt, t, new)] = tt[t]
<1>1. NoTerm \in [proc : 0 .. MaxProcs, conv : S \cup {"blank", "shell"}]
  BY SessionRowsAssumption DEF NoTerm
<1> QED BY <1>1 DEF Renamed, Renames, NewName, Terms

LEMMA Wider ==
  ASSUME NEW S, NEW U, S \subseteq U
  PROVE  Terms(S) \subseteq Terms(U)
BY DEF Terms

\* The processes of a terminal.
LEMMA Pids ==
  ASSUME NEW p \in Nat
  PROVE  /\ p \in 1 .. MaxProcs => /\ Pane(p) \in 0 .. 2 * MaxProcs
                                   /\ Cli(p) \in 0 .. 2 * MaxProcs
         /\ p < MaxProcs => Pane(p + 1) \in 0 .. 2 * MaxProcs
BY SessionRowsAssumption DEF Pane, Cli

-----------------------------------------------------------------------------
(***************************************************************************)
(* The invariant: every copy in flight is a row, under an id that has been *)
(* handed out; an event that takes over a row takes that of another id.    *)
(***************************************************************************)
Picks == [how : {"own", "adopt", "rotate"}, from : Ids, row : Row]
Pick(c, p) ==
  /\ p \in Picks
  /\ p.how = "adopt" => p.from # c /\ p.row.tmux \in Ids
  /\ p.how = "rotate" => p.from \in seen

Base ==
  /\ mode \in Modes
  /\ procs \in Nat
  /\ seen \subseteq Ids /\ convs \subseteq seen /\ deleted \subseteq seen
Server == term \in Terms(seen)
Database == rows \in Tables /\ Present(rows) \subseteq seen
Events == [op : {"event"}, pick : Picks]
Hooks ==
  /\ hook \in [Ids -> {Idle, Posted} \cup Events]
  /\ \A c \in Ids : /\ hook[c] # Idle => c \in seen
                    /\ hook[c].op = "event" => Pick(c, hook[c].pick)
CallHolds == call \in {Idle} \cup [op : {"spawn", "api"}, id : seen, row : Row]
ScanHolds ==
  /\ scan \in {Idle} \cup [op : {"panes"}, known : Tables, todo : SUBSET Ids]
  /\ scan.op = "panes" => Present(scan.known) \subseteq seen
ProbeHolds == probe \in {Idle} \cup [op : {"probe"}, id : seen, row : Row]

Copies == Base /\ Server /\ Database /\ Hooks /\ CallHolds /\ ScanHolds /\ ProbeHolds

LEMMA CopiesType == Copies => TypeOK
<1> SUFFICES ASSUME Copies PROVE TypeOK
  OBVIOUS
<1>1. Terms(seen) \subseteq Terms(Ids)
  BY Wider DEF Copies, Base
<1>2. term \in [Ids -> [proc : 0 .. MaxProcs, conv : Ids \cup {"blank", "shell"}]]
  BY <1>1 DEF Copies, Server, Terms
<1> QED BY <1>2 DEF TypeOK, Copies, Base, Database, Tables

LEMMA CopiesInit == Init => Copies
<1> SUFFICES ASSUME Init PROVE Copies
  OBVIOUS
<1>1. Base
  BY DEF Init, Base
<1>2. Server
  BY SessionRowsAssumption DEF Init, Server, Terms, NoTerm
<1>3. Database
  BY DEF Init, Database, Tables, Present
<1>4. Hooks
  BY DEF Init, Hooks, Idle
<1>5. CallHolds /\ ScanHolds /\ ProbeHolds
  BY DEF Init, CallHolds, ScanHolds, ProbeHolds, Idle
<1> QED BY <1>1, <1>2, <1>3, <1>4, <1>5 DEF Copies

-----------------------------------------------------------------------------
(***************************************************************************)
(* One lemma per action: it keeps the invariant.                           *)
(***************************************************************************)
\* What a step leaves alone stays as it is.
LEMMA Frame ==
  ASSUME Copies, seen \subseteq seen'
  PROVE  /\ mode' = mode /\ procs' = procs /\ seen' = seen /\ convs' = convs
              /\ deleted' = deleted => Base'
         /\ term' = term => Server'
         /\ rows' = rows => Database'
         /\ hook' = hook => Hooks'
         /\ call' = call => CallHolds'
         /\ scan' = scan => ScanHolds'
         /\ probe' = probe => ProbeHolds'
<1>1. mode' = mode /\ procs' = procs /\ seen' = seen /\ convs' = convs
      /\ deleted' = deleted => Base'
  BY DEF Copies, Base
<1>2. term' = term => Server'
  BY Wider DEF Copies, Server
<1>3. rows' = rows => Database'
  BY DEF Copies, Database, Present
<1>4. hook' = hook => Hooks'
  BY DEF Copies, Hooks, Pick
<1>5. call' = call => CallHolds'
  BY DEF Copies, CallHolds
<1>6. scan' = scan => ScanHolds'
  BY DEF Copies, ScanHolds, Present
<1>7. probe' = probe => ProbeHolds'
  BY DEF Copies, ProbeHolds
<1> QED BY <1>1, <1>2, <1>3, <1>4, <1>5, <1>6, <1>7

LEMMA StepOpenConversation ==
  ASSUME Copies, NEW t \in Ids, NEW c \in Ids, OpenConversation(t, c)
  PROVE  Copies'
<1>1. /\ mode' = mode /\ procs' = procs /\ deleted' = deleted /\ rows' = rows
      /\ hook' = hook /\ call' = call /\ scan' = scan /\ probe' = probe
      /\ convs' = convs \cup {c} /\ seen' = seen \cup {c}
      /\ term' = [term EXCEPT ![t].conv = c]
  BY DEF OpenConversation
<1>2. Base'
  BY <1>1 DEF Copies, Base
<1>3. term \in Terms(seen') /\ c \in seen'
  BY <1>1, Wider DEF Copies, Server
<1>4. Server'
  BY <1>1, <1>3 DEF Server, Terms
<1> QED BY <1>1, <1>2, <1>4, Frame DEF Copies

LEMMA StepCliExits ==
  ASSUME Copies, NEW t \in Ids, CliExits(t)
  PROVE  Copies'
<1>1. Server'
  BY DEF CliExits, Copies, Server, Terms
<1> QED BY <1>1, Frame DEF CliExits, Copies

\* A conversation that runs has been handed out.
LEMMA StepPost ==
  ASSUME Copies, NEW c \in Ids, Post(c) \/ HookIgnored(c)
  PROVE  Copies'
<1>1. Post(c) => c \in seen
  <2>1. ASSUME Post(c), NEW t \in Ids, term[t].conv = c PROVE c \in seen
    BY <2>1, TermParts, SessionRowsAssumption DEF Copies, Server
  <2> QED BY <2>1 DEF Post, Runs
<1>2. hook' \in [Ids -> {Idle, Posted} \cup Events]
  BY DEF Post, HookIgnored, Copies, Hooks
<1>3. Hooks'
  BY <1>1, <1>2 DEF Post, HookIgnored, Copies, Hooks, Idle, Posted, Pick
<1>4. /\ mode' = mode /\ procs' = procs /\ seen' = seen /\ convs' = convs
      /\ deleted' = deleted /\ term' = term /\ rows' = rows
      /\ call' = call /\ scan' = scan /\ probe' = probe
  BY DEF Post, HookIgnored
<1> QED BY <1>3, <1>4, Frame DEF Copies

\* The row that an event is resolved to: its own, or one of another id.
LEMMA Resolving ==
  ASSUME Copies, NEW c \in Ids, NEW p \in Resolve(c)
  PROVE  Pick(c, p)
<1>1. CASE rows[c] # NoRow
  <2>1. p = [how |-> "own", from |-> c, row |-> rows[c]]
    BY <1>1 DEF Resolve
  <2>2. rows[c] \in Row
    BY <1>1 DEF Copies, Database, Tables
  <2> QED BY <2>1, <2>2 DEF Pick, Picks
<1>2. CASE rows[c] = NoRow /\ Placeholders # {}
  <2>1. PICK k \in Placeholders : p = [how |-> "adopt", from |-> k, row |-> rows[k]]
    BY <1>2 DEF Resolve
  <2>2. k \in Present(rows) /\ rows[k].tmux # None
    BY <2>1 DEF Placeholders, Newest
  <2>3. k \in Ids /\ rows[k] # NoRow /\ rows[k] \in Row
    BY <2>2 DEF Present, Copies, Database, Tables
  <2>4. rows[k].tmux \in Ids
    BY <2>2, <2>3, RowParts
  <2> QED BY <1>2, <2>1, <2>3, <2>4 DEF Pick, Picks
<1>3. CASE rows[c] = NoRow /\ Placeholders = {}
  <2>1. PICK k \in ActiveManaged : p = [how |-> "rotate", from |-> k, row |-> rows[k]]
    BY <1>3 DEF Resolve
  <2>2. k \in Present(rows)
    BY <2>1 DEF ActiveManaged
  <2>3. k \in Ids /\ rows[k] \in Row /\ k \in seen
    BY <2>2 DEF Present, Copies, Database, Tables
  <2> QED BY <2>1, <2>3 DEF Pick, Picks
<1> QED BY <1>1, <1>2, <1>3

LEMMA StepHookRead ==
  ASSUME Copies, NEW c \in Ids, HookRead(c)
  PROVE  Copies'
<1>1. PICK p \in Resolve(c) : hook' = [hook EXCEPT ![c] = [op |-> "event", pick |-> p]]
  BY DEF HookRead
<1>2. Pick(c, p) /\ p \in Picks
  BY Resolving DEF Pick
<1>3. c \in seen
  BY DEF HookRead, Copies, Hooks, Posted, Idle
<1>4. /\ mode' = mode /\ procs' = procs /\ seen' = seen /\ convs' = convs
      /\ deleted' = deleted /\ term' = term /\ rows' = rows
      /\ call' = call /\ scan' = scan /\ probe' = probe
  BY DEF HookRead
<1>5. hook' \in [Ids -> {Idle, Posted} \cup Events]
  BY <1>1, <1>2 DEF Copies, Hooks, Events
<1>6. \A k \in Ids \ {c} : hook'[k] = hook[k]
  BY <1>1 DEF Copies, Hooks
<1>7. hook'[c] = [op |-> "event", pick |-> p]
  BY <1>1 DEF Copies, Hooks
<1>8. Hooks'
  BY <1>2, <1>3, <1>4, <1>5, <1>6, <1>7 DEF Copies, Hooks, Pick
<1> QED BY <1>4, <1>8, Frame DEF Copies

LEMMA StepHookSave ==
  ASSUME Copies, NEW c \in Ids, NEW state \in {"live", "ended"}, HookSave(c, state)
  PROVE  Copies'
<1> DEFINE p    == hook[c].pick
           next == [p.row EXCEPT !.state = state, !.cleared = FALSE]
<1>1. /\ mode' = mode /\ procs' = procs /\ seen' = seen /\ convs' = convs
      /\ deleted' = deleted /\ call' = call /\ scan' = scan /\ probe' = probe
      /\ hook' = [hook EXCEPT ![c] = Idle] /\ hook[c].op = "event"
  BY DEF HookSave
<1>2. Pick(c, p) /\ p \in Picks /\ p.row \in Row /\ p.from \in Ids /\ c \in seen
  BY <1>1 DEF Copies, Hooks, Idle, Pick, Picks
<1>3. next \in Row /\ [next EXCEPT !.managed = TRUE, !.pid = 0] \in Row
      /\ [p.row EXCEPT !.managed = FALSE, !.state = "ended", !.cleared = TRUE] \in Row
  <2>1. 0 \in 0 .. 2 * MaxProcs
    BY SessionRowsAssumption
  <2>2. next \in Row
    BY <1>2 DEF Row
  <2>3. [p.row EXCEPT !.managed = FALSE, !.state = "ended", !.cleared = TRUE] \in Row
    BY <1>2 DEF Row
  <2> HIDE DEF next
  <2>4. [next EXCEPT !.managed = TRUE, !.pid = 0] \in Row
    BY <2>1, <2>2 DEF Row
  <2> QED BY <2>2, <2>3, <2>4
<1>4. rows \in Tables /\ Present(rows) \subseteq seen /\ term \in Terms(seen)
  BY DEF Copies, Database, Server
<1>5. Hooks'
  BY <1>1 DEF Copies, Hooks, Idle, Pick
<1> HIDE DEF next
<1>6. rows' \in Tables /\ Present(rows') \subseteq seen
      /\ term' \in Terms(seen)
  <2>1. CASE p.how = "own"
    <3>1. rows' = Save(rows, c, next) /\ term' = term
      BY <2>1 DEF HookSave, next
    <3> QED BY <3>1, <1>2, <1>3, <1>4, Saving
  <2>2. CASE p.how = "adopt"
    <3> DEFINE name == NewName(term, p.row.tmux, c)
               row  == [next EXCEPT !.managed = TRUE, !.tmux = name]
    <3>1. rows' = Save(Drop(rows, {p.from}), c, row) /\ term' = Renamed(term, p.row.tmux, c)
      BY <2>2 DEF HookSave, next
    <3>2. p.row.tmux \in Ids /\ p.from # c
      BY <2>2, <1>2 DEF Pick
    <3>3. name \in Ids /\ term' \in Terms(seen)
      BY <3>1, <3>2, <1>4, Renaming
    <3>4. row \in Row
      BY <3>3, <1>3 DEF Row
    <3> HIDE DEF row
    <3> HIDE DEF name, p
    <3>5. rows' \in Tables /\ Present(rows') \subseteq Present(rows) \cup {c}
      BY <3>1, <3>2, <3>4, <1>2, <1>4, SaveOver
    <3> QED BY <3>3, <3>5, <1>2, <1>4
  <2>3. CASE p.how = "rotate"
    <3> DEFINE old   == [p.row EXCEPT !.managed = FALSE, !.state = "ended", !.cleared = TRUE]
               row   == [next EXCEPT !.managed = TRUE, !.pid = 0]
               first == Save(rows, p.from, old)
    <3>1. rows' = Save(first, c, row) /\ term' = term
      BY <2>3 DEF HookSave, next
    <3>2. p.from \in seen
      BY <2>3, <1>2 DEF Pick
    <3>3. old \in Row /\ row \in Row
      BY <1>3
    <3> HIDE DEF old, row
    <3>4. first \in Tables /\ Present(first) \subseteq seen
      BY <3>2, <3>3, <1>2, <1>4, Saving
    <3>5. first[c] = NoRow => rows[c] = NoRow
      <4>1. \A k \in Ids \ {p.from} : first[k] = rows[k]
        BY <1>4 DEF Save, Tables
      <4>2. rows[p.from] # NoRow => first[p.from] # NoRow
        BY <3>4, <3>3, <1>2, <1>4, RowIsOne, SavedIsOne
      <4> QED BY <4>1, <4>2
    <3> HIDE DEF first
    <3>6. rows' \in Tables /\ Present(rows') \subseteq Present(first) \cup {c}
      BY <3>1, <3>3, <3>4, <3>5, <1>4, Saving
    <3> QED BY <3>1, <3>4, <3>6, <1>2, <1>4
  <2> QED BY <1>2, <2>1, <2>2, <2>3 DEF Picks
<1>7. Server' /\ Database'
  BY <1>1, <1>6 DEF Server, Database, Present
<1> QED BY <1>1, <1>5, <1>6, <1>7, Frame DEF Copies

-----------------------------------------------------------------------------
LEMMA Bounds ==
  ASSUME Copies, procs < mode.procs
  PROVE  procs \in Nat /\ procs < MaxProcs /\ Pane(procs + 1) \in 0 .. 2 * MaxProcs
<1>1. mode.procs \in 0 .. MaxProcs /\ procs \in Nat
  BY SessionRowsAssumption DEF Copies, Base
<1> QED BY <1>1, Pids, SessionRowsAssumption

LEMMA StepSpawnOpen ==
  ASSUME Copies, NEW i \in Ids, SpawnOpen(i)
  PROVE  Copies'
<1> DEFINE conv == IF mode.agent = "claude-code" THEN i ELSE "blank"
<1>1. /\ mode' = mode /\ deleted' = deleted /\ rows' = rows /\ hook' = hook
      /\ scan' = scan /\ probe' = probe /\ seen' = seen \cup {i} /\ procs' = procs + 1
      /\ convs' \in {convs, convs \cup {i}}
      /\ term' = Open(term, i, conv)
      /\ call' = [op |-> "spawn", id |-> i, row |-> SpawnRow(i)]
      /\ procs < mode.procs
  BY DEF SpawnOpen
<1>2. procs \in Nat /\ procs < MaxProcs /\ Pane(procs + 1) \in 0 .. 2 * MaxProcs
  BY <1>1, Bounds
<1>3. Base'
  BY <1>1, <1>2 DEF Copies, Base
<1>4. Server'
  <2>1. term \in Terms(seen') /\ conv \in seen' \cup {"blank", "shell"}
    BY <1>1, Wider DEF Copies, Server
  <2> QED BY <1>1, <1>2, <2>1, Opening DEF Server
<1>5. SpawnRow(i) \in Row
  BY <1>2 DEF SpawnRow, Row
<1>6. CallHolds'
  BY <1>1, <1>5 DEF CallHolds
<1> QED BY <1>1, <1>3, <1>4, <1>6, Frame DEF Copies

LEMMA StepCallRead ==
  ASSUME Copies, NEW i \in Ids, CallRead(i) \/ ProbeRead(i)
  PROVE  Copies'
<1>1. rows[i] \in Row /\ i \in seen
  BY DEF CallRead, ProbeRead, Copies, Database, Tables, Present
<1>2. /\ mode' = mode /\ procs' = procs /\ seen' = seen /\ convs' = convs
      /\ deleted' = deleted /\ term' = term /\ rows' = rows /\ hook' = hook /\ scan' = scan
  BY DEF CallRead, ProbeRead
<1>3. CallHolds' /\ ProbeHolds'
  BY <1>1, <1>2 DEF CallRead, ProbeRead, Copies, CallHolds, ProbeHolds
<1> QED BY <1>2, <1>3, Frame DEF Copies

\* The copy of a call is a row under a handed out id.
LEMMA Calling ==
  ASSUME Copies, call.op \in {"spawn", "api"}
  PROVE  call.id \in seen /\ call.id \in Ids /\ call.row \in Row
BY DEF Copies, CallHolds, Idle, Base

\* A call, the scan or the liveness check has written its row.
LEMMA Writing ==
  ASSUME Copies, NEW i \in seen, NEW row \in Row
  PROVE  /\ Save(rows, i, row) \in Tables /\ Present(Save(rows, i, row)) \subseteq seen
BY Saving DEF Copies, Database, Base

LEMMA StepSave ==
  ASSUME Copies, SpawnSave \/ Touch \/ Kill \/ SwitchHeadless
  PROVE  Copies'
<1>1. /\ mode' = mode /\ procs' = procs /\ seen' = seen /\ convs' = convs
      /\ deleted' = deleted /\ hook' = hook /\ scan' = scan /\ probe' = probe
      /\ call' = Idle /\ call.op \in {"spawn", "api"}
  BY DEF SpawnSave, Touch, Kill, SwitchHeadless, Answered
<1>2. call.id \in seen /\ call.id \in Ids /\ call.row \in Row
  BY <1>1, Calling
<1>3. PICK row \in Row : rows' = Save(rows, call.id, row)
  <2>1. /\ [call.row EXCEPT !.state = "ended", !.cleared = FALSE] \in Row
        /\ [call.row EXCEPT !.managed = TRUE, !.tmux = None, !.pid = 0,
                            !.state = "live", !.cleared = FALSE] \in Row
    <3>1. 0 \in 0 .. 2 * MaxProcs
      BY SessionRowsAssumption
    <3>2. [call.row EXCEPT !.state = "ended", !.cleared = FALSE] \in Row
      BY <1>2 DEF Row
    <3>3. [call.row EXCEPT !.managed = TRUE, !.tmux = None, !.pid = 0,
                           !.state = "live", !.cleared = FALSE] \in Row
      BY <1>2, <3>1 DEF Row
    <3> QED BY <3>2, <3>3
  <2>2. rows' \in {Save(rows, call.id, call.row),
                   Save(rows, call.id, [call.row EXCEPT !.state = "ended", !.cleared = FALSE]),
                   Save(rows, call.id, [call.row EXCEPT !.managed = TRUE, !.tmux = None,
                                          !.pid = 0, !.state = "live", !.cleared = FALSE])}
    BY DEF SpawnSave, Touch, Kill, SwitchHeadless
  <2> QED BY <1>2, <2>1, <2>2
<1>4. rows' \in Tables /\ Present(rows') \subseteq seen
  BY <1>2, <1>3, Writing
<1>5. term' \in Terms(seen)
  <2>1. term \in Terms(seen)
    BY DEF Copies, Server
  <2>2. CASE term' = term
    BY <2>1, <2>2
  <2>3. CASE Kill
    BY <2>1, <2>3, Killing DEF Kill
  <2>4. CASE SwitchHeadless
    BY <2>1, <2>4, Killing DEF SwitchHeadless
  <2> QED BY <2>2, <2>3, <2>4 DEF SpawnSave, Touch
<1>6. Server' /\ Database'
  BY <1>1, <1>4, <1>5 DEF Server, Database, Present
<1>7. CallHolds'
  BY <1>1 DEF CallHolds
<1> QED BY <1>1, <1>4, <1>6, <1>7, Frame DEF Copies

LEMMA StepDelete ==
  ASSUME Copies, Delete
  PROVE  Copies'
<1>1. /\ mode' = mode /\ procs' = procs /\ seen' = seen /\ convs' = convs
      /\ hook' = hook /\ scan' = scan /\ probe' = probe
      /\ call' = Idle /\ call.op = "api" /\ deleted' = deleted \cup {call.id}
      /\ rows' = Drop(rows, {call.id})
      /\ term' = KillPid(KillName(term, Owned(call.row)), call.row.pid)
  BY DEF Delete, Answered
<1>2. Base'
  BY <1>1, Calling DEF Copies, Base
<1>3. Server'
  BY <1>1, Killing DEF Copies, Server
<1>4. Database'
  BY <1>1, Dropping DEF Copies, Database, Present
<1>5. CallHolds'
  BY <1>1 DEF CallHolds
<1> QED BY <1>1, <1>2, <1>3, <1>4, <1>5, Frame DEF Copies

LEMMA Reopening ==
  ASSUME Copies, call.op = "api", NEW tt \in Terms(seen), NEW t \in Ids, Reopen(tt, t)
  PROVE  /\ procs' \in Nat /\ term' \in Terms(seen)
         /\ rows' \in Tables /\ Present(rows') \subseteq seen
<1> DEFINE conv == IF call.id \in convs \ deleted THEN call.id ELSE "shell"
           row  == [call.row EXCEPT !.managed = TRUE, !.tmux = t, !.state = "live",
                                    !.pid = Pane(procs + 1), !.cleared = FALSE]
<1>1. /\ procs < mode.procs /\ procs' = procs + 1
      /\ term' = Open(KillName(tt, {t}), t, conv) /\ rows' = Save(rows, call.id, row)
  BY DEF Reopen
<1>2. procs \in Nat /\ procs < MaxProcs /\ Pane(procs + 1) \in 0 .. 2 * MaxProcs
  BY <1>1, Bounds
<1>3. call.id \in seen /\ call.row \in Row
  BY Calling
<1>4. row \in Row
  BY <1>2, <1>3 DEF Row
<1>5. conv \in seen \cup {"blank", "shell"}
  BY <1>3
<1>6. KillName(tt, {t}) \in Terms(seen)
  BY Killing
<1> HIDE DEF row, conv
<1> QED BY <1>1, <1>2, <1>3, <1>4, <1>5, <1>6, Opening, Writing

LEMMA StepReopen ==
  ASSUME Copies, Restart \/ Resume \/ TakeWheel
  PROVE  Copies'
<1>1. /\ mode' = mode /\ seen' = seen /\ convs' = convs
      /\ deleted' = deleted /\ hook' = hook /\ scan' = scan /\ probe' = probe
      /\ call' = Idle /\ call.op = "api"
  BY DEF Restart, Resume, TakeWheel, Answered
<1>2. call.id \in seen /\ call.id \in Ids /\ call.row \in Row /\ term \in Terms(seen)
  BY <1>1, Calling DEF Copies, Server
<1>3. NameOf(call.row, call.id) \in Ids
  BY <1>2, RowParts DEF NameOf
<1>4. /\ procs' \in Nat /\ term' \in Terms(seen)
      /\ rows' \in Tables /\ Present(rows') \subseteq seen
  <2>1. CASE Restart
    <3>1. PICK tt \in Terms(seen) : Reopen(tt, NameOf(call.row, call.id))
      BY <2>1, <1>2, Killing DEF Restart
    <3> QED BY <1>1, <1>3, <3>1, Reopening
  <2>2. CASE Resume
    BY <1>1, <1>2, <1>3, <2>2, Reopening DEF Resume
  <2>3. CASE TakeWheel /\ ~Running(call.id)
    BY <1>1, <1>2, <2>3, Reopening DEF TakeWheel
  <2>4. CASE TakeWheel /\ Running(call.id)
    <3> DEFINE row == [call.row EXCEPT !.managed = TRUE, !.tmux = call.id,
                          !.state = "live", !.pid = Pane(term[call.id].proc),
                          !.cleared = FALSE]
    <3>1. rows' = Save(rows, call.id, row) /\ term' = term /\ procs' = procs
      BY <2>4 DEF TakeWheel
    <3>2. term[call.id].proc \in 1 .. MaxProcs
      BY <2>4, <1>2, TermParts DEF Running
    <3>3. Pane(term[call.id].proc) \in 0 .. 2 * MaxProcs
      BY <3>2, Pids
    <3>4. row \in Row
      BY <3>3, <1>2 DEF Row
    <3> HIDE DEF row
    <3> QED BY <3>1, <3>4, <1>2, Writing DEF Copies, Base
  <2> QED BY <2>1, <2>2, <2>3, <2>4
<1>5. Base' /\ Server' /\ Database'
  BY <1>1, <1>4 DEF Copies, Base, Server, Database, Present
<1>6. CallHolds'
  BY <1>1 DEF CallHolds
<1> QED BY <1>1, <1>4, <1>5, <1>6, Frame DEF Copies

-----------------------------------------------------------------------------
\* The copies of a scan are a table of its own.
LEMMA Listed ==
  ASSUME Copies, scan.op = "panes"
  PROVE  /\ scan.known \in Tables /\ Present(scan.known) \subseteq seen
         /\ scan.todo \in SUBSET Ids
         /\ \A known \in Tables, t \in Ids :
              [Swept(t) EXCEPT !.known = known]
                = [op |-> "panes", known |-> known, todo |-> scan.todo \ {t}]
<1>1. scan \in [op : {"panes"}, known : Tables, todo : SUBSET Ids]
  BY DEF Copies, ScanHolds, Idle
<1>2. Present(scan.known) \subseteq seen
  BY DEF Copies, ScanHolds
<1>3. ASSUME NEW known \in Tables, NEW t \in Ids
      PROVE  [Swept(t) EXCEPT !.known = known]
               = [op |-> "panes", known |-> known, todo |-> scan.todo \ {t}]
  <2>1. Swept(t) = [op |-> "panes", known |-> scan.known, todo |-> scan.todo \ {t}]
    BY <1>1 DEF Swept
  <2> QED BY <2>1
<1> QED BY <1>1, <1>2, <1>3

LEMMA StepScanStart ==
  ASSUME Copies, ScanStart
  PROVE  Copies'
<1>1. ScanHolds'
  BY DEF ScanStart, Copies, Database, ScanHolds, Present
<1> QED BY <1>1, Frame DEF ScanStart, Copies

LEMMA StepScanGone ==
  ASSUME Copies, NEW t \in Ids, ScanGone(t)
  PROVE  Copies'
<1>1. scan' = [op |-> "panes", known |-> scan.known, todo |-> scan.todo \ {t}]
  <2>1. scan \in [op : {"panes"}, known : Tables, todo : SUBSET Ids]
    BY DEF ScanGone, Copies, ScanHolds, Idle
  <2> QED BY <2>1 DEF ScanGone, Swept
<1>2. ScanHolds'
  BY <1>1, Listed DEF ScanGone, ScanHolds, Present
<1> QED BY <1>2, Frame DEF ScanGone, Copies

LEMMA StepScanDeadShell ==
  ASSUME Copies, NEW t \in Ids, ScanDeadShell(t)
  PROVE  Copies'
<1>1. /\ mode' = mode /\ procs' = procs /\ seen' = seen /\ convs' = convs
      /\ deleted' = deleted /\ term' = term /\ hook' = hook /\ call' = call
      /\ probe' = probe /\ scan.op = "panes"
  BY DEF ScanDeadShell
<1>2. scan \in [op : {"panes"}, known : Tables, todo : SUBSET Ids]
      /\ Present(scan.known) \subseteq seen
  BY <1>1 DEF Copies, ScanHolds, Idle
<1>3. CASE rows' = rows /\ scan' = Swept(t)
  <2>1. scan' = [op |-> "panes", known |-> scan.known, todo |-> scan.todo \ {t}]
    BY <1>2, <1>3 DEF Swept
  <2>2. ScanHolds'
    BY <1>1, <1>2, <2>1 DEF ScanHolds, Present
  <2> QED BY <1>1, <1>3, <2>2, Frame DEF Copies
<1>4. ASSUME NEW i \in RowsOf(scan.known, t), scan.known[i].state # "ended",
             rows' = Save(rows, i, [scan.known[i] EXCEPT !.state = "ended", !.pid = 0,
                                                         !.cleared = FALSE]),
             scan' = [Swept(t) EXCEPT !.known[i] =
                        [scan.known[i] EXCEPT !.state = "ended", !.pid = 0,
                                              !.cleared = FALSE]]
      PROVE  Copies'
  <2> DEFINE end == [scan.known[i] EXCEPT !.state = "ended", !.pid = 0, !.cleared = FALSE]
  <2>1. i \in Ids /\ scan.known[i] # NoRow
    BY <1>4 DEF RowsOf, Present
  <2>2. scan.known[i] \in Row /\ i \in seen
    BY <1>2, <2>1 DEF Tables, Present
  <2>3. end \in Row
    <3>1. 0 \in 0 .. 2 * MaxProcs
      BY SessionRowsAssumption
    <3> QED BY <2>2, <3>1 DEF Row
  <2> HIDE DEF end
  <2>4. Database'
    BY <1>1, <1>4, <2>2, <2>3, Writing DEF end, Database, Present
  <2>5. scan' = [op |-> "panes", known |-> [scan.known EXCEPT ![i] = end],
                 todo |-> scan.todo \ {t}]
    BY <1>2, <1>4 DEF Swept, end
  <2>6. ScanHolds'
    BY <1>1, <1>2, <2>2, <2>3, <2>5 DEF ScanHolds, Tables, Present
  <2> QED BY <1>1, <2>4, <2>6, Frame DEF Copies
<1> QED BY <1>3, <1>4 DEF ScanDeadShell

LEMMA Reconciling ==
  ASSUME Copies, scan.op = "panes", NEW t \in Ids, Running(t)
  PROVE  LET r == Reconciled(t) IN
         /\ r.term \in Terms(seen) /\ r.name \in Ids /\ r.id \in Ids
         /\ r.rows \in Tables /\ Present(r.rows) \subseteq seen
         /\ r.known \in Tables /\ Present(r.known) \subseteq seen
         /\ r.term[r.name].proc \in 1 .. MaxProcs
         /\ r.rows = rows \/ r.known[r.id] = NoRow \/ r.rows[r.id] # NoRow
         /\ r.known[r.id] = NoRow => r.rows = rows
<1> DEFINE c     == term[t].conv
           name  == NewName(term, t, c)
           known == scan.known
           real  == IF known[c] # NoRow
                    THEN IF known[t] # NoRow
                         THEN [known[c] EXCEPT !.managed = TRUE, !.pid = Cli(term[t].proc),
                                               !.tmux = name]
                         ELSE [known[c] EXCEPT !.tmux = name]
                    ELSE IF known[t] # NoRow THEN [known[t] EXCEPT !.tmux = name]
                    ELSE NoRow
<1>1. known \in Tables /\ Present(known) \subseteq seen
  BY Listed
<1>2. term \in Terms(seen) /\ rows \in Tables /\ Present(rows) \subseteq seen
  BY DEF Copies, Server, Database
<1>3. term[t].proc \in 1 .. MaxProcs
  BY <1>2, TermParts DEF Running
<1>4. CASE mode.agent = "antigravity" /\ c \in Ids /\ c # t
  <2> DEFINE after == IF real = NoRow THEN rows ELSE Save(Drop(rows, {t}), c, real)
             left  == [known EXCEPT ![t] = NoRow, ![c] = real]
  <2>1. Reconciled(t) = [term |-> Renamed(term, t, c), name |-> name, id |-> c,
                         rows |-> after, known |-> left]
    BY <1>4 DEF Reconciled
  <2>2. c \in seen
    BY <1>2, <1>4, TermParts, SessionRowsAssumption
  <2>3. /\ Renamed(term, t, c) \in Terms(seen) /\ name \in Ids
        /\ Renamed(term, t, c)[name] = term[t]
    BY <1>2, <1>4, Renaming
  <2>4. Cli(term[t].proc) \in 0 .. 2 * MaxProcs
    BY <1>3, Pids
  <2>5. real = NoRow \/ real \in Row
    <3> HIDE DEF name
    <3>1. known[c] \in Row \cup {NoRow} /\ known[t] \in Row \cup {NoRow}
      BY <1>1, <1>4 DEF Tables
    <3>2. CASE known[c] # NoRow /\ known[t] # NoRow
      BY <2>3, <2>4, <3>1, <3>2 DEF Row
    <3>3. CASE known[c] # NoRow /\ known[t] = NoRow
      BY <2>3, <3>1, <3>3 DEF Row
    <3>4. CASE known[c] = NoRow
      BY <2>3, <3>1, <3>4 DEF Row
    <3> QED BY <3>2, <3>3, <3>4
  <2> HIDE DEF real, name
  <2>6. after \in Tables /\ Present(after) \subseteq seen
        /\ (real = NoRow => after = rows) /\ (real # NoRow => after[c] # NoRow)
    <3>1. CASE real = NoRow
      BY <3>1, <1>2
    <3>2. CASE real # NoRow
      <4>1. Drop(rows, {t}) \in Tables
        BY <1>2, Dropping
      <4>2. c # t /\ c \in Ids /\ real \in Row /\ after = Save(Drop(rows, {t}), c, real)
        BY <3>2, <2>5, <1>4
      <4> HIDE DEF c, after
      <4>3. after \in Tables /\ Present(after) \subseteq Present(rows) \cup {c}
        BY <4>2, <1>2, SaveOver
      <4>4. after[c] # NoRow
        BY <4>1, <4>2, SavedIsOne
      <4> QED BY <3>2, <4>3, <4>4, <2>2, <1>2
    <3> QED BY <3>1, <3>2
  <2>7. left \in Tables /\ Present(left) \subseteq seen /\ left[c] = real
    BY <1>1, <1>4, <2>2, <2>5 DEF Tables, Present
  <2> HIDE DEF after, left
  <2> QED BY <1>3, <1>4, <2>1, <2>3, <2>6, <2>7
<1>5. CASE ~(mode.agent = "antigravity" /\ c \in Ids /\ c # t)
  <2>1. Reconciled(t) = [term |-> term, name |-> t, id |-> t, rows |-> rows,
                         known |-> known]
    BY <1>5 DEF Reconciled
  <2> QED BY <1>1, <1>2, <1>3, <2>1
<1> QED BY <1>4, <1>5

LEMMA StepScanPane ==
  ASSUME Copies, NEW t \in Ids, ScanPane(t)
  PROVE  Copies'
<1> DEFINE r == Reconciled(t)
           owners == IF r.known[r.id] # NoRow THEN {r.id}
                     ELSE {i \in Present(r.known) : r.known[i].tmux = r.name}
<1>1. /\ mode' = mode /\ procs' = procs /\ seen' = seen /\ convs' = convs
      /\ deleted' = deleted /\ hook' = hook /\ call' = call
      /\ probe' = probe /\ scan.op = "panes" /\ Running(t)
  BY DEF ScanPane
<1>2. /\ r.term \in Terms(seen) /\ r.name \in Ids /\ r.id \in Ids
      /\ r.rows \in Tables /\ Present(r.rows) \subseteq seen
      /\ r.known \in Tables /\ Present(r.known) \subseteq seen
      /\ r.term[r.name].proc \in 1 .. MaxProcs
      /\ r.rows = rows \/ r.known[r.id] = NoRow \/ r.rows[r.id] # NoRow
      /\ r.known[r.id] = NoRow => r.rows = rows
  BY <1>1, Reconciling
<1>3. \/ /\ term' \in {r.term, KillName(r.term, {r.name})} /\ rows' = r.rows
         /\ scan' = [Swept(t) EXCEPT !.known = r.known]
      \/ /\ term' = r.term
         /\ \E i \in owners : /\ rows' = Adopted(r, i).rows
                              /\ scan' = [Swept(t) EXCEPT !.known = Adopted(r, i).known]
  BY DEF ScanPane
<1>4. rows \in Tables
  BY DEF Copies, Database
<1> HIDE DEF r
<1>5. term' \in Terms(seen)
  BY <1>2, <1>3, Killing
<1>6. ASSUME NEW i \in owners
      PROVE  /\ Adopted(r, i).rows \in Tables /\ Present(Adopted(r, i).rows) \subseteq seen
             /\ Adopted(r, i).known \in Tables /\ Present(Adopted(r, i).known) \subseteq seen
  <2> DEFINE cli  == Cli(r.term[r.name].proc)
             kept == [r.known[i] EXCEPT !.managed = TRUE, !.pid = cli, !.tmux = r.name,
                         !.state = IF @ \in {"ended", "unknown"} THEN "live" ELSE @,
                         !.cleared = FALSE]
             twins == {k \in Present(r.known) \ {i} :
                         r.known[k].tmux = r.name \/ r.known[k].pid = cli}
  <2>1. Adopted(r, i) = [rows |-> Drop(Save(r.rows, i, kept), twins),
                         known |-> [Drop(r.known, twins) EXCEPT ![i] = kept]]
    BY DEF Adopted
  <2>2. i \in Present(r.known) /\ i \in seen /\ i \in Ids /\ r.known[i] \in Row
    BY <1>2 DEF Present, Tables
  <2>3. r.rows[i] = NoRow => rows[i] = NoRow
    BY <1>2
  <2>4. cli \in 0 .. 2 * MaxProcs
    BY <1>2, Pids
  <2> HIDE DEF cli
  <2>5. kept \in Row
    BY <1>2, <2>2, <2>4 DEF Row
  <2> HIDE DEF kept, twins
  <2>6. /\ Save(r.rows, i, kept) \in Tables /\ Present(Save(r.rows, i, kept)) \subseteq seen
    BY ZenonT(40), <1>2, <1>4, <2>2, <2>3, <2>5, Saving
  <2>7. /\ Drop(Save(r.rows, i, kept), twins) \in Tables
        /\ Present(Drop(Save(r.rows, i, kept), twins)) \subseteq seen
    BY <1>4, <2>6, Dropping
  <2>8. Drop(r.known, twins) \in Tables /\ Present(Drop(r.known, twins)) \subseteq seen
    BY <1>2, Dropping
  <2>9. /\ [Drop(r.known, twins) EXCEPT ![i] = kept] \in Tables
        /\ Present([Drop(r.known, twins) EXCEPT ![i] = kept]) \subseteq seen
    BY <2>2, <2>5, <2>8 DEF Tables, Present
  <2> QED BY <2>1, <2>7, <2>9
<1>7. PICK known \in Tables : /\ Present(known) \subseteq seen
                              /\ scan' = [Swept(t) EXCEPT !.known = known]
  BY <1>2, <1>3, <1>6
<1>8. rows' \in Tables /\ Present(rows') \subseteq seen
  BY <1>2, <1>3, <1>6
<1>9. ScanHolds'
  <2>1. scan' = [op |-> "panes", known |-> known, todo |-> scan.todo \ {t}]
    BY <1>1, <1>7, Listed
  <2> QED BY <1>1, <1>7, <2>1, Listed DEF ScanHolds, Present
<1> QED BY <1>1, <1>5, <1>8, <1>9, Frame DEF Copies, Server, Database, Present

\* A placeholder has no conversation of its own, so it is no lost one.
LEMMA StepScanDisk ==
  ASSUME Copies, ScanDisk
  PROVE  Copies'
<1>1. /\ mode' = mode /\ procs' = procs /\ seen' = seen /\ convs' = convs
      /\ deleted' = deleted /\ hook' = hook /\ call' = call
      /\ probe' = probe /\ scan' = Idle
  BY DEF ScanDisk
<1>2. ScanHolds'
  BY <1>1 DEF ScanHolds, Idle
<1>3. CASE rows' = rows /\ term' = term
  BY <1>1, <1>2, <1>3, Frame DEF Copies
<1>4. ASSUME mode.agent = "antigravity", NEW c \in convs \ deleted, NEW p \in Placeholders,
             term' = Renamed(term, rows[p].tmux, c),
             rows' = Save(Drop(rows, {p}), c,
                          [rows[p] EXCEPT !.tmux = NewName(term, rows[p].tmux, c)])
      PROVE  Copies'
  <2>1. p \in Present(rows) /\ rows[p].tmux # None /\ p \notin convs \ deleted
    BY <1>4 DEF Placeholders, Newest
  <2>2. p \in Ids /\ rows[p] \in Row /\ c \in Ids /\ c \in seen /\ c # p
    BY <2>1 DEF Present, Copies, Database, Tables, Base
  <2>3. rows[p].tmux \in Ids
    BY <2>1, <2>2, RowParts
  <2>4. term \in Terms(seen) /\ rows \in Tables /\ Present(rows) \subseteq seen
    BY DEF Copies, Server, Database
  <2>5. term' \in Terms(seen) /\ NewName(term, rows[p].tmux, c) \in Ids
    BY <1>4, <2>2, <2>3, <2>4, Renaming
  <2> DEFINE row == [rows[p] EXCEPT !.tmux = NewName(term, rows[p].tmux, c)]
  <2>6. row \in Row
    BY <2>2, <2>5 DEF Row
  <2> HIDE DEF row
  <2>7. rows' \in Tables /\ Present(rows') \subseteq seen
    <3>1. c # p /\ rows' = Save(Drop(rows, {p}), c, row)
      BY <1>4, <2>2 DEF row
    <3>2. rows' \in Tables /\ Present(rows') \subseteq Present(rows) \cup {c}
      BY <3>1, <2>2, <2>4, <2>6, SaveOver
    <3> QED BY <3>2, <2>2, <2>4
  <2> QED BY <1>1, <1>2, <2>5, <2>7, Frame DEF Copies, Server, Database, Present
<1> QED BY <1>3, <1>4 DEF ScanDisk

LEMMA StepProbeSave ==
  ASSUME Copies, ProbeSave
  PROVE  Copies'
<1>1. /\ mode' = mode /\ procs' = procs /\ seen' = seen /\ convs' = convs
      /\ deleted' = deleted /\ hook' = hook /\ call' = call
      /\ term' = term /\ scan' = scan /\ probe' = Idle
  BY DEF ProbeSave
<1> DEFINE row == [probe.row EXCEPT !.state = "ended", !.pid = 0, !.cleared = FALSE]
<1>2. probe.id \in seen /\ probe.row \in Row
  BY DEF ProbeSave, Copies, ProbeHolds, Idle
<1>3. row \in Row
  <2>1. 0 \in 0 .. 2 * MaxProcs
    BY SessionRowsAssumption
  <2> QED BY <1>2, <2>1 DEF Row
<1>4. rows' = rows \/ rows' = Save(rows, probe.id, row)
  BY DEF ProbeSave
<1> HIDE DEF row
<1>5. ProbeHolds'
  BY <1>1 DEF ProbeHolds
<1>6. Database'
  BY <1>1, <1>2, <1>3, <1>4, Writing, Frame DEF Database, Present
<1> QED BY <1>1, <1>5, <1>6, Frame DEF Copies

-----------------------------------------------------------------------------
LEMMA Step ==
  ASSUME Copies, [Advance]_vars
  PROVE  Copies'
<1>1. CASE UNCHANGED vars
  BY <1>1, Frame DEF vars, Copies
<1>2. CASE \E t, c \in Ids : OpenConversation(t, c)
  BY <1>2, StepOpenConversation
<1>3. CASE \E t \in Ids : CliExits(t)
  BY <1>3, StepCliExits
<1>4. CASE \E c \in Ids : Post(c) \/ HookIgnored(c) \/ HookRead(c) \/ HookDo(c)
  BY <1>4, StepPost, StepHookRead, StepHookSave DEF HookDo
<1>5. CASE \E i \in Ids : SpawnOpen(i) \/ CallRead(i) \/ ProbeRead(i)
  BY <1>5, StepSpawnOpen, StepCallRead
<1>6. CASE CallDo
  BY <1>6, StepSave, StepDelete, StepReopen DEF CallDo
<1>7. CASE ScanStep
  BY <1>7, StepScanStart, StepScanDisk, StepScanDeadShell, StepScanGone, StepScanPane
  DEF ScanStep
<1>8. CASE ProbeSave
  BY <1>8, StepProbeSave
<1> QED BY <1>1, <1>2, <1>3, <1>4, <1>5, <1>6, <1>7, <1>8 DEF Advance

\* What a step of a handler does not do: it leaves the overtaken call alone.
LEMMA ParkedStays ==
  ASSUME Copies, [Advance]_vars
  PROVE  parked' = parked /\ seen \subseteq seen'
<1> USE DEF vars, OpenConversation, CliExits, Post, HookIgnored, HookRead, HookDo, HookSave,
      SpawnOpen, CallRead, ProbeRead, CallDo, SpawnSave, Touch, Kill, Delete,
      Restart, Resume, TakeWheel, SwitchHeadless, ScanStep, ScanStart, ScanDisk,
      ScanDeadShell, ScanGone, ScanPane, ProbeSave
<1>1. parked' = parked
  BY DEF Advance
<1>2. seen \subseteq seen'
  BY DEF Advance
<1> QED BY <1>1, <1>2

\* The overtaken call is one like any other.
ParkedHolds == parked \in {Idle} \cup [op : {"spawn", "api"}, id : seen, row : Row]

LEMMA Switched ==
  ASSUME Copies, ParkedHolds, Switch
  PROVE  Copies' /\ ParkedHolds'
<1>1. /\ mode' = mode /\ procs' = procs /\ seen' = seen /\ convs' = convs
      /\ deleted' = deleted /\ term' = term /\ rows' = rows /\ hook' = hook
      /\ scan' = scan /\ probe' = probe /\ call' = parked /\ parked' = call
  BY DEF Switch
<1>2. CallHolds' /\ ParkedHolds'
  BY <1>1 DEF Copies, CallHolds, ParkedHolds
<1> QED BY <1>1, <1>2, Frame DEF Copies

LEMMA BothStep ==
  ASSUME Copies, ParkedHolds, [Next]_vars
  PROVE  Copies' /\ ParkedHolds'
<1>1. CASE [Advance]_vars
  BY <1>1, Step, ParkedStays DEF ParkedHolds
<1> QED BY <1>1, Switched DEF Next

LEMMA Inductive == Spec => [](Copies /\ ParkedHolds)
<1>1. Init => Copies /\ ParkedHolds
  BY CopiesInit DEF Init, ParkedHolds
<1>2. (Copies /\ ParkedHolds) /\ [Next]_vars => (Copies /\ ParkedHolds)'
  BY BothStep
<1> QED BY <1>1, <1>2, PTL DEF Spec

(* Rows, terminals and the sets of ids keep their types: no writer saves a *)
(* row that is half another's, and no terminal holds an unknown id.        *)
THEOREM Typing == Spec => []TypeOK
BY Inductive, CopiesType, PTL

-----------------------------------------------------------------------------
(***************************************************************************)
(* Writers that take turns: at most one is at work, and what it has loaded *)
(* is what the table holds.                                                *)
(***************************************************************************)
At(c) == hook[c].op = "event"
Nobody == call = Idle /\ scan = Idle /\ probe = Idle /\ \A c \in Ids : ~At(c)

Alone ==
  /\ \A c \in Ids : At(c) => /\ call = Idle /\ scan = Idle /\ probe = Idle
                             /\ \A k \in Ids \ {c} : ~At(k)
  /\ call # Idle => scan = Idle /\ probe = Idle
  /\ scan # Idle => probe = Idle

Loaded(c, p) ==
  /\ rows[p.from] = p.row
  /\ p.how = "own" => p.from = c
  /\ p.how # "own" => rows[c] = NoRow

Fresh ==
  /\ \A c \in Ids : At(c) => Loaded(c, hook[c].pick)
  /\ call.op = "api" => rows[call.id] = call.row
  /\ call.op = "spawn" => rows[call.id] = NoRow
  /\ scan.op = "panes" => scan.known = rows
  /\ probe.op = "probe" => rows[probe.id] = probe.row

Turns == mode.agent = "claude-code" /\ mode.writers = 1
Taking == Turns => Alone /\ Fresh

LEMMA Nobodys == Nobody => Alone /\ Fresh
BY DEF Nobody, Alone, Fresh, Idle

LEMMA Admits ==
  ASSUME mode.writers = 1, Alone, Admitted
  PROVE  Nobody
<1> DEFINE E == {c \in Ids : hook[c].op = "event"}
           A == {<<"call", call>>, <<"parked", parked>>, <<"scan", scan>>, <<"probe", probe>>}
           W == {w \in A : w[2] # Idle}
<1>1. IsFiniteSet(E)
  <2>1. CASE E = {}
    BY <2>1, FS_EmptySet
  <2>2. ASSUME NEW c \in E PROVE IsFiniteSet(E)
    <3>1. E = {c}
      BY <2>2 DEF Alone, At
    <3> QED BY <3>1, FS_Singleton
  <2> QED BY <2>1, <2>2
<1>2. IsFiniteSet(W)
  <2>1. IsFiniteSet({<<"call", call>>}) /\ IsFiniteSet({<<"parked", parked>>})
        /\ IsFiniteSet({<<"scan", scan>>}) /\ IsFiniteSet({<<"probe", probe>>})
    BY FS_Singleton
  <2> DEFINE calling == {<<"call", call>>} \cup {<<"parked", parked>>}
             passing == {<<"scan", scan>>} \cup {<<"probe", probe>>}
  <2>2. A = calling \cup passing
    OBVIOUS
  <2>3. IsFiniteSet(calling) /\ IsFiniteSet(passing)
    BY ZenonT(40), <2>1, FS_Union
  <2> HIDE DEF calling, passing
  <2>4. IsFiniteSet(A)
    BY ZenonT(40), <2>2, <2>3, FS_Union
  <2> QED BY <2>4, FS_Subset
<1>3. Cardinality(E) + Cardinality(W) < 1
  BY DEF Admitted
<1>4. Cardinality(E) \in Nat /\ Cardinality(W) \in Nat
  BY <1>1, <1>2, FS_CardinalityType
<1>5. Cardinality(E) = 0 /\ Cardinality(W) = 0
  BY <1>3, <1>4
<1>6. E = {} /\ W = {}
  BY <1>1, <1>2, <1>5, FS_EmptySet
<1>7. <<"call", call>>[2] = Idle /\ <<"scan", scan>>[2] = Idle /\ <<"probe", probe>>[2] = Idle
  BY <1>6
<1> QED BY <1>6, <1>7 DEF Nobody, At

\* A save writes the row as it is.
LEMMA SaveSame ==
  ASSUME NEW table, NEW i, NEW row
  PROVE  Save(table, i, row) = [table EXCEPT ![i] = row]
BY DEF Save

-----------------------------------------------------------------------------
LEMMA TurnsOfOthers ==
  ASSUME Copies, Turns, Alone, Fresh, UNCHANGED <<rows, call, scan, probe>>,
         \A c \in Ids : hook'[c] = hook[c] \/ hook'[c] \in {Idle, Posted}
  PROVE  Alone' /\ Fresh'
<1>1. \A c \in Ids : At(c)' => At(c) /\ hook'[c] = hook[c]
  BY DEF At, Idle, Posted
<1>2. Alone'
  BY <1>1 DEF Alone
<1>3. Fresh'
  BY <1>1 DEF Fresh, Loaded
<1> QED BY <1>2, <1>3

LEMMA TurnsHookRead ==
  ASSUME Copies, Turns, Alone, Fresh, NEW c \in Ids, HookRead(c)
  PROVE  Alone' /\ Fresh'
<1>1. Nobody
  BY Admits DEF Turns, HookRead
<1>2. PICK p \in Resolve(c) : hook' = [hook EXCEPT ![c] = [op |-> "event", pick |-> p]]
  BY DEF HookRead
<1>3. UNCHANGED <<rows, call, scan, probe>>
  BY DEF HookRead
<1>4. hook'[c] = [op |-> "event", pick |-> p] /\ \A k \in Ids \ {c} : hook'[k] = hook[k]
  BY <1>2 DEF Copies, Hooks
<1>5. Loaded(c, p)
  BY DEF Resolve, Loaded
<1>6. Alone'
  BY <1>1, <1>3, <1>4 DEF Nobody, Alone, At
<1>7. Fresh'
  BY <1>1, <1>3, <1>4, <1>5 DEF Nobody, Fresh, At, Idle, Loaded
<1> QED BY <1>6, <1>7

\* The writer at work is done.
LEMMA TurnsDone ==
  ASSUME Copies, Turns, Alone, Fresh,
         \/ CallDo \/ ProbeSave \/ ScanDisk
         \/ \E c \in Ids : HookDo(c)
  PROVE  Nobody'
<1>1. CASE CallDo
  <2>1. call # Idle /\ call' = Idle /\ UNCHANGED <<hook, scan, probe>>
    BY <1>1 DEF CallDo, SpawnSave, Touch, Kill, Delete, Restart, Resume,
       TakeWheel, SwitchHeadless, Answered, Idle
  <2> QED BY <2>1 DEF Alone, Nobody, At
<1>2. CASE ProbeSave
  BY <1>2 DEF ProbeSave, Alone, Nobody, At, Idle
<1>3. CASE ScanDisk
  BY <1>3 DEF ScanDisk, Alone, Nobody, At, Idle
<1>4. ASSUME NEW c \in Ids, HookDo(c) PROVE Nobody'
  <2>1. At(c) /\ hook' = [hook EXCEPT ![c] = Idle] /\ UNCHANGED <<call, scan, probe>>
    BY <1>4 DEF HookDo, HookSave, At
  <2> QED BY <2>1 DEF Alone, Nobody, At, Idle, Copies, Hooks
<1> QED BY <1>1, <1>2, <1>3, <1>4

LEMMA TurnsStart ==
  ASSUME Copies, Turns, Alone, Fresh,
         \/ ScanStart \/ \E i \in Ids : SpawnOpen(i) \/ CallRead(i) \/ ProbeRead(i)
  PROVE  Nobody /\ Alone' /\ Fresh' /\ rows' = rows /\ hook' = hook
<1>1. Nobody /\ rows' = rows /\ hook' = hook
  BY Admits DEF Turns, ScanStart, SpawnOpen, CallRead, ProbeRead
<1>2. CASE ScanStart
  BY <1>1, <1>2 DEF ScanStart, Nobody, Alone, Fresh, At, Idle
<1>3. ASSUME NEW i \in Ids, SpawnOpen(i) \/ CallRead(i) PROVE Alone' /\ Fresh'
  <2>1. SpawnOpen(i) => rows[i] = NoRow
    BY DEF SpawnOpen, Copies, Database, Present
  <2> QED BY <1>1, <1>3, <2>1 DEF SpawnOpen, CallRead, Nobody, Alone, Fresh, At, Idle
<1>4. ASSUME NEW i \in Ids, ProbeRead(i) PROVE Alone' /\ Fresh'
  BY <1>1, <1>4 DEF ProbeRead, Nobody, Alone, Fresh, At, Idle
<1> QED BY <1>1, <1>2, <1>3, <1>4

-----------------------------------------------------------------------------
(***************************************************************************)
(* The scan, for an agent whose rows it does not rename: it ends a row, or *)
(* ties one to the pane and drops those that share its terminal or process.*)
(***************************************************************************)
Ended(row) == [row EXCEPT !.state = "ended", !.pid = 0, !.cleared = FALSE]
Tied(i, t) == [rows[i] EXCEPT !.managed = TRUE, !.pid = Cli(term[t].proc), !.tmux = t,
                 !.state = IF @ \in {"ended", "unknown"} THEN "live" ELSE @,
                 !.cleared = FALSE]
Twins(i, t) == {k \in Present(rows) \ {i} :
                  rows[k].tmux = t \/ rows[k].pid = Cli(term[t].proc)}
Owners(t) == IF rows[t] # NoRow THEN {t} ELSE {i \in Present(rows) : rows[i].tmux = t}

LEMMA EndedIsRow ==
  ASSUME NEW row \in Row
  PROVE  Ended(row) \in Row
<1>1. 0 \in 0 .. 2 * MaxProcs
  BY SessionRowsAssumption
<1> QED BY <1>1 DEF Ended, Row

LEMMA ScanEnds ==
  ASSUME Copies, Fresh, NEW t \in Ids, ScanDeadShell(t)
  PROVE  /\ scan' = [op |-> "panes", known |-> rows', todo |-> scan.todo \ {t}]
         /\ rows' = rows \/ \E i \in Present(rows) : rows' = [rows EXCEPT ![i] = Ended(rows[i])]
<1>1. scan.op = "panes" /\ scan.known = rows /\ rows \in Tables
  BY DEF ScanDeadShell, Fresh, Copies, Database
<1>2. \A known \in Tables : [Swept(t) EXCEPT !.known = known]
                              = [op |-> "panes", known |-> known, todo |-> scan.todo \ {t}]
  BY <1>1, Listed
<1>3. scan \in [op : {"panes"}, known : Tables, todo : SUBSET Ids]
      /\ Swept(t) = [op |-> "panes", known |-> rows, todo |-> scan.todo \ {t}]
  BY <1>1 DEF Swept, Copies, ScanHolds, Idle
<1>4. CASE rows' = rows /\ scan' = Swept(t)
  BY <1>3, <1>4
<1>5. ASSUME NEW i \in RowsOf(rows, t), rows[i].state # "ended",
             rows' = Save(rows, i, Ended(rows[i])),
             scan' = [Swept(t) EXCEPT !.known[i] = Ended(rows[i])]
      PROVE  /\ scan' = [op |-> "panes", known |-> rows', todo |-> scan.todo \ {t}]
             /\ i \in Present(rows) /\ rows' = [rows EXCEPT ![i] = Ended(rows[i])]
  <2>1. i \in Present(rows) /\ i \in Ids /\ rows[i] \in Row
    BY <1>1, <1>5 DEF RowsOf, Present, Tables
  <2>2. Ended(rows[i]) \in Row
    BY <2>1, EndedIsRow
  <2>3. rows' = [rows EXCEPT ![i] = Ended(rows[i])]
    BY <1>1, <1>5, <2>1, <2>2, SaveSame
  <2>4. scan' = [op |-> "panes", known |-> [rows EXCEPT ![i] = Ended(rows[i])],
                 todo |-> scan.todo \ {t}]
    BY <1>1, <1>3, <1>5 DEF Swept
  <2> QED BY <2>1, <2>3, <2>4
<1>6. \/ rows' = rows /\ scan' = Swept(t)
      \/ \E i \in RowsOf(rows, t) : /\ rows[i].state # "ended"
                                    /\ rows' = Save(rows, i, Ended(rows[i]))
                                    /\ scan' = [Swept(t) EXCEPT !.known[i] = Ended(rows[i])]
  BY <1>1 DEF ScanDeadShell, Ended
<1> QED BY <1>4, <1>5, <1>6

LEMMA ScanTies ==
  ASSUME Copies, Turns, Fresh, NEW t \in Ids, ScanPane(t)
  PROVE  /\ scan' = [op |-> "panes", known |-> rows', todo |-> scan.todo \ {t}]
         /\ \/ rows' = rows /\ term' \in {term, KillName(term, {t})}
            \/ /\ term' = term
               /\ \E i \in Owners(t) :
                    /\ i \in Present(rows) /\ Tied(i, t) \in Row
                    /\ rows' = [Drop(rows, Twins(i, t)) EXCEPT ![i] = Tied(i, t)]
<1>1. scan.op = "panes" /\ scan.known = rows /\ rows \in Tables /\ Running(t)
  BY DEF ScanPane, Fresh, Copies, Database
<1>2. \A known \in Tables : [Swept(t) EXCEPT !.known = known]
                              = [op |-> "panes", known |-> known, todo |-> scan.todo \ {t}]
  BY <1>1, Listed
<1>3. Reconciled(t) = [term |-> term, name |-> t, id |-> t, rows |-> rows, known |-> rows]
  BY <1>1 DEF Reconciled, Turns
<1>4. CASE rows' = rows /\ scan' = [Swept(t) EXCEPT !.known = rows]
           /\ term' \in {term, KillName(term, {t})}
  BY <1>1, <1>2, <1>4
<1>5. ASSUME NEW i \in Owners(t), term' = term,
             rows' = Adopted(Reconciled(t), i).rows,
             scan' = [Swept(t) EXCEPT !.known = Adopted(Reconciled(t), i).known]
      PROVE  /\ scan' = [op |-> "panes", known |-> rows', todo |-> scan.todo \ {t}]
             /\ i \in Present(rows) /\ Tied(i, t) \in Row
             /\ rows' = [Drop(rows, Twins(i, t)) EXCEPT ![i] = Tied(i, t)]
  <2>1. i \in Present(rows) /\ i \in Ids /\ rows[i] \in Row /\ i \notin Twins(i, t)
    BY <1>1 DEF Owners, Present, Tables, Twins
  <2>2. term[t].proc \in 0 .. MaxProcs /\ term[t].proc > 0
    BY <1>1, TermParts DEF Copies, Server, Running
  <2>3. Cli(term[t].proc) \in 0 .. 2 * MaxProcs
    BY <2>2, Pids, SessionRowsAssumption
  <2>4. Tied(i, t) \in Row
    BY <2>1, <2>3 DEF Tied, Row
  <2>5. Adopted(Reconciled(t), i)
          = [rows |-> Drop(Save(rows, i, Tied(i, t)), Twins(i, t)),
             known |-> [Drop(rows, Twins(i, t)) EXCEPT ![i] = Tied(i, t)]]
    BY <1>3 DEF Adopted, Tied, Twins
  <2>6. Save(rows, i, Tied(i, t)) = [rows EXCEPT ![i] = Tied(i, t)]
    BY <1>1, <2>1, <2>4, SaveSame
  <2>7. Drop([rows EXCEPT ![i] = Tied(i, t)], Twins(i, t))
          = [Drop(rows, Twins(i, t)) EXCEPT ![i] = Tied(i, t)]
    BY <1>1, <2>1 DEF Drop, Tables
  <2>8. [Drop(rows, Twins(i, t)) EXCEPT ![i] = Tied(i, t)] \in Tables
    BY <1>1, <2>1, <2>4, Dropping DEF Tables
  <2>9. rows' = [Drop(rows, Twins(i, t)) EXCEPT ![i] = Tied(i, t)]
    BY <1>5, <2>5, <2>6, <2>7
  <2>10. scan' = [Swept(t) EXCEPT !.known = rows']
    BY <1>5, <2>5, <2>9
  <2> QED BY <1>2, <2>1, <2>4, <2>8, <2>9, <2>10
<1>6. \/ rows' = rows /\ scan' = [Swept(t) EXCEPT !.known = rows]
         /\ term' \in {term, KillName(term, {t})}
      \/ /\ term' = term
         /\ \E i \in Owners(t) : /\ rows' = Adopted(Reconciled(t), i).rows
                                 /\ scan' = [Swept(t) EXCEPT !.known = Adopted(Reconciled(t), i).known]
  BY <1>1, <1>3 DEF ScanPane, Owners
<1> QED BY <1>4, <1>5, <1>6

LEMMA TurnsScan ==
  ASSUME Copies, Turns, Alone, Fresh, NEW t \in Ids,
         ScanDeadShell(t) \/ ScanGone(t) \/ ScanPane(t)
  PROVE  Alone' /\ Fresh'
<1>1. scan.op = "panes" /\ UNCHANGED <<hook, call, probe>>
  BY DEF ScanDeadShell, ScanGone, ScanPane
<1>0. call = Idle /\ probe = Idle /\ \A c \in Ids : ~At(c)
  BY <1>1 DEF Alone, Idle
<1>2. scan' = [op |-> "panes", known |-> rows', todo |-> scan.todo \ {t}]
  <2>1. CASE ScanGone(t)
    BY <2>1 DEF ScanGone, Swept, Copies, ScanHolds, Idle, Fresh
  <2> QED BY <2>1, ScanEnds, ScanTies
<1> QED BY <1>0, <1>1, <1>2 DEF Alone, Fresh, At, Idle

LEMMA TurnsStep ==
  ASSUME Copies, Taking, [Advance]_vars
  PROVE  Taking'
<1>1. mode' = mode
  BY DEF Advance, vars, OpenConversation, CliExits, Post, HookIgnored, HookRead, HookDo, HookSave,
     SpawnOpen, CallRead, ProbeRead, CallDo, SpawnSave, Touch, Kill, Delete,
     Restart, Resume, TakeWheel, SwitchHeadless, ScanStep, ScanStart, ScanDisk, ScanDeadShell,
     ScanGone, ScanPane, ProbeSave
<1> SUFFICES ASSUME Turns PROVE Alone' /\ Fresh'
  BY <1>1 DEF Taking, Turns
<1>2. Alone /\ Fresh
  BY DEF Taking
<1>3. CASE \/ UNCHANGED vars \/ \E t, c \in Ids : OpenConversation(t, c)
           \/ \E t \in Ids : CliExits(t) \/ \E c \in Ids : Post(c) \/ HookIgnored(c)
  <2>1. UNCHANGED <<rows, call, scan, probe>>
        /\ \A c \in Ids : hook'[c] = hook[c] \/ hook'[c] \in {Idle, Posted}
    BY <1>3 DEF vars, OpenConversation, CliExits, Post, HookIgnored, Copies, Hooks
  <2> QED BY <1>2, <2>1, TurnsOfOthers
<1>4. CASE \E c \in Ids : HookRead(c)
  BY <1>2, <1>4, TurnsHookRead
<1>5. CASE \E c \in Ids : HookDo(c)
  BY <1>2, <1>5, TurnsDone, Nobodys, PTL
<1>6. CASE ScanStart \/ \E i \in Ids : SpawnOpen(i) \/ CallRead(i) \/ ProbeRead(i)
  BY <1>2, <1>6, TurnsStart
<1>7. CASE CallDo \/ ProbeSave \/ ScanDisk
  BY <1>2, <1>7, TurnsDone, Nobodys, PTL
<1>8. CASE \E t \in Ids : ScanDeadShell(t) \/ ScanGone(t) \/ ScanPane(t)
  BY <1>2, <1>8, TurnsScan
<1> QED BY <1>3, <1>4, <1>5, <1>6, <1>7, <1>8 DEF Advance, ScanStep

-----------------------------------------------------------------------------
(***************************************************************************)
(* A CLI that never resets its conversation: every row has the terminal of *)
(* its own id, or none, and no process of another; a terminal runs its own *)
(* conversation, and then there is a row, or the spawn is about to save it.*)
(***************************************************************************)
Settled == Turns /\ mode.resets = 0 /\ ~mode.late

Rooms(tt, p) ==
  /\ \A t \in Ids : tt[t].conv \in {t, "shell"} /\ tt[t].proc <= p
  /\ \A t, u \in Ids : tt[t].proc > 0 /\ tt[t].proc = tt[u].proc => t = u

Foreign(i, tt, pid) ==
  \A t \in Ids \ {i} : tt[t].proc > 0 => pid # Pane(tt[t].proc) /\ pid # Cli(tt[t].proc)

Good(i, row, tt, p) ==
  /\ row.managed /\ row.tmux \in {i, None}
  /\ row.tmux = None => tt[i].proc = 0
  /\ row.pid <= 2 * p /\ Foreign(i, tt, row.pid)

Homes ==
  /\ Rooms(term, procs)
  /\ \A i \in Present(rows) : Good(i, rows[i], term, procs)
  /\ \A t \in Ids : Running(t) => rows[t] # NoRow \/ (call.op = "spawn" /\ call.id = t)
  /\ call.op = "spawn" => Good(call.id, call.row, term, procs)
  /\ \A c \in Ids : At(c) => hook[c].pick.how = "own"

Counted == calls \in Nat /\ resets \in Nat

\* Terminals that close, or whose CLI exits.
Emptier(new, old) ==
  \A t \in Ids : /\ new[t].proc \in {old[t].proc, 0}
                 /\ new[t].conv \in {old[t].conv, "shell"}

LEMMA Emptying ==
  ASSUME NEW S, NEW tt \in Terms(S), NEW names, NEW pid
  PROVE  /\ Emptier(tt, tt) /\ Emptier(KillName(tt, names), tt) /\ Emptier(KillPid(tt, pid), tt)
         /\ \A t \in Ids \cap names : KillName(tt, names)[t].proc = 0
         /\ \A t \in Ids : [tt EXCEPT ![t].conv = "shell"] \in Terms(S)
                           /\ Emptier([tt EXCEPT ![t].conv = "shell"], tt)
BY DEF Terms, Emptier, KillName, KillPid, NoTerm

LEMMA EmptierAgain ==
  ASSUME NEW a, NEW b, NEW c, Emptier(a, b), Emptier(b, c)
  PROVE  Emptier(a, c)
BY DEF Emptier

LEMMA GoodEmptier ==
  ASSUME NEW S, NEW tt \in Terms(S), NEW new \in Terms(S), Emptier(new, tt), NEW p \in Nat
  PROVE  /\ Rooms(tt, p) => Rooms(new, p)
         /\ \A i \in Ids : \A row \in Row : Good(i, row, tt, p) => Good(i, row, new, p)
<1>1. \A t \in Ids : /\ tt[t].proc \in Nat /\ new[t].proc \in {tt[t].proc, 0}
                     /\ new[t].conv \in {tt[t].conv, "shell"}
  BY SessionRowsAssumption, TermParts DEF Emptier
<1>2. Rooms(tt, p) => Rooms(new, p)
  BY <1>1 DEF Rooms
<1>3. ASSUME NEW i \in Ids, NEW row \in Row, Good(i, row, tt, p) PROVE Good(i, row, new, p)
  BY <1>1, <1>3 DEF Good, Foreign
<1> QED BY <1>2, <1>3

LEMMA GoodOpen ==
  ASSUME NEW S, NEW tt \in Terms(S), NEW t \in Ids, NEW conv \in {t, "shell"},
         procs \in Nat, Rooms(tt, procs)
  PROVE  /\ Rooms(Open(tt, t, conv), procs + 1)
         /\ \A i \in Ids \ {t} : \A row \in Row :
              Good(i, row, tt, procs) => Good(i, row, Open(tt, t, conv), procs + 1)
         /\ \A row \in Row : /\ row.managed /\ row.tmux = t /\ row.pid = Pane(procs + 1)
                             => Good(t, row, Open(tt, t, conv), procs + 1)
         /\ \A u \in Ids \ {t} : Open(tt, t, conv)[u] = tt[u]
<1> DEFINE new == Open(tt, t, conv)
<1>1. \A u \in Ids : tt[u].proc \in Nat
  BY SessionRowsAssumption, TermParts
<1>2. new[t].proc = procs + 1 /\ new[t].conv = conv /\ \A u \in Ids \ {t} : new[u] = tt[u]
  BY DEF Open, Terms
<1> HIDE DEF new
<1>3. Rooms(new, procs + 1)
  BY <1>1, <1>2 DEF Rooms
<1>4. ASSUME NEW i \in Ids \ {t}, NEW row \in Row, Good(i, row, tt, procs)
      PROVE  Good(i, row, new, procs + 1)
  <2>1. row.pid \in Int /\ row.pid <= 2 * procs
    BY <1>4, RowParts, SessionRowsAssumption DEF Good
  <2>2. row.pid # Pane(new[t].proc) /\ row.pid # Cli(new[t].proc)
    BY <1>2, <2>1 DEF Pane, Cli
  <2>3. Foreign(i, new, row.pid)
    BY <1>2, <1>4, <2>2 DEF Good, Foreign
  <2> QED BY <1>2, <1>4, <2>1, <2>3 DEF Good
<1>5. ASSUME NEW row \in Row, row.managed, row.tmux = t, row.pid = Pane(procs + 1)
      PROVE  Good(t, row, new, procs + 1)
  <2>1. \A u \in Ids \ {t} : new[u].proc <= procs /\ new[u].proc \in Nat
    BY <1>1, <1>2 DEF Rooms
  <2>2. Foreign(t, new, row.pid)
    BY <1>5, <2>1 DEF Foreign, Pane, Cli
  <2>3. t # None
    BY SessionRowsAssumption
  <2> QED BY <1>5, <2>2, <2>3 DEF Good, Pane
<1> QED BY <1>2, <1>3, <1>4, <1>5 DEF new

\* The processes of a terminal are no other's.
LEMMA OwnPids ==
  ASSUME NEW S, NEW tt \in Terms(S), NEW p \in Nat, Rooms(tt, p), NEW t \in Ids, tt[t].proc > 0
  PROVE  /\ Foreign(t, tt, Pane(tt[t].proc)) /\ Pane(tt[t].proc) <= 2 * p
         /\ Foreign(t, tt, Cli(tt[t].proc)) /\ Cli(tt[t].proc) <= 2 * p
<1>1. \A u \in Ids : tt[u].proc \in Nat
  BY SessionRowsAssumption, TermParts
<1> QED BY <1>1 DEF Rooms, Foreign, Pane, Cli

LEMMA NoProcess ==
  ASSUME NEW S, NEW tt \in Terms(S), NEW i \in Ids
  PROVE  Foreign(i, tt, 0)
<1>1. \A u \in Ids : tt[u].proc \in Nat
  BY SessionRowsAssumption, TermParts
<1> QED BY <1>1 DEF Foreign, Pane, Cli

-----------------------------------------------------------------------------
LEMMA HomesWritten ==
  ASSUME Copies, Homes, NEW i \in Ids, NEW row \in Row,
         rows' = [rows EXCEPT ![i] = row], Rooms(term', procs'),
         \A k \in Present(rows) \ {i} : Good(k, rows[k], term', procs'),
         Good(i, row, term', procs'),
         \A t \in Ids \ {i} : Running(t)' => Running(t),
         call.op = "spawn" => call.id = i, call'.op # "spawn",
         \A c \in Ids : At(c)' => At(c) /\ hook'[c] = hook[c]
  PROVE  Homes'
<1>1. rows'[i] = row /\ row # NoRow /\ \A k \in Ids \ {i} : rows'[k] = rows[k]
  BY RowIsOne DEF Copies, Database, Tables
<1>2. \A k \in Present(rows)' : Good(k, rows'[k], term', procs')
  BY <1>1 DEF Present
<1>3. \A t \in Ids : Running(t)' => rows'[t] # NoRow
  BY <1>1 DEF Homes
<1>4. \A c \in Ids : At(c)' => hook'[c].pick.how = "own"
  BY DEF Homes
<1> QED BY <1>2, <1>3, <1>4 DEF Homes

LEMMA HomesKept ==
  ASSUME Copies, Homes, rows' = rows, term' \in Terms(seen), Emptier(term', term),
         procs' = procs, call' = call \/ (call.op # "spawn" /\ call'.op # "spawn"),
         \A c \in Ids : At(c)' => hook'[c].pick.how = "own"
  PROVE  Homes'
<1>1. term \in Terms(seen) /\ procs \in Nat /\ rows \in Tables
  BY DEF Copies, Server, Base, Database
<1>2. Rooms(term', procs')
  BY <1>1, GoodEmptier DEF Homes
<1>3. \A k \in Present(rows) : Good(k, rows[k], term', procs')
  <2>1. \A k \in Present(rows) : k \in Ids /\ rows[k] \in Row
    BY <1>1 DEF Present, Tables
  <2> QED BY <1>1, <2>1, GoodEmptier DEF Homes
<1>4. \A t \in Ids : Running(t)' => Running(t)
  BY DEF Running, Emptier
<1>5. call'.op = "spawn" => call' = call /\ Good(call.id, call.row, term', procs')
  <2>1. call.op = "spawn" => call.id \in Ids /\ call.row \in Row
    BY DEF Copies, CallHolds, Base, Idle
  <2> QED BY <1>1, <2>1, GoodEmptier DEF Homes
<1>6. \A t \in Ids : Running(t)' => rows'[t] # NoRow \/ (call'.op = "spawn" /\ call'.id = t)
  BY <1>4 DEF Homes
<1> QED BY <1>2, <1>3, <1>5, <1>6 DEF Homes, Present

\* A row of the table, changed, in terminals that at most close.
LEMMA HomesChanged ==
  ASSUME Copies, Homes, NEW i \in Ids, NEW row \in Row,
         rows' = [rows EXCEPT ![i] = row], term' \in Terms(seen), Emptier(term', term),
         procs' = procs, Good(i, row, term', procs),
         call.op = "spawn" => call.id = i, call'.op # "spawn",
         \A c \in Ids : At(c)' => At(c) /\ hook'[c] = hook[c]
  PROVE  Homes'
<1>1. term \in Terms(seen) /\ procs \in Nat /\ rows \in Tables
  BY DEF Copies, Server, Base, Database
<1>2. Rooms(term', procs')
  BY <1>1, GoodEmptier DEF Homes
<1>3. \A k \in Present(rows) \ {i} : Good(k, rows[k], term', procs')
  <2>1. \A k \in Present(rows) : k \in Ids /\ rows[k] \in Row
    BY <1>1 DEF Present, Tables
  <2> QED BY <1>1, <2>1, GoodEmptier DEF Homes
<1>4. \A t \in Ids : Running(t)' => Running(t)
  BY DEF Running, Emptier
<1> QED BY <1>2, <1>3, <1>4, HomesWritten

LEMMA HomesOfOthers ==
  ASSUME Copies, Homes, Settled, Counted,
         \/ UNCHANGED vars
         \/ \E t, c \in Ids : OpenConversation(t, c)
         \/ \E t \in Ids : CliExits(t) \/ \E c \in Ids : Post(c) \/ HookIgnored(c)
  PROVE  Homes'
<1>1. ASSUME NEW t \in Ids, NEW c \in Ids, OpenConversation(t, c) PROVE FALSE
  <2>1. term[t].conv \in {t, "shell"} /\ Running(t)
    BY <1>1 DEF OpenConversation, Homes, Rooms
  <2>2. ~(resets < mode.resets)
    BY DEF Settled, Counted
  <2> QED BY <1>1, <2>1, <2>2, SessionRowsAssumption DEF OpenConversation, Running
<1>2. UNCHANGED <<rows, procs, call>> /\ (term' = term \/ \E t \in Ids : CliExits(t))
      /\ \A c \in Ids : hook'[c] = hook[c] \/ hook'[c] \in {Idle, Posted}
  BY <1>1 DEF vars, CliExits, Post, HookIgnored, Copies, Hooks
<1>3. term' \in Terms(seen) /\ Emptier(term', term)
  BY <1>2, Emptying DEF CliExits, Copies, Server
<1>4. \A c \in Ids : At(c)' => At(c) /\ hook'[c] = hook[c]
  BY <1>2 DEF At, Idle, Posted
<1> QED BY <1>2, <1>3, <1>4, HomesKept DEF Homes

LEMMA HomesStart ==
  ASSUME Copies, Homes, Settled, Taking,
         ScanStart \/ \E i \in Ids : CallRead(i) \/ ProbeRead(i)
  PROVE  Homes'
<1>1. Alone /\ Fresh /\ Turns
  BY DEF Settled, Taking
<1>2. Nobody /\ UNCHANGED <<rows, hook>>
  BY <1>1, TurnsStart
<1>3. UNCHANGED <<term, procs>> /\ call'.op # "spawn"
  BY <1>2 DEF ScanStart, CallRead, ProbeRead, Nobody, Idle
<1>4. term' \in Terms(seen) /\ Emptier(term', term)
  BY <1>3, Emptying DEF Copies, Server
<1> QED BY <1>2, <1>3, <1>4, HomesKept DEF Nobody, Homes, At, Idle

\* A conversation that runs has its row, so an event of it is its own.
LEMMA HomesHookRead ==
  ASSUME Copies, Homes, Settled, Taking, NEW c \in Ids, HookRead(c)
  PROVE  Homes'
<1>1. Nobody /\ UNCHANGED <<rows, term, procs, call>>
  BY Admits DEF Settled, Turns, Taking, HookRead
<1>2. PICK p \in Resolve(c) : hook' = [hook EXCEPT ![c] = [op |-> "event", pick |-> p]]
  BY DEF HookRead
<1>3. rows[c] # NoRow
  <2>1. PICK t \in Ids : Running(t) /\ term[t].conv = c
    BY DEF HookRead, Settled, Runs
  <2>2. t = c
    BY <2>1 DEF Homes, Rooms, Running
  <2> QED BY <1>1, <2>1, <2>2 DEF Homes, Nobody, Idle
<1>4. p.how = "own"
  BY <1>2, <1>3 DEF Resolve
<1>5. \A k \in Ids : At(k)' => hook'[k].pick.how = "own"
  BY <1>2, <1>4 DEF At, Homes, Copies, Hooks
<1>6. term' \in Terms(seen) /\ Emptier(term', term)
  BY <1>1, Emptying DEF Copies, Server
<1> QED BY <1>1, <1>5, <1>6, HomesKept

LEMMA HomesHookSave ==
  ASSUME Copies, Homes, Settled, Taking, NEW c \in Ids, NEW state \in {"live", "ended"},
         HookSave(c, state)
  PROVE  Homes'
<1> DEFINE row == [hook[c].pick.row EXCEPT !.state = state, !.cleared = FALSE]
<1>1. At(c) /\ hook[c].pick.how = "own" /\ UNCHANGED <<procs, call>>
      /\ hook' = [hook EXCEPT ![c] = Idle]
  BY DEF HookSave, Homes, At
<1>2. rows' = Save(rows, c, row) /\ term' = term
  BY <1>1 DEF HookSave
<1>3. hook[c].pick.row = rows[c] /\ call = Idle
  BY <1>1 DEF Settled, Taking, Fresh, Alone, Loaded
<1>4. rows[c] \in Row /\ rows \in Tables /\ term \in Terms(seen)
  BY <1>1, <1>3 DEF At, Copies, Hooks, Pick, Picks, Database, Server
<1>5. row \in Row /\ row.managed = rows[c].managed
      /\ row.tmux = rows[c].tmux /\ row.pid = rows[c].pid
  BY <1>3, <1>4 DEF Row
<1>6. Good(c, rows[c], term, procs)
  BY <1>4, RowIsOne DEF Homes, Present
<1> HIDE DEF row
<1>7. Good(c, row, term, procs)
  BY <1>5, <1>6 DEF Good
<1>8. rows' = [rows EXCEPT ![c] = row]
  BY <1>2, <1>4, <1>5, SaveSame
<1>9. \A k \in Ids : At(k)' => At(k) /\ hook'[k] = hook[k]
  BY <1>1 DEF At, Copies, Hooks, Idle
<1>10. Emptier(term', term) /\ term' \in Terms(seen)
  BY <1>2, <1>4, Emptying
<1> QED BY <1>1, <1>2, <1>3, <1>5, <1>7, <1>8, <1>9, <1>10, HomesChanged DEF Idle

LEMMA HomesSpawnOpen ==
  ASSUME Copies, Homes, Settled, Taking, NEW i \in Ids, SpawnOpen(i)
  PROVE  Homes'
<1>1. Nobody /\ UNCHANGED <<rows, hook>>
  BY TurnsStart DEF Settled, Taking
<1>2. /\ term' = Open(term, i, i) /\ procs' = procs + 1 /\ rows[i] = NoRow
      /\ call' = [op |-> "spawn", id |-> i, row |-> SpawnRow(i)] /\ procs < MaxProcs
  <2>1. mode.procs <= MaxProcs
    BY SessionRowsAssumption DEF Copies, Base
  <2> QED BY <2>1, SessionRowsAssumption
      DEF SpawnOpen, Settled, Turns, Copies, Database, Present, Base
<1>3. term \in Terms(seen) /\ procs \in Nat /\ rows \in Tables
  BY DEF Copies, Server, Base, Database
<1>4. /\ Rooms(term', procs')
      /\ \A k \in Ids \ {i} : \A row \in Row :
           Good(k, row, term, procs) => Good(k, row, term', procs')
      /\ \A row \in Row : /\ row.managed /\ row.tmux = i /\ row.pid = Pane(procs + 1)
                          => Good(i, row, term', procs')
      /\ \A u \in Ids \ {i} : term'[u] = term[u]
  BY <1>2, <1>3, GoodOpen DEF Homes
<1>5. SpawnRow(i) \in Row /\ SpawnRow(i).managed /\ SpawnRow(i).tmux = i
      /\ SpawnRow(i).pid = Pane(procs + 1)
  BY <1>2, <1>3, Pids DEF SpawnRow, Row
<1>6. Good(i, SpawnRow(i), term', procs')
  BY <1>4, <1>5
<1>7. \A k \in Present(rows) : k # i /\ k \in Ids /\ rows[k] \in Row
  BY <1>2, <1>3 DEF Present, Tables
<1>8. \A k \in Present(rows)' : Good(k, rows'[k], term', procs')
  BY <1>1, <1>4, <1>7 DEF Homes, Present
<1>9. \A t \in Ids : Running(t)' => rows'[t] # NoRow \/ (call'.op = "spawn" /\ call'.id = t)
  BY <1>1, <1>2, <1>4 DEF Homes, Running, Nobody, Idle
<1>10. \A c \in Ids : At(c)' => hook'[c].pick.how = "own"
  BY <1>1 DEF At, Homes
<1> HIDE DEF SpawnRow
<1> QED BY <1>2, <1>4, <1>6, <1>8, <1>9, <1>10 DEF Homes

\* The copy of a call is what the table holds.
LEMMA CallLoaded ==
  ASSUME Copies, Turns, Taking, CallDo
  PROVE  /\ call.id \in Ids /\ call.row \in Row /\ call'.op # "spawn"
         /\ rows \in Tables /\ term \in Terms(seen) /\ procs \in Nat
         /\ call.op = "api" => rows[call.id] = call.row /\ call.id \in Present(rows)
         /\ call.op = "spawn" => rows[call.id] = NoRow
         /\ call.op \in {"api", "spawn"} /\ UNCHANGED <<hook, mode>>
         /\ \A c \in Ids : ~At(c)
         /\ \A row \in Row : Save(rows, call.id, row) = [rows EXCEPT ![call.id] = row]
<1>1. /\ call # Idle /\ call' = Idle /\ UNCHANGED <<hook, mode>> /\ call.op \in {"api", "spawn"}
  BY DEF CallDo, SpawnSave, Touch, Kill, Delete, Restart, Resume,
     TakeWheel, SwitchHeadless, Answered, Idle
<1>2. call.id \in Ids /\ call.row \in Row
  BY <1>1 DEF Copies, CallHolds, Base
<1>3. rows \in Tables /\ term \in Terms(seen) /\ procs \in Nat
  BY DEF Copies, Server, Base, Database
<1>4. /\ call.op = "api" => rows[call.id] = call.row
      /\ call.op = "spawn" => rows[call.id] = NoRow
      /\ \A c \in Ids : ~At(c)
  BY <1>1 DEF Taking, Alone, Fresh
<1>5. call.op = "api" => call.id \in Present(rows)
  BY <1>2, <1>4, RowIsOne DEF Present
<1>6. \A row \in Row : Save(rows, call.id, row) = [rows EXCEPT ![call.id] = row]
  BY SaveSame
<1> QED BY <1>1, <1>2, <1>3, <1>4, <1>5, <1>6 DEF Idle

LEMMA HomesSave ==
  ASSUME Copies, Homes, Settled, Taking,
         SpawnSave \/ Touch \/ Kill \/ SwitchHeadless
  PROVE  Homes'
<1> DEFINE id == call.id
           r  == call.row
<1>1. Turns /\ CallDo
  BY DEF Settled, CallDo
<1>2. /\ id \in Ids /\ r \in Row /\ call'.op # "spawn"
      /\ rows \in Tables /\ term \in Terms(seen) /\ procs \in Nat
      /\ call.op = "api" => rows[id] = r /\ id \in Present(rows)
      /\ call.op \in {"api", "spawn"} /\ UNCHANGED hook
      /\ \A c \in Ids : ~At(c)
      /\ \A row \in Row : Save(rows, id, row) = [rows EXCEPT ![id] = row]
  BY <1>1, CallLoaded
<1>3. Good(id, r, term, procs)
  BY <1>2 DEF Homes
<1>4. procs' = procs
  BY DEF SpawnSave, Touch, Kill, SwitchHeadless
<1>5. Foreign(id, term, 0) /\ 0 <= 2 * procs
  BY <1>2, NoProcess
<1>6. \A c \in Ids : At(c)' => At(c) /\ hook'[c] = hook[c]
  BY <1>2 DEF At
<1>7. CASE SpawnSave \/ Touch
  <2>1. rows' = [rows EXCEPT ![id] = r] /\ term' = term
    BY <1>2, <1>7 DEF SpawnSave, Touch
  <2>2. Emptier(term', term) /\ term' \in Terms(seen)
    BY <1>2, <2>1, Emptying
  <2> HIDE DEF id, r
  <2> QED BY <1>2, <1>3, <1>4, <1>6, <2>1, <2>2, HomesChanged DEF id
<1>8. CASE Kill
  <2> DEFINE row == [r EXCEPT !.state = "ended", !.cleared = FALSE]
  <2>1. row \in Row /\ row.managed = r.managed /\ row.tmux = r.tmux
        /\ row.pid = r.pid
    BY <1>2 DEF Row
  <2>2. /\ rows' = Save(rows, id, row)
        /\ term' = KillPid(KillName(term, Owned(r)), r.pid)
    BY <1>8 DEF Kill
  <2> HIDE DEF id, r, row
  <2>3. rows' = [rows EXCEPT ![id] = row]
    BY <1>2, <2>1, <2>2
  <2>4. KillName(term, Owned(r)) \in Terms(seen) /\ term' \in Terms(seen)
        /\ Emptier(KillName(term, Owned(r)), term) /\ Emptier(term', KillName(term, Owned(r)))
    BY <1>2, <2>2, Killing, Emptying
  <2>5. Emptier(term', term)
    BY <2>4, EmptierAgain
  <2>6. Good(id, row, term, procs)
    BY <1>3, <2>1 DEF Good
  <2>7. Good(id, row, term', procs)
    BY <1>2, <2>1, <2>4, <2>5, <2>6, GoodEmptier
  <2> QED BY <1>2, <1>4, <1>6, <2>1, <2>3, <2>4, <2>5, <2>7, HomesChanged DEF id
<1>9. CASE SwitchHeadless
  <2> DEFINE row == [r EXCEPT !.managed = TRUE, !.tmux = None, !.pid = 0,
                              !.state = "live", !.cleared = FALSE]
  <2>1. row \in Row /\ row.managed /\ row.tmux = None /\ row.pid = 0
    <3>1. 0 \in 0 .. 2 * MaxProcs
      BY SessionRowsAssumption
    <3> QED BY <1>2, <3>1 DEF Row
  <2>2. rows' = Save(rows, id, row) /\ term' = KillName(term, {r.tmux, id})
    BY <1>9 DEF SwitchHeadless
  <2> HIDE DEF id, r, row
  <2>3. rows' = [rows EXCEPT ![id] = row]
    BY <1>2, <2>1, <2>2
  <2>4. term' \in Terms(seen) /\ Emptier(term', term) /\ term'[id].proc = 0
    BY <1>2, <2>2, Killing, Emptying
  <2>5. Foreign(id, term', 0)
    BY <1>2, <2>4, NoProcess
  <2>6. Good(id, row, term', procs)
    BY <1>5, <2>1, <2>4, <2>5 DEF Good
  <2> QED BY <1>2, <1>4, <1>6, <2>1, <2>3, <2>4, <2>6, HomesChanged DEF id
<1> QED BY <1>7, <1>8, <1>9

LEMMA HomesDelete ==
  ASSUME Copies, Homes, Settled, Taking, Delete
  PROVE  Homes'
<1> DEFINE id == call.id
           r  == call.row
<1>1. Turns /\ CallDo
  BY DEF Settled, CallDo
<1>2. /\ id \in Ids /\ r \in Row /\ call'.op # "spawn" /\ call.op = "api" /\ procs' = procs
      /\ rows \in Tables /\ term \in Terms(seen) /\ procs \in Nat
      /\ rows[id] = r /\ id \in Present(rows) /\ UNCHANGED hook
      /\ rows' = Drop(rows, {id}) /\ term' = KillPid(KillName(term, Owned(r)), r.pid)
  BY <1>1, CallLoaded DEF Delete, Answered
<1> HIDE DEF id, r
<1>3. KillName(term, Owned(r)) \in Terms(seen) /\ term' \in Terms(seen)
      /\ Emptier(KillName(term, Owned(r)), term) /\ Emptier(term', KillName(term, Owned(r)))
  BY <1>2, Killing, Emptying
<1>4. Emptier(term', term)
  BY <1>3, EmptierAgain
<1>5. term'[id].proc = 0
  <2>1. r.managed /\ r.tmux \in {id, None} /\ (r.tmux = None => term[id].proc = 0)
    BY <1>2 DEF Homes, Good
  <2>2. r.tmux = id => id \in Owned(r)
    BY <1>2, <2>1, SessionRowsAssumption DEF Owned
  <2>3. KillName(term, Owned(r))[id].proc = 0
    BY <1>2, <1>3, <2>1, <2>2, Emptying DEF Emptier
  <2> QED BY <1>2, <1>3, <2>3 DEF Emptier
<1>6. Rooms(term', procs')
  BY <1>2, <1>3, <1>4, GoodEmptier DEF Homes
<1>7. \A k \in Present(rows)' : Good(k, rows'[k], term', procs')
  <2>1. \A k \in Present(rows)' : k \in Present(rows) /\ rows'[k] = rows[k]
    BY <1>2 DEF Drop, Present
  <2>2. \A k \in Present(rows) : k \in Ids /\ rows[k] \in Row
    BY <1>2 DEF Present, Tables
  <2> QED BY <1>2, <1>3, <1>4, <2>1, <2>2, GoodEmptier DEF Homes
<1>8. \A t \in Ids : Running(t)' => rows'[t] # NoRow
  <2>1. \A t \in Ids : Running(t)' => Running(t) /\ t # id
    BY <1>4, <1>5 DEF Running, Emptier
  <2> QED BY <1>2, <2>1 DEF Homes, Drop
<1>9. \A c \in Ids : At(c)' => hook'[c].pick.how = "own"
  BY <1>2 DEF At, Homes
<1> QED BY <1>2, <1>6, <1>7, <1>8, <1>9 DEF Homes

\* A terminal of the row's own name is started in the place of the old one.
LEMMA HomesOpened ==
  ASSUME Copies, Homes, Settled, Taking, CallDo, call.op = "api",
         NEW tt \in Terms(seen), Emptier(tt, term), Reopen(tt, call.id)
  PROVE  Homes'
<1> DEFINE id   == call.id
           r    == call.row
           conv == IF id \in convs \ deleted THEN id ELSE "shell"
           row  == [r EXCEPT !.managed = TRUE, !.tmux = id, !.state = "live",
                             !.pid = Pane(procs + 1), !.cleared = FALSE]
           base == KillName(tt, {id})
<1>1. /\ id \in Ids /\ r \in Row /\ call'.op # "spawn"
      /\ rows \in Tables /\ term \in Terms(seen) /\ procs \in Nat
      /\ UNCHANGED hook /\ \A c \in Ids : ~At(c)
      /\ \A new \in Row : Save(rows, id, new) = [rows EXCEPT ![id] = new]
  BY CallLoaded DEF Settled
<1>2. procs' = procs + 1 /\ term' = Open(base, id, conv) /\ rows' = Save(rows, id, row)
      /\ procs < MaxProcs
  <2>1. mode.procs <= MaxProcs /\ mode.procs \in Int
    BY SessionRowsAssumption DEF Copies, Base
  <2> QED BY <1>1, <2>1, SessionRowsAssumption DEF Reopen
<1>3. row \in Row /\ row.managed /\ row.tmux = id
      /\ row.pid = Pane(procs + 1)
  <2>1. Pane(procs + 1) \in 0 .. 2 * MaxProcs
    BY <1>1, <1>2, Pids
  <2> QED BY <1>1, <2>1 DEF Row
<1>4. base \in Terms(seen) /\ Emptier(base, term)
  <2>1. base \in Terms(seen) /\ Emptier(base, tt)
    BY Killing, Emptying
  <2> QED BY <2>1, EmptierAgain
<1>5. conv \in {id, "shell"}
  OBVIOUS
<1>6. rows' = [rows EXCEPT ![id] = row]
  BY <1>1, <1>2, <1>3
<1> HIDE DEF id, r, conv, row, base
<1>7. Rooms(base, procs)
  BY <1>1, <1>4, GoodEmptier DEF Homes
<1>8. /\ Rooms(term', procs')
      /\ \A i \in Ids \ {id} : \A new \in Row :
           Good(i, new, base, procs) => Good(i, new, term', procs')
      /\ Good(id, row, term', procs')
      /\ \A u \in Ids \ {id} : term'[u] = base[u]
  BY <1>1, <1>2, <1>3, <1>4, <1>5, <1>7, GoodOpen
<1>9. \A k \in Present(rows) \ {id} : Good(k, rows[k], term', procs')
  <2>1. \A k \in Present(rows) : k \in Ids /\ rows[k] \in Row
    BY <1>1 DEF Present, Tables
  <2>2. \A k \in Present(rows) : Good(k, rows[k], base, procs)
    BY <1>1, <1>4, <2>1, GoodEmptier DEF Homes
  <2> QED BY <1>8, <2>1, <2>2
<1>10. \A t \in Ids \ {id} : Running(t)' => Running(t)
  BY <1>4, <1>8 DEF Running, Emptier
<1>11. \A c \in Ids : At(c)' => At(c) /\ hook'[c] = hook[c]
  BY <1>1 DEF At
<1> QED BY <1>1, <1>3, <1>6, <1>8, <1>9, <1>10, <1>11, HomesWritten

LEMMA HomesReopen ==
  ASSUME Copies, Homes, Settled, Taking, Restart \/ Resume \/ TakeWheel
  PROVE  Homes'
<1> DEFINE id == call.id
           r  == call.row
<1>1. Turns /\ CallDo /\ call.op = "api"
  BY DEF Settled, CallDo, Restart, Resume, TakeWheel, Answered
<1>2. /\ id \in Ids /\ r \in Row /\ call'.op # "spawn"
      /\ rows \in Tables /\ term \in Terms(seen) /\ procs \in Nat
      /\ rows[id] = r /\ id \in Present(rows)
      /\ UNCHANGED hook /\ \A c \in Ids : ~At(c)
      /\ \A row \in Row : Save(rows, id, row) = [rows EXCEPT ![id] = row]
  BY <1>1, CallLoaded
<1>3. r.managed /\ NameOf(r, id) = id
  BY <1>2 DEF Homes, Good, NameOf
<1>4. KillName(term, Owned(r)) \in Terms(seen) /\ Emptier(KillName(term, Owned(r)), term)
      /\ Emptier(term, term)
  BY <1>2, Killing, Emptying
<1>5. CASE Restart
  <2>1. Reopen(KillName(term, Owned(r)), id)
    BY <1>3, <1>5 DEF Restart
  <2> QED BY <1>1, <1>4, <2>1, HomesOpened
<1>6. CASE Resume \/ (TakeWheel /\ ~Running(id))
  <2>1. Reopen(term, id)
    BY <1>3, <1>6 DEF Resume, TakeWheel
  <2> QED BY <1>1, <1>2, <1>4, <2>1, HomesOpened
<1>7. CASE TakeWheel /\ Running(id)
  <2> DEFINE row == [r EXCEPT !.managed = TRUE, !.tmux = id, !.state = "live",
                              !.pid = Pane(term[id].proc), !.cleared = FALSE]
  <2>1. UNCHANGED <<term, procs>> /\ rows' = Save(rows, id, row)
    BY <1>7 DEF TakeWheel
  <2>2. term[id].proc > 0 /\ term[id].proc \in 0 .. MaxProcs /\ term[id].proc \in Nat
    BY <1>2, <1>7, TermParts, SessionRowsAssumption DEF Running
  <2>3. row \in Row /\ row.managed /\ row.tmux = id
        /\ row.pid = Pane(term[id].proc)
    <3>1. Pane(term[id].proc) \in 0 .. 2 * MaxProcs
      BY <2>2, Pids, SessionRowsAssumption
    <3> QED BY <1>2, <3>1 DEF Row
  <2>4. rows' = [rows EXCEPT ![id] = row]
    BY <1>2, <2>1, <2>3
  <2> HIDE DEF id, r, row
  <2>5. Foreign(id, term, row.pid) /\ row.pid <= 2 * procs
    BY <1>2, <2>2, <2>3, OwnPids DEF Homes
  <2>6. Good(id, row, term', procs)
    BY <1>2, <2>1, <2>3, <2>5, SessionRowsAssumption DEF Good
  <2>7. \A c \in Ids : At(c)' => At(c) /\ hook'[c] = hook[c]
    BY <1>2 DEF At
  <2>8. term' \in Terms(seen) /\ Emptier(term', term)
    BY <1>2, <1>4, <2>1
  <2> QED BY <1>1, <1>2, <2>1, <2>3, <2>4, <2>6, <2>7, <2>8, HomesChanged
<1> QED BY <1>5, <1>6, <1>7

\* The scan ends a row whose agent has left, or ties it to its pane.
LEMMA HomesScan ==
  ASSUME Copies, Homes, Settled, Taking, NEW t \in Ids,
         ScanDeadShell(t) \/ ScanGone(t) \/ ScanPane(t)
  PROVE  Homes'
<1>1. /\ Turns /\ Fresh /\ scan.op = "panes" /\ UNCHANGED <<procs, hook, call>>
      /\ rows \in Tables /\ term \in Terms(seen) /\ procs \in Nat
  BY DEF Settled, Taking, ScanDeadShell, ScanGone, ScanPane, Copies, Database, Server, Base
<1>2. call = Idle /\ \A c \in Ids : ~At(c)
  BY <1>1 DEF Settled, Taking, Alone, Idle
<1>3. \A c \in Ids : At(c)' => At(c) /\ hook'[c] = hook[c]
  BY <1>1 DEF At
<1>4. \A k \in Present(rows) : k \in Ids /\ rows[k] \in Row
  BY <1>1 DEF Present, Tables
<1>5. Emptier(term, term) /\ KillName(term, {t}) \in Terms(seen)
      /\ Emptier(KillName(term, {t}), term)
  BY <1>1, Emptying, Killing
<1>6. CASE rows' = rows /\ term' \in {term, KillName(term, {t})}
  BY <1>1, <1>2, <1>3, <1>5, <1>6, HomesKept DEF Idle
<1>7. ASSUME NEW i \in Present(rows), rows' = [rows EXCEPT ![i] = Ended(rows[i])], term' = term
      PROVE  Homes'
  <2>1. Ended(rows[i]) \in Row /\ Ended(rows[i]).managed = rows[i].managed
        /\ Ended(rows[i]).tmux = rows[i].tmux /\ Ended(rows[i]).pid = 0
    BY <1>4, EndedIsRow DEF Ended, Row
  <2>2. Good(i, Ended(rows[i]), term', procs)
    BY <1>1, <1>4, <1>7, <2>1, NoProcess DEF Homes, Good
  <2> QED BY <1>1, <1>2, <1>3, <1>4, <1>5, <1>7, <2>1, <2>2, HomesChanged DEF Idle
<1>8. CASE ScanDeadShell(t)
  BY <1>1, <1>6, <1>7, <1>8, ScanEnds DEF ScanDeadShell
<1>9. CASE ScanPane(t)
  <2>1. Running(t)
    BY <1>9 DEF ScanPane
  <2>2. ASSUME NEW i \in Owners(t), i \in Present(rows), Tied(i, t) \in Row, term' = term,
               rows' = [Drop(rows, Twins(i, t)) EXCEPT ![i] = Tied(i, t)]
        PROVE  Homes'
    <3>1. i = t
      BY <1>1, <1>2, <2>1, <2>2 DEF Owners, Homes, Idle
    <3>2. term[t].proc > 0 /\ term[t].proc \in 0 .. MaxProcs /\ t # None
      BY <1>1, <2>1, TermParts, SessionRowsAssumption DEF Running
    <3>3. \A k \in Present(rows) : k # t => rows[k].tmux # t /\ rows[k].pid # Cli(term[t].proc)
      BY <3>2 DEF Homes, Good, Foreign
    <3>4. Twins(t, t) = {}
      BY <3>3 DEF Twins
    <3>5. Drop(rows, {}) = rows
      BY <1>1 DEF Drop, Tables
    <3>6. rows' = [rows EXCEPT ![t] = Tied(t, t)]
      BY <2>2, <3>1, <3>4, <3>5
    <3>7. Tied(t, t).managed /\ Tied(t, t).tmux = t /\ Tied(t, t).pid = Cli(term[t].proc)
      BY <1>4, <2>2, <3>1 DEF Tied, Row
    <3>8. Foreign(t, term, Tied(t, t).pid) /\ Tied(t, t).pid <= 2 * procs
      BY <1>1, <3>2, <3>7, OwnPids DEF Homes
    <3>9. Good(t, Tied(t, t), term', procs)
      BY <2>2, <3>2, <3>7, <3>8 DEF Good
    <3> QED BY <1>1, <1>2, <1>3, <1>5, <2>2, <3>1, <3>6, <3>9, HomesChanged DEF Idle
  <2> QED BY <1>1, <1>6, <1>9, <2>2, ScanTies
<1>10. CASE ScanGone(t)
  BY <1>6, <1>10 DEF ScanGone
<1> QED BY <1>8, <1>9, <1>10

LEMMA HomesPass ==
  ASSUME Copies, Homes, Settled, Taking, ScanDisk \/ ProbeSave
  PROVE  Homes'
<1>1. /\ Turns /\ Fresh /\ UNCHANGED <<procs, hook, call>>
      /\ rows \in Tables /\ term \in Terms(seen) /\ procs \in Nat
  BY DEF Settled, Taking, ScanDisk, ProbeSave, Copies, Database, Server, Base
<1>2. call = Idle /\ \A c \in Ids : ~At(c)
  BY <1>1 DEF Settled, Taking, Alone, ScanDisk, ProbeSave, Idle
<1>3. \A c \in Ids : At(c)' => At(c) /\ hook'[c] = hook[c]
  BY <1>1 DEF At
<1>4. term' = term /\ Emptier(term, term)
  BY <1>1, Emptying DEF ScanDisk, ProbeSave, Turns
<1>5. CASE rows' = rows
  BY <1>1, <1>2, <1>3, <1>4, <1>5, HomesKept DEF Idle
<1>6. CASE rows' # rows
  <2> DEFINE i == probe.id
  <2>1. probe.op = "probe" /\ rows' = Save(rows, i, Ended(probe.row)) /\ ProbeSave
    BY <1>1, <1>6 DEF ScanDisk, ProbeSave, Turns, Ended
  <2>2. i \in Ids /\ probe.row \in Row /\ rows[i] = probe.row
    BY <1>1, <2>1 DEF Copies, ProbeHolds, Base, Idle, Fresh
  <2>3. Ended(probe.row) \in Row
        /\ Ended(probe.row).managed = probe.row.managed
        /\ Ended(probe.row).tmux = probe.row.tmux /\ Ended(probe.row).pid = 0
    BY <2>2, EndedIsRow DEF Ended, Row
  <2>4. rows' = [rows EXCEPT ![i] = Ended(probe.row)]
    BY <1>1, <2>1, <2>2, <2>3, SaveSame
  <2>5. Good(i, probe.row, term, procs)
    BY <2>2, RowIsOne DEF Homes, Present
  <2> HIDE DEF i
  <2>6. Good(i, Ended(probe.row), term', procs)
    BY <1>1, <1>4, <2>2, <2>3, <2>5, NoProcess DEF Good
  <2> QED BY <1>1, <1>2, <1>3, <1>4, <2>2, <2>3, <2>4, <2>6, HomesChanged DEF Idle
<1> QED BY <1>5, <1>6

LEMMA HomesStep ==
  ASSUME Copies, Counted, Taking, Settled, Homes, [Advance]_vars
  PROVE  Homes'
<1>1. CASE \/ UNCHANGED vars \/ \E t, c \in Ids : OpenConversation(t, c)
           \/ \E t \in Ids : CliExits(t) \/ \E c \in Ids : Post(c) \/ HookIgnored(c)
  BY <1>1, HomesOfOthers
<1>2. CASE \E c \in Ids : HookRead(c)
  BY <1>2, HomesHookRead
<1>3. CASE \E c \in Ids : HookDo(c)
  BY <1>3, HomesHookSave DEF HookDo
<1>4. CASE \E i \in Ids : SpawnOpen(i)
  BY <1>4, HomesSpawnOpen
<1>5. CASE ScanStart \/ \E i \in Ids : CallRead(i) \/ ProbeRead(i)
  BY <1>5, HomesStart
<1>6. CASE CallDo
  BY <1>6, HomesSave, HomesDelete, HomesReopen DEF CallDo
<1>7. CASE ScanDisk \/ ProbeSave
  BY <1>7, HomesPass
<1>8. CASE \E t \in Ids : ScanDeadShell(t) \/ ScanGone(t) \/ ScanPane(t)
  BY <1>8, HomesScan
<1> QED BY <1>1, <1>2, <1>3, <1>4, <1>5, <1>6, <1>7, <1>8 DEF Advance, ScanStep

\* The bounds of an instance stay, and its counters count.
LEMMA CountedStep ==
  ASSUME Counted, [Advance]_vars
  PROVE  Counted' /\ mode' = mode
<1> USE DEF vars, OpenConversation, CliExits, Post, HookIgnored, HookRead, HookDo, HookSave,
      SpawnOpen, CallRead, ProbeRead, CallDo, SpawnSave, Touch, Kill, Delete,
      Restart, Resume, TakeWheel, SwitchHeadless, ScanStep, ScanStart, ScanDisk,
      ScanDeadShell, ScanGone, ScanPane, ProbeSave
<1>1. mode' = mode
  BY DEF Advance
<1>2. resets' \in {resets, resets + 1}
  BY DEF Advance
<1>3. calls' \in {calls, calls + 1}
  BY DEF Advance
<1> QED BY <1>1, <1>2, <1>3, SMT DEF Counted

-----------------------------------------------------------------------------
(***************************************************************************)
(* Without calls, whatever is reset and however late an event is: managed  *)
(* rows have terminals of their own, no terminal of a row closes, and that *)
(* of a spawning row is its own and no other row's.                        *)
(***************************************************************************)
Quiet == Turns /\ mode.calls = 0

Claimed(table, tt) ==
  /\ \A i, k \in Present(table) :
       table[i].managed /\ table[k].managed /\ table[i].tmux = table[k].tmux => i = k
  /\ \A i \in Present(table) : table[i].tmux \in Ids /\ tt[table[i].tmux].proc > 0
  /\ \A i \in Present(table) : table[i].state = "unknown" =>
       /\ table[i].tmux = i
       /\ \A k \in Present(table) : table[k].tmux = i => k = i

Claims ==
  /\ Claimed(rows, term)
  /\ call.op # "api" /\ deleted = {}
  /\ call.op = "spawn" => /\ call.row.tmux = call.id /\ term[call.id].proc > 0
                          /\ \A k \in Present(rows) : rows[k].tmux # call.id
  /\ \A c \in Ids : At(c) =>
       /\ hook[c].pick.how = "adopt" => hook[c].pick.row.state = "unknown"
       /\ hook[c].pick.how = "rotate" => hook[c].pick.row.managed

\* What a save writes has the terminal and the state of what was saved.
LEMMA SaveShape ==
  ASSUME NEW table \in Tables, NEW i \in Ids, NEW row \in Row
  PROVE  \E s \in Row : /\ s.state = row.state /\ s.managed = row.managed /\ s.tmux = row.tmux
                        /\ Save(table, i, row) = [table EXCEPT ![i] = s]
BY SaveSame

\* A row that keeps its terminal, and gains no claim.
LEMMA ClaimedSame ==
  ASSUME NEW table \in Tables, NEW tt, Claimed(table, tt), NEW i \in Present(table), NEW row \in Row,
         row.tmux = table[i].tmux, row.managed => table[i].managed, row.state # "unknown"
  PROVE  Claimed([table EXCEPT ![i] = row], tt)
<1> DEFINE new == [table EXCEPT ![i] = row]
<1>1. new[i] = row /\ i \in Ids /\ Present(new) = Present(table)
      /\ \A k \in Ids \ {i} : new[k] = table[k]
  BY RowIsOne DEF Tables, Present
<1>2. \A k \in Present(new) : new[k].tmux = table[k].tmux
  BY <1>1 DEF Present
<1> HIDE DEF new
<1>3. Claimed(new, tt)
  BY <1>1, <1>2 DEF Claimed, Present
<1> QED BY <1>3 DEF new

\* A row in the place of one that is dropped, or of none: its terminal has
\* no other row that is managed, and is no spawning row's.
LEMMA ClaimedNew ==
  ASSUME NEW table \in Tables, NEW tt, Claimed(table, tt), NEW i \in Ids, NEW row \in Row,
         row.tmux \in Ids, tt[row.tmux].proc > 0,
         \A k \in Present(table) \ {i} :
           /\ table[k].managed => table[k].tmux # row.tmux
           /\ table[k].state = "unknown" => k # row.tmux,
         row.state = "unknown" =>
           row.tmux = i /\ \A k \in Present(table) \ {i} : table[k].tmux # i
  PROVE  Claimed([table EXCEPT ![i] = row], tt)
<1> DEFINE new == [table EXCEPT ![i] = row]
<1>1. new[i] = row /\ Present(new) = Present(table) \cup {i}
      /\ \A k \in Ids \ {i} : new[k] = table[k]
  BY RowIsOne DEF Tables, Present
<1>2. \A k \in Present(new) : k \in Ids
  BY DEF Present
<1> HIDE DEF new
<1>3. Claimed(new, tt)
  BY <1>1, <1>2 DEF Claimed
<1> QED BY <1>3 DEF new

LEMMA ClaimedDropped ==
  ASSUME NEW table \in Tables, NEW tt, Claimed(table, tt), NEW gone
  PROVE  Claimed(Drop(table, gone), tt)
BY DEF Claimed, Drop, Present, Tables

\* Terminals that stay open.
LEMMA ClaimedOpen ==
  ASSUME NEW table, NEW tt, NEW new, Claimed(table, tt),
         \A t \in Ids : tt[t].proc > 0 => new[t].proc > 0
  PROVE  Claimed(table, new)
BY DEF Claimed

\* A step that leaves the table and every terminal open.
LEMMA ClaimsKept ==
  ASSUME Copies, Claims, rows' = rows, call' = call, deleted' = deleted,
         \A t \in Ids : term[t].proc > 0 => term'[t].proc > 0,
         \A c \in Ids : At(c)' => At(c) /\ hook'[c] = hook[c]
  PROVE  Claims'
<1>1. Claimed(rows', term')
  BY ClaimedOpen DEF Claims
<1>2. call.op = "spawn" => call.id \in Ids
  BY DEF Copies, CallHolds, Base, Idle
<1> QED BY <1>1, <1>2 DEF Claims

LEMMA ClaimsOfOthers ==
  ASSUME Copies, Claims,
         \/ UNCHANGED vars
         \/ \E t, c \in Ids : OpenConversation(t, c)
         \/ \E t \in Ids : CliExits(t) \/ \E c \in Ids : Post(c) \/ HookIgnored(c)
  PROVE  Claims'
<1>1. UNCHANGED <<rows, call, deleted>>
      /\ \A c \in Ids : hook'[c] = hook[c] \/ hook'[c] \in {Idle, Posted}
  BY DEF vars, OpenConversation, CliExits, Post, HookIgnored, Copies, Hooks
<1>2. \A t \in Ids : term'[t].proc = term[t].proc
  BY DEF vars, OpenConversation, CliExits, Post, HookIgnored, Copies, Server, Terms
<1>3. \A c \in Ids : At(c)' => At(c) /\ hook'[c] = hook[c]
  BY <1>1 DEF At, Idle, Posted
<1> QED BY <1>1, <1>2, <1>3, ClaimsKept

LEMMA ClaimsStart ==
  ASSUME Copies, Counted, Claims, Quiet, Taking,
         ScanStart \/ \E i \in Ids : SpawnOpen(i) \/ CallRead(i) \/ ProbeRead(i)
  PROVE  Claims'
<1>1. Nobody /\ UNCHANGED <<rows, hook, deleted>>
  BY TurnsStart DEF Quiet, Taking, ScanStart, SpawnOpen, CallRead, ProbeRead
<1>2. \A i \in Ids : ~CallRead(i)
  BY DEF Quiet, Counted, CallRead
<1>3. CASE ScanStart \/ \E i \in Ids : ProbeRead(i)
  BY <1>1, <1>3, ClaimsKept DEF ScanStart, ProbeRead, Nobody, At
<1>4. ASSUME NEW i \in Ids, SpawnOpen(i) PROVE Claims'
  <2>1. /\ term[i].proc = 0 /\ term' = Open(term, i, i)
        /\ call' = [op |-> "spawn", id |-> i, row |-> SpawnRow(i)]
    BY <1>4 DEF SpawnOpen, Quiet, Turns
  <2>2. term'[i].proc = procs + 1 /\ procs \in Nat /\ \A t \in Ids \ {i} : term'[t] = term[t]
    BY <2>1 DEF Open, Copies, Server, Terms, Base
  <2>3. \A k \in Present(rows) : rows[k].tmux # i
    BY <2>1 DEF Claims, Claimed
  <2>4. Claimed(rows', term')
    BY <1>1, <2>1, <2>2, ClaimedOpen DEF Claims
  <2> QED BY <1>1, <2>1, <2>2, <2>3, <2>4 DEF Claims, SpawnRow, Nobody, At
<1> QED BY <1>2, <1>3, <1>4

LEMMA ClaimsHookRead ==
  ASSUME Copies, Claims, Quiet, NEW c \in Ids, HookRead(c)
  PROVE  Claims'
<1>1. PICK p \in Resolve(c) : hook' = [hook EXCEPT ![c] = [op |-> "event", pick |-> p]]
  BY DEF HookRead
<1>2. UNCHANGED <<rows, term, call, deleted>>
  BY DEF HookRead
<1>3. \A i \in Placeholders : rows[i].state = "unknown"
  BY DEF Placeholders, Newest, Quiet, Turns
<1>4. /\ p.how = "adopt" => p.row.state = "unknown"
      /\ p.how = "rotate" => p.row.managed
  BY <1>3 DEF Resolve, ActiveManaged
<1> QED BY <1>1, <1>2, <1>4 DEF Claims, At, Copies, Hooks

\* The writer at work is done: the table is all that there is to show.
LEMMA ClaimsDone ==
  ASSUME Claimed(rows, term)', Nobody', deleted' = {}
  PROVE  Claims'
BY DEF Claims, Nobody, Idle, At

\* The event of a conversation that has a row, keeps its terminal.
LEMMA ClaimsOwn ==
  ASSUME Copies, Claims, Quiet, Taking, NEW c \in Ids, NEW state \in {"live", "ended"},
         HookSave(c, state), hook[c].pick.how = "own"
  PROVE  Claimed(rows, term)'
<1> DEFINE row == [hook[c].pick.row EXCEPT !.state = state, !.cleared = FALSE]
<1>1. At(c) /\ rows' = Save(rows, c, row) /\ term' = term
  BY DEF HookSave, At
<1>2. hook[c].pick.row = rows[c] /\ rows \in Tables /\ hook[c].pick.row \in Row
  BY <1>1 DEF Quiet, Taking, Fresh, Loaded, Copies, Database, Hooks, Pick, Picks, At
<1>3. row \in Row /\ row.tmux = rows[c].tmux /\ row.managed = rows[c].managed
      /\ row.state # "unknown"
  BY <1>2 DEF Row
<1>4. c \in Present(rows)
  BY <1>2, RowIsOne DEF Present
<1> HIDE DEF row
<1>5. PICK s \in Row : /\ s.state = row.state /\ s.managed = row.managed /\ s.tmux = row.tmux
                       /\ Save(rows, c, row) = [rows EXCEPT ![c] = s]
  BY <1>2, <1>3, SaveShape
<1>6. Claimed([rows EXCEPT ![c] = s], term)
  <2>1. Claimed(rows, term) /\ s.tmux = rows[c].tmux /\ s.state # "unknown"
        /\ (s.managed => rows[c].managed)
    BY <1>3, <1>5 DEF Claims
  <2> QED BY <1>2, <1>4, <2>1, ClaimedSame
<1> QED BY <1>1, <1>5, <1>6

\* Adoption: the placeholder goes, and its terminal takes the name of the
\* conversation, or keeps its own.
LEMMA ClaimsAdopt ==
  ASSUME Copies, Claims, Quiet, Taking, NEW c \in Ids, NEW state \in {"live", "ended"},
         HookSave(c, state), hook[c].pick.how = "adopt"
  PROVE  Claimed(rows, term)'
<1> DEFINE p    == hook[c].pick.from
           name == NewName(term, p, c)
           row  == [hook[c].pick.row EXCEPT !.state = state, !.cleared = FALSE,
                                            !.managed = TRUE, !.tmux = name]
           less == Drop(rows, {p})
<1>1. /\ At(c) /\ Pick(c, hook[c].pick) /\ hook[c].pick.row = rows[p] /\ rows[c] = NoRow
      /\ p \in Ids /\ p # c /\ rows[p] \in Row /\ rows[p].state = "unknown"
      /\ rows \in Tables /\ term \in Terms(seen)
  BY DEF HookSave, At, Quiet, Taking, Fresh, Loaded, Copies, Database, Server, Hooks, Pick,
     Picks, Claims
<1>2. p \in Present(rows) /\ rows[p].tmux = p /\ term[p].proc > 0
      /\ \A k \in Present(rows) : rows[k].tmux = p => k = p
  BY <1>1, RowIsOne DEF Present, Claims, Claimed
<1>3. term' = Renamed(term, p, c) /\ rows' = Save(less, c, row)
  BY <1>1, <1>2 DEF HookSave
<1>4. name \in Ids /\ term'[name] = term[p] /\ name \in {p, c}
      /\ (name = c => term[c].proc = 0) /\ (name = p => term' = term)
      /\ \A t \in Ids \ {p, c} : term'[t] = term[t]
  BY <1>1, <1>2, <1>3, Renaming DEF NewName, Renames, Renamed, Terms
<1>5. row \in Row /\ row.managed /\ row.tmux = name /\ row.state # "unknown"
  BY <1>1, <1>4 DEF Row
<1>6. less \in Tables /\ Claimed(less, term) /\ Present(less) = Present(rows) \ {p}
      /\ \A k \in Present(less) : less[k] = rows[k]
  <2>1. less \in Tables /\ Claimed(less, term)
    BY <1>1, Dropping, ClaimedDropped DEF Claims
  <2>2. \A k \in Ids : less[k] = IF k = p THEN NoRow ELSE rows[k]
    BY DEF Drop
  <2> QED BY <1>1, <2>1, <2>2 DEF Present
<1> HIDE DEF p, name, row, less
<1>7. \A k \in Present(less) : less[k].tmux # p /\ less[k].tmux # name /\ k # c /\ k # p
  BY <1>1, <1>2, <1>4, <1>6 DEF Claims, Claimed, Present
<1>8. Claimed(less, term')
  <2>1. \A k \in Present(less) : less[k].tmux \in Ids /\ term'[less[k].tmux].proc > 0
    <3> TAKE k \in Present(less)
    <3>1. less[k].tmux \in Ids /\ term[less[k].tmux].proc > 0 /\ less[k].tmux # p
      BY <1>6, <1>7 DEF Claimed
    <3>2. CASE less[k].tmux = c
      BY <1>2, <1>4, <1>7, <3>1, <3>2
    <3> QED BY <1>4, <3>1, <3>2
  <2> QED BY <1>6, <2>1 DEF Claimed
<1>9. PICK s \in Row : /\ s.state = row.state /\ s.managed = row.managed /\ s.tmux = row.tmux
                       /\ Save(less, c, row) = [less EXCEPT ![c] = s]
  BY <1>5, <1>6, SaveShape
<1>10. Claimed([less EXCEPT ![c] = s], term')
  <2>1. /\ s.tmux = name /\ s.state # "unknown" /\ term'[name].proc > 0
        /\ \A k \in Present(less) \ {c} : less[k].tmux # name
        /\ \A k \in Present(less) \ {c} : k # name
    BY <1>2, <1>4, <1>5, <1>7, <1>9
  <2> QED BY <1>1, <1>4, <1>6, <1>8, <2>1, ClaimedNew
<1> QED BY <1>3, <1>9, <1>10

\* Rotation: the turn before is no longer managed, and the next one has its
\* terminal.
LEMMA ClaimsRotate ==
  ASSUME Copies, Claims, Quiet, Taking, NEW c \in Ids, NEW state \in {"live", "ended"},
         HookSave(c, state), hook[c].pick.how = "rotate"
  PROVE  Claimed(rows, term)'
<1> DEFINE m    == hook[c].pick.from
           old  == [hook[c].pick.row EXCEPT !.managed = FALSE, !.state = "ended",
                                            !.cleared = TRUE]
           row  == [hook[c].pick.row EXCEPT !.state = state, !.cleared = FALSE,
                                            !.managed = TRUE, !.pid = 0]
           past == Save(rows, m, old)
<1>1. /\ At(c) /\ hook[c].pick.row = rows[m] /\ rows[c] = NoRow
      /\ m \in Ids /\ rows[m] \in Row /\ rows[m].managed
      /\ rows \in Tables
  BY DEF HookSave, At, Quiet, Taking, Fresh, Loaded, Copies, Database, Hooks, Pick,
     Picks, Claims
<1>2. m \in Present(rows) /\ m # c
  BY <1>1, RowIsOne DEF Present
<1>3. term' = term /\ rows' = Save(past, c, row)
  BY <1>1 DEF HookSave
<1>4. old \in Row /\ old.tmux = rows[m].tmux /\ old.managed = FALSE /\ old.state = "ended"
  BY <1>1 DEF Row
<1>5. row \in Row /\ row.tmux = rows[m].tmux /\ row.state # "unknown"
  <2>1. 0 \in 0 .. 2 * MaxProcs
    BY SessionRowsAssumption
  <2> QED BY <1>1, <2>1 DEF Row
<1> HIDE DEF m, old, row
<1>6. PICK s \in Row : /\ s.state = old.state /\ s.managed = old.managed /\ s.tmux = old.tmux
                       /\ past = [rows EXCEPT ![m] = s]
  BY <1>1, <1>4, SaveShape
<1>7. past \in Tables /\ Claimed(past, term)
  <2>1. Claimed(rows, term) /\ s.tmux = rows[m].tmux /\ s.state # "unknown"
        /\ (s.managed => rows[m].managed)
    BY <1>1, <1>4, <1>6 DEF Claims
  <2>2. Claimed([rows EXCEPT ![m] = s], term)
    BY <1>1, <1>2, <2>1, ClaimedSame
  <2> QED BY <1>1, <1>6, <2>2 DEF Tables
<1>8. past[m] = s /\ Present(past) = Present(rows) /\ \A k \in Ids \ {m} : past[k] = rows[k]
  BY <1>1, <1>2, <1>6, RowIsOne DEF Tables, Present
<1> HIDE DEF past
<1>9. \A k \in Present(past) \ {c} :
        /\ past[k].managed => past[k].tmux # row.tmux
        /\ past[k].state = "unknown" => k # row.tmux
  <2> TAKE k \in Present(past) \ {c}
  <2>1. CASE k = m
    BY <1>4, <1>6, <1>8, <2>1
  <2>2. CASE k # m
    BY <1>1, <1>2, <1>5, <1>8, <2>2 DEF Claims, Claimed, Present
  <2> QED BY <2>1, <2>2
<1>10. row.tmux \in Ids /\ term[row.tmux].proc > 0
  BY <1>2, <1>5 DEF Claims, Claimed
<1>11. PICK n \in Row : /\ n.state = row.state /\ n.managed = row.managed /\ n.tmux = row.tmux
                        /\ Save(past, c, row) = [past EXCEPT ![c] = n]
  BY <1>5, <1>7, SaveShape
<1>12. Claimed([past EXCEPT ![c] = n], term)
  <2>1. n.tmux = row.tmux /\ n.state # "unknown"
    BY <1>5, <1>11
  <2> QED BY <1>1, <1>7, <1>9, <1>10, <2>1, ClaimedNew
<1> QED BY <1>3, <1>11, <1>12

LEMMA ClaimsSpawnSave ==
  ASSUME Copies, Claims, Quiet, SpawnSave
  PROVE  Claimed(rows, term)'
<1> DEFINE id == call.id
           r  == call.row
<1>1. id \in Ids /\ r \in Row /\ rows \in Tables
  BY DEF SpawnSave, Copies, CallHolds, Database, Base, Idle
<1>2. /\ r.tmux = id /\ term[id].proc > 0 /\ \A k \in Present(rows) : rows[k].tmux # id
      /\ Claimed(rows, term)
  BY DEF SpawnSave, Claims
<1>3. rows' = Save(rows, id, r) /\ term' = term
  BY DEF SpawnSave
<1> HIDE DEF id, r
<1>4. PICK s \in Row : /\ s.state = r.state /\ s.managed = r.managed /\ s.tmux = r.tmux
                       /\ Save(rows, id, r) = [rows EXCEPT ![id] = s]
  BY <1>1, SaveShape
<1>5. /\ s.tmux = id
      /\ \A k \in Present(rows) \ {id} : rows[k].tmux # id /\ k # id
  BY <1>2, <1>4
<1>6. Claimed([rows EXCEPT ![id] = s], term)
  BY <1>1, <1>2, <1>5, ClaimedNew
<1> QED BY <1>3, <1>4, <1>6

\* The row of a pane takes its terminal, from all that shared it.
LEMMA ClaimsScan ==
  ASSUME Copies, Claims, Quiet, Taking, NEW t \in Ids,
         ScanDeadShell(t) \/ ScanGone(t) \/ ScanPane(t)
  PROVE  Claims'
<1>1. Turns /\ Fresh /\ scan.op = "panes" /\ UNCHANGED <<hook, call, deleted>> /\ rows \in Tables
  BY DEF Quiet, Taking, ScanDeadShell, ScanGone, ScanPane, Copies, Database
<1>2. call = Idle /\ \A c \in Ids : ~At(c)
  BY <1>1 DEF Taking, Alone, Idle
<1>3. \A k \in Present(rows) : k \in Ids /\ rows[k] \in Row
  BY <1>1 DEF Present, Tables
<1>4. Claimed(rows, term) /\ deleted = {}
  BY DEF Claims
<1>5. CASE rows' = rows /\ term' = term
  BY <1>1, <1>2, <1>4, <1>5 DEF Claims, Idle, At
<1>6. CASE ScanDeadShell(t)
  <2>1. ASSUME NEW i \in Present(rows), rows' = [rows EXCEPT ![i] = Ended(rows[i])]
        PROVE  Claimed(rows', term)
    <3>1. Ended(rows[i]) \in Row /\ Ended(rows[i]).managed = rows[i].managed
          /\ Ended(rows[i]).tmux = rows[i].tmux /\ Ended(rows[i]).state = "ended"
      BY <1>3, EndedIsRow DEF Ended, Row
    <3>2. Claimed([rows EXCEPT ![i] = Ended(rows[i])], term)
      BY <1>1, <1>4, <3>1, ClaimedSame
    <3> QED BY <2>1, <3>2
  <2>2. term' = term
    BY <1>6 DEF ScanDeadShell
  <2> QED BY <1>1, <1>2, <1>4, <1>5, <1>6, <2>1, <2>2, ScanEnds DEF Claims, Idle, At
<1>7. CASE ScanPane(t)
  <2>1. term' = term /\ Running(t)
    BY <1>4, <1>7 DEF ScanPane, Condemned, Reconciled, Turns, Quiet
  <2>2. ASSUME NEW i \in Owners(t), i \in Present(rows), Tied(i, t) \in Row,
               rows' = [Drop(rows, Twins(i, t)) EXCEPT ![i] = Tied(i, t)]
        PROVE  Claimed(rows', term)
    <3> DEFINE less == Drop(rows, Twins(i, t))
               tied == Tied(i, t)
    <3>1. less \in Tables /\ Claimed(less, term)
      BY <1>1, <1>4, Dropping, ClaimedDropped
    <3>2. \A k \in Present(less) : k \in Present(rows) /\ less[k] = rows[k] /\ k \notin Twins(i, t)
      BY DEF Drop, Present
    <3>3. tied.tmux = t /\ tied.state # "unknown"
      BY <1>3, <2>2 DEF Tied, Row
    <3>4. \A k \in Present(less) \ {i} : less[k].tmux # t
      BY <3>2 DEF Twins
    <3>5. \A k \in Present(less) \ {i} : less[k].state = "unknown" => k # t
      BY <3>1, <3>4 DEF Claimed
    <3>6. term[t].proc > 0 /\ i \in Ids
      BY <2>1, <2>2 DEF Running, Present
    <3> HIDE DEF less, tied
    <3>7. Claimed([less EXCEPT ![i] = tied], term)
      BY <2>2, <3>1, <3>3, <3>4, <3>5, <3>6, ClaimedNew DEF tied
    <3> QED BY <2>2, <3>7 DEF less, tied
  <2> QED BY <1>1, <1>2, <1>4, <1>5, <1>7, <2>1, <2>2, ScanTies DEF Claims, Idle, At
<1>8. CASE ScanGone(t)
  BY <1>5, <1>8 DEF ScanGone
<1> QED BY <1>6, <1>7, <1>8

LEMMA ClaimsPass ==
  ASSUME Copies, Claims, Quiet, Taking, ScanDisk \/ ProbeSave
  PROVE  Claimed(rows, term)'
<1>1. Turns /\ Fresh /\ rows \in Tables /\ Claimed(rows, term) /\ term' = term
  BY DEF Quiet, Taking, Turns, ScanDisk, ProbeSave, Copies, Database, Claims
<1>2. CASE rows' = rows
  BY <1>1, <1>2
<1>3. CASE rows' # rows
  <2> DEFINE i == probe.id
  <2>1. probe.op = "probe" /\ rows' = Save(rows, i, Ended(probe.row))
    BY <1>1, <1>3 DEF ScanDisk, ProbeSave, Turns, Ended
  <2>2. i \in Ids /\ probe.row \in Row /\ rows[i] = probe.row
    BY <1>1, <2>1 DEF Copies, ProbeHolds, Base, Idle, Fresh
  <2>3. Ended(probe.row) \in Row
        /\ Ended(probe.row).managed = probe.row.managed
        /\ Ended(probe.row).tmux = probe.row.tmux /\ Ended(probe.row).state = "ended"
    BY <2>2, EndedIsRow DEF Ended, Row
  <2>4. rows' = [rows EXCEPT ![i] = Ended(probe.row)]
    BY <1>1, <2>1, <2>2, <2>3, SaveSame
  <2>5. i \in Present(rows)
    BY <2>2, RowIsOne DEF Present
  <2> HIDE DEF i
  <2>6. Claimed([rows EXCEPT ![i] = Ended(probe.row)], term)
    BY <1>1, <2>2, <2>3, <2>5, ClaimedSame
  <2> QED BY <1>1, <2>4, <2>6
<1> QED BY <1>2, <1>3

LEMMA ClaimsStep ==
  ASSUME Copies, Counted, Taking, Quiet, Claims, [Advance]_vars
  PROVE  Claims'
<1>0. Turns /\ Alone /\ Fresh /\ call.op # "api" /\ deleted = {}
  BY DEF Quiet, Taking, Claims
<1>1. CASE \/ UNCHANGED vars \/ \E t, c \in Ids : OpenConversation(t, c)
           \/ \E t \in Ids : CliExits(t) \/ \E c \in Ids : Post(c) \/ HookIgnored(c)
  BY <1>1, ClaimsOfOthers
<1>2. CASE \E c \in Ids : HookRead(c)
  BY <1>2, ClaimsHookRead
<1>3. ASSUME NEW c \in Ids, NEW state \in {"live", "ended"}, HookSave(c, state)
      PROVE  Claims'
  <2>1. hook[c].pick.how \in {"own", "adopt", "rotate"}
    BY <1>3 DEF HookSave
  <2>2. Claimed(rows, term)'
    BY <1>3, <2>1, ClaimsOwn, ClaimsAdopt, ClaimsRotate
  <2>3. Nobody' /\ deleted' = {}
    BY <1>0, <1>3, TurnsDone DEF HookDo, HookSave
  <2> QED BY <2>2, <2>3, ClaimsDone
<1>4. CASE ScanStart \/ \E i \in Ids : SpawnOpen(i) \/ CallRead(i) \/ ProbeRead(i)
  BY <1>4, ClaimsStart
<1>5. CASE CallDo
  <2>1. SpawnSave
    BY <1>0, <1>5 DEF CallDo, Touch, Kill, Delete, Restart, Resume, TakeWheel,
       SwitchHeadless, Answered
  <2>2. Nobody' /\ deleted' = {}
    BY <1>0, <1>5, <2>1, TurnsDone DEF SpawnSave
  <2> QED BY <2>1, <2>2, ClaimsSpawnSave, ClaimsDone
<1>6. CASE ScanDisk \/ ProbeSave
  <2>1. Nobody' /\ deleted' = {}
    BY <1>0, <1>6, TurnsDone DEF ScanDisk, ProbeSave
  <2> QED BY <1>6, <2>1, ClaimsPass, ClaimsDone
<1>7. CASE \E t \in Ids : ScanDeadShell(t) \/ ScanGone(t) \/ ScanPane(t)
  BY <1>7, ClaimsScan
<1> QED BY <1>1, <1>2, <1>3, <1>4, <1>5, <1>6, <1>7 DEF Advance, ScanStep, HookDo

-----------------------------------------------------------------------------
(* All parts together. *)
Ownership ==
  /\ Copies /\ ParkedHolds /\ Counted /\ Taking
  /\ Turns => parked = Idle
  /\ Settled => Homes
  /\ Quiet => Claims

LEMMA OwnershipInit == Init => Ownership
<1> SUFFICES ASSUME Init PROVE Ownership
  OBVIOUS
<1>1. Copies /\ ParkedHolds /\ parked = Idle
  BY CopiesInit DEF Init, ParkedHolds
<1>2. Counted
  BY DEF Init, Counted
<1>3. Present(rows) = {} /\ Nobody
  BY DEF Init, Present, Nobody, At, Idle
<1>4. Taking
  BY <1>3, Nobodys DEF Taking
<1>5. \A t \in Ids : term[t].proc = 0 /\ term[t].conv = "shell"
  BY DEF Init, NoTerm
<1>6. Homes
  BY <1>3, <1>5 DEF Init, Homes, Rooms, Running, Nobody, Idle
<1>7. Claims
  BY <1>3 DEF Init, Claims, Claimed, Nobody, Idle
<1> QED BY <1>1, <1>2, <1>4, <1>6, <1>7 DEF Ownership

\* A step of a handler.
LEMMA OwnershipAdvance ==
  ASSUME Ownership, [Advance]_vars
  PROVE  Ownership'
<1>1. Copies' /\ ParkedHolds'
  BY Step, ParkedStays DEF Ownership, ParkedHolds
<1>2. Counted' /\ mode' = mode
  BY CountedStep DEF Ownership
<1>3. Taking'
  BY TurnsStep DEF Ownership
<1>4. Settled' => Homes'
  BY <1>2, HomesStep DEF Ownership, Settled, Turns
<1>5. Quiet' => Claims'
  BY <1>2, ClaimsStep DEF Ownership, Quiet, Turns
<1>6. Turns' => parked' = Idle
  BY <1>2, ParkedStays DEF Ownership, Turns
<1> QED BY <1>1, <1>2, <1>3, <1>4, <1>5, <1>6 DEF Ownership

\* A call is overtaken only where more than one writer is at work.
LEMMA OwnershipSwitch ==
  ASSUME Ownership, Switch
  PROVE  Ownership'
<1>1. Copies' /\ ParkedHolds'
  BY Switched DEF Ownership
<1>2. mode' = mode /\ resets' = resets /\ calls' = calls
  BY DEF Switch
<1>3. Counted'
  BY <1>2 DEF Ownership, Counted
<1>4. ~Turns
  <2> SUFFICES ASSUME Turns PROVE FALSE
    OBVIOUS
  <2>1. call # Idle /\ Admitted
    BY DEF Switch, Ownership
  <2>2. Nobody
    BY <2>1, Admits DEF Ownership, Taking, Turns
  <2> QED BY <2>1, <2>2 DEF Nobody
<1>5. ~Turns' /\ ~Settled' /\ ~Quiet'
  BY <1>2, <1>4 DEF Turns, Settled, Quiet
<1> QED BY <1>1, <1>3, <1>5 DEF Ownership, Taking

LEMMA OwnershipStep ==
  ASSUME Ownership, [Next]_vars
  PROVE  Ownership'
BY OwnershipAdvance, OwnershipSwitch DEF Next

LEMMA OwnersAreOne == Ownership => SerialOneOwner
<1> SUFFICES ASSUME Ownership, Orderly, NEW i \in Present(rows), NEW k \in Present(rows),
                    rows[i].managed, rows[i].tmux # None, rows[k].managed,
                    rows[i].tmux = rows[k].tmux
             PROVE  i = k
  BY DEF SerialOneOwner
<1>1. CASE mode.calls = 0
  BY <1>1 DEF Ownership, Orderly, Quiet, Turns, Claims, Claimed
<1>2. CASE mode.resets = 0 /\ ~mode.late
  BY <1>2 DEF Ownership, Orderly, Settled, Turns, Homes, Good
<1> QED BY <1>1, <1>2 DEF Orderly

(* As long as writers take turns, no two live rows of Claude Code claim one *)
(* terminal, for any ids, terminals and calls without a reset and a late   *)
(* event, and for any resets and late events without calls.                *)
THEOREM OneOwner == Spec => []SerialOneOwner
<1>1. Init => Ownership
  BY OwnershipInit
<1>2. Ownership /\ [Next]_vars => Ownership'
  BY OwnershipStep
<1>3. Ownership => SerialOneOwner
  BY OwnersAreOne
<1> QED BY <1>1, <1>2, <1>3, PTL DEF Spec
=============================================================================
