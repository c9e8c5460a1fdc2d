---------------------------- MODULE SessionRows ----------------------------
(***************************************************************************)
(* The rows of the sessions table of one daemon, the tmux terminals they   *)
(* name, and the four parties that write them without a common lock: the   *)
(* hook handlers (one lock per conversation), the HTTP handlers of the     *)
(* session API, the 30 second scan, and the liveness check.  Every writer  *)
(* loads whole rows, works on its copies while the others run, and saves   *)
(* whole rows.                                                             *)
(*                                                                         *)
(* One agent, one directory, one host: a session's row, its conversation   *)
(* and the tmux name "ackbar-<agent>-<id>" are all identified by the       *)
(* native id.  The state of a row is collapsed to unknown (spawning), live *)
(* (working, blocked or idle) and ended.                                   *)
(***************************************************************************)
EXTENDS Naturals, FiniteSets

CONSTANTS
    Ids,        \* native ids: placeholders and conversations
    None,       \* no terminal
    Modes,      \* the instances that one run explores, see below
    MaxProcs    \* bound on the terminals ever started

(* An instance: its CLI, the ids it may hand out, and its bounds on        *)
(* terminals, resets of a conversation (/clear, /reset), calls on existing *)
(* rows and writers at work at one time; late events are those that a      *)
(* handler reads after the CLI that sent them has gone.                    *)
ASSUME SessionRowsAssumption ==
    /\ {None, "blank", "shell"} \cap Ids = {} /\ MaxProcs \in Nat
    /\ \A m \in Modes : /\ m.agent \in {"claude-code", "antigravity"}
                        /\ m.ids \subseteq Ids /\ m.procs \in 0 .. MaxProcs
                        /\ {m.resets, m.calls, m.writers} \subseteq Nat
                        /\ m.late \in BOOLEAN

VARIABLES
    mode,       \* the instance
    rows,       \* the sessions table
    term,       \* the tmux server: process and conversation behind each name
    convs,      \* conversations that left artifacts on disk
    seen,       \* ids handed out so far
    deleted,    \* the deleted_sessions table
    procs,      \* terminals started so far
    resets,     \* resets so far
    calls,      \* API calls so far
    hook,       \* the event in flight of each conversation
    call,       \* the HTTP call at work
    parked,     \* a call that another one has overtaken
    scan,       \* the scan in flight
    probe       \* the liveness check in flight

vars == <<mode, rows, term, convs, seen, deleted, procs, resets, calls,
          hook, call, parked, scan, probe>>

NoRow == [state |-> "none"]
Row == [state : {"unknown", "live", "ended"}, managed : BOOLEAN,
        tmux : Ids \cup {None}, pid : 0 .. 2 * MaxProcs,
        cleared : BOOLEAN]
NoTerm == [proc |-> 0, conv |-> "shell"]
Idle == [op |-> "idle"]

(* The processes of the p-th terminal: the pane's shell and the CLI in it. *)
PaneOfNext(p) == 2 * p + 1
Pane(p) == 2 * p - 1
Cli(p) == 2 * p

Present(table) == {i \in Ids : table[i] # NoRow}
Running(t) == term[t].proc > 0 /\ term[t].conv # "shell"
Runs(c) == \E t \in Ids : Running(t) /\ term[t].conv = c

(* SaveSession: one upsert writes every column of these from the copy.     *)
Save(table, i, row) == [table EXCEPT ![i] = row]

DropNone(table, gone) == table
Drop(table, gone) == [i \in Ids |-> IF i \in gone THEN NoRow ELSE table[i]]

(* tmux kill-session by name, kill -9 by process id. *)
KillName(tt, names) == [t \in Ids |-> IF t \in names THEN NoTerm ELSE tt[t]]
KillPid(tt, pid) ==
    [t \in Ids |->
        IF tt[t].proc = 0 THEN NoTerm
        ELSE IF pid = Pane(tt[t].proc) THEN NoTerm
        ELSE IF pid = Cli(tt[t].proc) THEN [tt[t] EXCEPT !.conv = "shell"]
        ELSE tt[t]]
PidAlive(pid) ==
    \E t \in Ids : /\ term[t].proc > 0
                   /\ \/ pid = Pane(term[t].proc)
                      \/ Running(t) /\ pid = Cli(term[t].proc)
Open(tt, t, conv) == [tt EXCEPT ![t] = [proc |-> procs + 1, conv |-> conv]]

(* tmux rename-session fails when the new name is taken. *)
Renames(tt, t, new) == t # new /\ tt[t].proc > 0 /\ tt[new].proc = 0
Renamed(tt, t, new) ==
    IF Renames(tt, t, new) THEN [tt EXCEPT ![new] = tt[t], ![t] = NoTerm] ELSE tt
NewName(tt, t, new) == IF Renames(tt, t, new) THEN new ELSE t

Admitted ==
    Cardinality({c \in Ids : hook[c].op = "event"})
      + Cardinality({w \in {<<"call", call>>, <<"parked", parked>>, <<"scan", scan>>,
                            <<"probe", probe>>} : w[2] # Idle}) < mode.writers

-----------------------------------------------------------------------------
Init ==
    /\ mode \in Modes
    /\ rows = [i \in Ids |-> NoRow]
    /\ term = [t \in Ids |-> NoTerm]
    /\ convs = {} /\ seen = {} /\ deleted = {}
    /\ procs = 0 /\ resets = 0 /\ calls = 0
    /\ hook = [c \in Ids |-> Idle]
    /\ call = Idle /\ parked = Idle /\ scan = Idle /\ probe = Idle

(* The CLI in a terminal: an agent that names its own conversations opens  *)
(* one at the first prompt; a reset opens the next one; the CLI exits and  *)
(* leaves the login shell of the pane.                                     *)
OpenConversation(t, c) ==
    /\ Running(t) /\ c \in mode.ids \ seen
    /\ \/ /\ term[t].conv = "blank"
          /\ UNCHANGED resets
       \/ /\ term[t].conv \in Ids /\ resets < mode.resets
          /\ resets' = resets + 1
    /\ term' = [term EXCEPT ![t].conv = c]
    /\ convs' = convs \cup {c} /\ seen' = seen \cup {c}
    /\ UNCHANGED <<mode, rows, deleted, procs, calls, hook, call, scan, probe, parked>>

CliExits(t) ==
    /\ Running(t)
    /\ term' = [term EXCEPT ![t].conv = "shell"]
    /\ UNCHANGED <<mode, rows, convs, seen, deleted, procs, resets, calls,
                   hook, call, scan, probe, parked>>

-----------------------------------------------------------------------------
(***************************************************************************)
(* Hook events.  An event of conversation c is resolved to its own row, to *)
(* a spawning placeholder it adopts, or to the managed session of its      *)
(* directory whose conversation it follows; otherwise it is ignored.       *)
(***************************************************************************)
(* The newest first: a spawning row; for an agent that names its own       *)
(* conversations also a row the scan has already taken out of spawning,    *)
(* as long as nothing on disk belongs to its id.                           *)
Newest(ids) == {i \in ids : \A k \in ids : rows[k].pid <= rows[i].pid}

Placeholders ==
    LET blank == {i \in Present(rows) : /\ rows[i].managed /\ rows[i].tmux # None
                                        /\ mode.agent = "antigravity" => i \notin convs \ deleted}
        spawning == {i \in blank : rows[i].state = "unknown"}
        waiting == {i \in blank : rows[i].state # "ended" /\ rows[i].tmux = i}
    IN  IF spawning # {} THEN Newest(spawning)
        ELSE IF mode.agent = "antigravity" THEN Newest(waiting) ELSE {}

ActiveManaged ==
    {i \in Present(rows) :
        rows[i].managed /\ rows[i].state # "ended" /\ rows[i].tmux # None}

(* Claude Code records which process and terminal own a conversation;      *)
(* without a record, a live process of the old row refutes the match.      *)
SameSupervisor(i, c) ==
    LET r == rows[i]
        owners == {t \in Ids : mode.agent = "claude-code" /\ Running(t) /\ term[t].conv = c}
    IN  IF owners # {} THEN r.tmux \in owners ELSE ~PidAlive(r.pid)

Resolve(c) ==
    IF rows[c] # NoRow
    THEN IF ~rows[c].managed /\ rows[c].state = "ended" /\ rows[c].cleared THEN {}
         ELSE {[how |-> "own", from |-> c, row |-> rows[c]]}
    ELSE IF Placeholders # {}
         THEN {[how |-> "adopt", from |-> p, row |-> rows[p]] : p \in Placeholders}
         ELSE {[how |-> "rotate", from |-> m, row |-> rows[m]] :
                 m \in {i \in ActiveManaged : SameSupervisor(i, c)}}

Posted == [op |-> "posted"]

Post(c) ==
    /\ Runs(c) /\ hook[c] = Idle
    /\ hook' = [hook EXCEPT ![c] = Posted]
    /\ UNCHANGED <<mode, rows, term, convs, seen, deleted, procs, resets, calls,
                   call, scan, probe, parked>>

HookIgnored(c) ==
    /\ hook[c] = Posted
    /\ Resolve(c) = {} \/ ~(mode.late \/ Runs(c))
    /\ hook' = [hook EXCEPT ![c] = Idle]
    /\ UNCHANGED <<mode, rows, term, convs, seen, deleted, procs, resets, calls,
                   call, scan, probe, parked>>

HookRead(c) ==
    /\ hook[c] = Posted /\ Admitted
    /\ mode.late \/ Runs(c)
    /\ \E pick \in Resolve(c) :
         hook' = [hook EXCEPT ![c] = [op |-> "event", pick |-> pick]]
    /\ UNCHANGED <<mode, rows, term, convs, seen, deleted, procs, resets, calls,
                   call, scan, probe, parked>>

HookSave(c, state) ==
    /\ hook[c].op = "event"
    /\ LET p == hook[c].pick
           next == [p.row EXCEPT !.state = state,
                                 !.cleared = FALSE]
       IN  \/ /\ p.how = "own"
              /\ rows' = Save(rows, c, next)
              /\ UNCHANGED term
           \/ /\ p.how = "adopt"
              /\ term' = Renamed(term, p.row.tmux, c)
              /\ rows' = Save(Drop(rows, {p.from}), c,
                              [next EXCEPT !.managed = TRUE,
                                           !.tmux = NewName(term, p.row.tmux, c)])
           \/ /\ p.how = "rotate"
              /\ rows' = Save(Save(rows, p.from,
                                   [p.row EXCEPT !.managed = FALSE, !.state = "ended",
                                                 !.cleared = TRUE]),
                              c, [next EXCEPT !.managed = TRUE, !.pid = 0])
              /\ UNCHANGED term
    /\ hook' = [hook EXCEPT ![c] = Idle]
    /\ UNCHANGED <<mode, convs, seen, deleted, procs, resets, calls, call, scan, probe, parked>>

-----------------------------------------------------------------------------
(***************************************************************************)
(* The session API.  A call loads its row, and acts on that copy.  The     *)
(* server handles calls in parallel: here two at most, of which one at a   *)
(* time does its step.                                                     *)
(***************************************************************************)
Switch ==
    /\ parked # Idle \/ (call # Idle /\ Admitted)
    /\ call' = parked /\ parked' = call
    /\ UNCHANGED <<mode, rows, term, convs, seen, deleted, procs, resets, calls,
                   hook, scan, probe>>

SpawnRow(i) == [state |-> "unknown", managed |-> TRUE, tmux |-> i,
                pid |-> Pane(procs + 1), cleared |-> FALSE]

(* handleSpawn starts the terminal first and inserts the row afterwards. *)
SpawnOpen(i) ==
    /\ call = Idle /\ Admitted /\ i \in mode.ids \ seen /\ procs < mode.procs /\ term[i].proc = 0
    /\ term' = Open(term, i, IF mode.agent = "claude-code" THEN i ELSE "blank")
    /\ procs' = procs + 1
    /\ seen' = seen \cup {i}
    /\ convs' = IF mode.agent = "claude-code" THEN convs \cup {i} ELSE convs
    /\ call' = [op |-> "spawn", id |-> i, row |-> SpawnRow(i)]
    /\ UNCHANGED <<mode, rows, deleted, resets, calls, hook, scan, probe, parked>>

SpawnSave ==
    /\ call.op = "spawn"
    /\ rows' = Save(rows, call.id, call.row)
    /\ call' = Idle
    /\ UNCHANGED <<mode, term, convs, seen, deleted, procs, resets, calls, hook, scan, probe, parked>>

CallRead(i) ==
    /\ call = Idle /\ rows[i] # NoRow /\ Admitted /\ calls < mode.calls
    /\ call' = [op |-> "api", id |-> i, row |-> rows[i]]
    /\ calls' = calls + 1
    /\ UNCHANGED <<mode, rows, term, convs, seen, deleted, procs, resets,
                   hook, scan, probe, parked>>

Owned(row) == IF row.managed /\ row.tmux # None THEN {row.tmux} ELSE {}
Answered == call.op = "api" /\ call' = Idle

(* archive, done, later, move, rename, config, respond, bind-supervisor:   *)
(* the copy is saved.                                                      *)
Touch ==
    /\ Answered
    /\ rows' = Save(rows, call.id, call.row)
    /\ UNCHANGED <<mode, term, convs, seen, deleted, procs, resets, calls, hook, scan, probe, parked>>

Kill ==
    /\ Answered
    /\ term' = KillPid(KillName(term, Owned(call.row)), call.row.pid)
    /\ rows' = Save(rows, call.id, [call.row EXCEPT !.state = "ended", !.cleared = FALSE])
    /\ UNCHANGED <<mode, convs, seen, deleted, procs, resets, calls, hook, scan, probe, parked>>

Delete ==
    /\ Answered
    /\ term' = KillPid(KillName(term, Owned(call.row)), call.row.pid)
    /\ deleted' = deleted \cup {call.id}
    /\ rows' = Drop(rows, {call.id})
    /\ UNCHANGED <<mode, convs, seen, procs, resets, calls, hook, scan, probe, parked>>

(* The terminal that a call starts for the conversation of its row.  *)
(* A conversation without artifacts cannot be resumed: its CLI exits.  *)
Reopen(tt, t) ==
    /\ procs < mode.procs
    /\ procs' = procs + 1
    /\ term' = Open(KillName(tt, {t}), t,
                    IF call.id \in convs \ deleted THEN call.id ELSE "shell")
    /\ rows' = Save(rows, call.id,
                    [call.row EXCEPT !.managed = TRUE, !.tmux = t, !.state = "live",
                                     !.pid = Pane(procs + 1), !.cleared = FALSE])

NameOf(row, i) == IF row.tmux = None THEN i ELSE row.tmux

Restart ==
    /\ Answered
    /\ Reopen(IF call.row.managed THEN KillName(term, Owned(call.row))
              ELSE KillPid(term, call.row.pid), NameOf(call.row, call.id))
    /\ UNCHANGED <<mode, convs, seen, deleted, resets, calls, hook, scan, probe, parked>>

Resume ==
    /\ Answered
    /\ Reopen(term, NameOf(call.row, call.id))
    /\ UNCHANGED <<mode, convs, seen, deleted, resets, calls, hook, scan, probe, parked>>

TakeWheel ==
    /\ Answered
    /\ IF Running(call.id)
       THEN /\ rows' = Save(rows, call.id,
                            [call.row EXCEPT !.managed = TRUE, !.tmux = call.id,
                                !.state = "live", !.pid = Pane(term[call.id].proc),
                                !.cleared = FALSE])
            /\ UNCHANGED <<term, procs>>
       ELSE Reopen(term, call.id)
    /\ UNCHANGED <<mode, convs, seen, deleted, resets, calls, hook, scan, probe, parked>>

SwitchHeadless ==
    /\ Answered
    /\ term' = KillName(term, {call.row.tmux, call.id})
    /\ rows' = Save(rows, call.id,
                    [call.row EXCEPT !.managed = TRUE, !.tmux = None, !.pid = 0,
                                     !.state = "live", !.cleared = FALSE])
    /\ UNCHANGED <<mode, convs, seen, deleted, procs, resets, calls, hook, scan, probe, parked>>

(* A call that ends with an error after it killed what it meant to replace *)
(* is not modelled: tmux starts what it is asked to start.                 *)

-----------------------------------------------------------------------------
(***************************************************************************)
(* The scan: the rows are listed once, then every pane is reconciled with  *)
(* the copies, then (antigravity) the conversations on disk.               *)
(***************************************************************************)
ScanStart ==
    /\ scan = Idle /\ Admitted
    /\ scan' = [op |-> "panes", known |-> rows,
                todo |-> {t \in Ids : term[t].proc > 0}]
    /\ UNCHANGED <<mode, rows, term, convs, seen, deleted, procs, resets, calls,
                   hook, call, probe, parked>>

(* The row of a pane: by the id in the terminal's name, else by the name. *)
RowsOf(known, t) ==
    IF known[t] # NoRow THEN {t}
    ELSE {i \in Present(known) : known[i].tmux = t}

Swept(t) == [scan EXCEPT !.todo = @ \ {t}]

(* The agent of a pane has exited: the login shell is all that is left. *)
ScanDeadShell(t) ==
    /\ scan.op = "panes" /\ t \in scan.todo
    /\ term[t].proc > 0 /\ term[t].conv = "shell"
    /\ LET hit == {i \in RowsOf(scan.known, t) :
                     scan.known[i].state # "ended"}
       IN  \/ /\ hit = {}
              /\ scan' = Swept(t)
              /\ UNCHANGED rows
           \/ \E i \in hit :
                LET end == [scan.known[i] EXCEPT !.state = "ended", !.pid = 0,
                                                 !.cleared = FALSE]
                IN  /\ rows' = Save(rows, i, end)
                    /\ scan' = [Swept(t) EXCEPT !.known[i] = end]
    /\ UNCHANGED <<mode, term, convs, seen, deleted, procs, resets, calls,
                   hook, call, probe, parked>>

ScanGone(t) ==
    /\ scan.op = "panes" /\ t \in scan.todo /\ term[t].proc = 0
    /\ scan' = Swept(t)
    /\ UNCHANGED <<mode, rows, term, convs, seen, deleted, procs, resets, calls,
                   hook, call, probe, parked>>

(* Antigravity: the process tells its conversation, and the pane's row is  *)
(* renamed to it, or merged into the row that the conversation has.        *)
Reconciled(t) ==
    LET c == term[t].conv
        name == NewName(term, t, c)
        known == scan.known
        real == IF known[c] # NoRow
                THEN IF known[t] # NoRow
                     THEN [known[c] EXCEPT !.managed = TRUE, !.pid = Cli(term[t].proc),
                                           !.tmux = name]
                     ELSE [known[c] EXCEPT !.tmux = name]
                ELSE IF known[t] # NoRow THEN [known[t] EXCEPT !.tmux = name]
                ELSE NoRow
    IN  IF mode.agent = "antigravity" /\ c \in Ids /\ c # t
        THEN [term |-> Renamed(term, t, c), name |-> name, id |-> c,
              rows |-> IF real = NoRow THEN rows ELSE Save(Drop(rows, {t}), c, real),
              known |-> [known EXCEPT ![t] = NoRow, ![c] = real]]
        ELSE [term |-> term, name |-> t, id |-> t, rows |-> rows, known |-> known]

(* The row is tied to the pane, and rows that share its terminal or its    *)
(* process are duplicates to be deleted.                                   *)
Adopted(r, i) ==
    LET cli == Cli(r.term[r.name].proc)
        kept == [r.known[i] EXCEPT !.managed = TRUE, !.pid = cli, !.tmux = r.name,
                    !.state = IF @ \in {"ended", "unknown"} THEN "live" ELSE @,
                    !.cleared = FALSE]
        twins == {k \in Present(r.known) \ {i} :
                    r.known[k].tmux = r.name \/ r.known[k].pid = cli}
    IN  [rows |-> Drop(Save(r.rows, i, kept), twins),
         known |-> [Drop(r.known, twins) EXCEPT ![i] = kept]]

CondemnedNever(id) == FALSE
Condemned(id) == id \in deleted

ScanPane(t) ==
    /\ scan.op = "panes" /\ t \in scan.todo /\ Running(t)
    /\ LET r == Reconciled(t)
           owners == IF r.known[r.id] # NoRow THEN {r.id}
                     ELSE {i \in Present(r.known) : r.known[i].tmux = r.name}
       IN  \/ /\ Condemned(r.id)
              /\ term' = KillName(r.term, {r.name})
              /\ rows' = r.rows
              /\ scan' = [Swept(t) EXCEPT !.known = r.known]
           \/ /\ ~Condemned(r.id) /\ owners = {}
              /\ term' = r.term /\ rows' = r.rows
              /\ scan' = [Swept(t) EXCEPT !.known = r.known]
           \/ /\ ~Condemned(r.id)
              /\ term' = r.term
              /\ \E i \in owners : /\ rows' = Adopted(r, i).rows
                                   /\ scan' = [Swept(t) EXCEPT !.known = Adopted(r, i).known]
    /\ UNCHANGED <<mode, convs, seen, deleted, procs, resets, calls, hook, call, probe, parked>>

ScanDisk ==
    /\ scan.op = "panes" /\ scan.todo = {}
    /\ scan' = Idle
    /\ LET lost == {c \in convs \ deleted : scan.known[c] = NoRow}
       IN  \/ /\ mode.agent = "claude-code" \/ lost = {} \/ Placeholders = {}
              /\ UNCHANGED <<rows, term>>
           \/ /\ mode.agent = "antigravity"
              /\ \E c \in lost, p \in Placeholders :
                   /\ term' = Renamed(term, rows[p].tmux, c)
                   /\ rows' = Save(Drop(rows, {p}), c,
                                   [rows[p] EXCEPT !.tmux = NewName(term, rows[p].tmux, c)])
    /\ UNCHANGED <<mode, convs, seen, deleted, procs, resets, calls, hook, call, probe, parked>>

-----------------------------------------------------------------------------
(* verifySessionLiveness, past the 15 minutes of grace after an event. *)
ProbeRead(i) ==
    /\ probe = Idle /\ Admitted /\ rows[i] # NoRow /\ rows[i].state # "ended" /\ rows[i].tmux # None
    /\ probe' = [op |-> "probe", id |-> i, row |-> rows[i]]
    /\ UNCHANGED <<mode, rows, term, convs, seen, deleted, procs, resets, calls,
                   hook, call, scan, parked>>

AliveIfManaged(row) == row.managed \/ row.pid = 0 \/ PidAlive(row.pid)
Alive(row) ==
    /\ row.managed => term[row.tmux].proc > 0
    /\ row.pid = 0 \/ PidAlive(row.pid)

ProbeSave ==
    /\ probe.op = "probe"
    /\ rows' = IF Alive(probe.row) THEN rows
               ELSE Save(rows, probe.id,
                         [probe.row EXCEPT !.state = "ended", !.pid = 0, !.cleared = FALSE])
    /\ probe' = Idle
    /\ UNCHANGED <<mode, term, convs, seen, deleted, procs, resets, calls, hook, call, scan, parked>>

CallDo == \/ SpawnSave \/ Touch \/ Kill \/ Delete \/ Restart
          \/ Resume \/ TakeWheel \/ SwitchHeadless
ScanStep == \/ ScanStart \/ ScanDisk
            \/ \E t \in Ids : ScanDeadShell(t) \/ ScanGone(t) \/ ScanPane(t)
HookDo(c) == \E state \in {"live", "ended"} : HookSave(c, state)

Advance ==
    \/ \E t, c \in Ids : OpenConversation(t, c)
    \/ \E t \in Ids : CliExits(t)
    \/ \E c \in Ids : Post(c) \/ HookIgnored(c) \/ HookRead(c) \/ HookDo(c)
    \/ \E i \in Ids : SpawnOpen(i) \/ CallRead(i) \/ ProbeRead(i)
    \/ CallDo \/ ScanStep \/ ProbeSave

Next == Advance \/ Switch

(* The handlers end, whichever call is at work, and the two passes come    *)
(* round: the scan every 30 seconds, the liveness check over all rows with *)
(* every list request.                                                     *)
Fairness ==
    /\ SF_vars(ScanStart) /\ WF_vars(ScanStep) /\ WF_vars(ProbeSave)
    /\ SF_vars(CallDo) /\ WF_vars(Switch)
    /\ \A i \in Ids : SF_vars(ProbeRead(i)) /\ WF_vars(HookDo(i))

Spec == Init /\ [][Next]_vars /\ Fairness

-----------------------------------------------------------------------------
(* Rows, terminals and counters stay within their types. *)
TypeOK ==
    /\ rows \in [Ids -> Row \cup {NoRow}]
    /\ term \in [Ids -> [proc : 0 .. MaxProcs, conv : Ids \cup {"blank", "shell"}]]
    /\ convs \subseteq seen /\ deleted \subseteq seen

(* As long as the writers take turns, and Claude Code's sessions either    *)
(* are left to its events and the scan, or are never reset and heard late, *)
(* no two live rows claim one terminal: adoption deletes the placeholder,  *)
(* rotation archives the turn before, the scan merges what the two missed. *)
Orderly ==
    /\ mode.agent = "claude-code" /\ mode.writers = 1
    /\ mode.calls = 0 \/ (mode.resets = 0 /\ ~mode.late)

SerialOneOwner ==
    Orderly =>
        \A i, k \in Present(rows) :
            (/\ rows[i].managed /\ rows[i].state # "ended" /\ rows[i].tmux # None
             /\ rows[k].managed /\ rows[k].state # "ended"
             /\ rows[i].tmux = rows[k].tmux) => i = k

(* A row whose terminal has gone is not shown live for ever, whatever      *)
(* stale copies are saved in between: verifySessionLiveness notices.       *)
Orphan(i) ==
    /\ rows[i] # NoRow /\ rows[i].managed /\ rows[i].state # "ended"
    /\ rows[i].tmux # None /\ term[rows[i].tmux].proc = 0

DeadNoticed == []<>(\A i \in Ids : ~Orphan(i))

(* The session that the scan takes a terminal for: the conversation of its *)
(* process, if the process tells, else the one it is named after.          *)
SessionOf(t) ==
    IF mode.agent = "antigravity" /\ term[t].conv \in Ids THEN term[t].conv ELSE t

(* The terminal of a session that the user deleted does not keep running,  *)
(* even if the row was saved or the terminal started again by a call or    *)
(* another handler that had read it before: scanTmuxPanes kills what is    *)
(* deleted.                                                                *)
DeletedStops == []<>(\A t \in Ids : ~(Running(t) /\ SessionOf(t) \in deleted))

(* docs/daemon.md: the turn before a reset is decoupled from the terminal  *)
(* and can be resumed in a new one.  So a call on it should leave alone    *)
(* the terminal in which the next conversation runs.                       *)
Decoupled ==
    [][\A t \in Ids :
         (/\ call.op = "api" /\ call' = Idle /\ call.row.cleared
          /\ Running(t) /\ term[t].conv \in Ids \ {call.id})
         => term'[t] = term[t]]_vars
=============================================================================
