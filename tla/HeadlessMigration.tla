--------------------------- MODULE HeadlessMigration ---------------------------
(***************************************************************************)
(* The IDs under which the headless engine keeps a session of an agent     *)
(* that names its own conversations (antigravity).  A session is spawned   *)
(* under a placeholder.  When the CLI of its first turn reports the        *)
(* conversation that it opened, handleAntigravityInit gives the session a  *)
(* new ID: it deletes the old row, moves the engine's maps to the new key  *)
(* and saves the new row.  Handlers, launchers and the goroutine of the    *)
(* turn itself may hold the old ID all that time.                          *)
(*                                                                         *)
(* HeadlessTurns has the engine under one ID, with the windows inside a    *)
(* turn's end and the answers to questions; here a child is reaped and its *)
(* entry deleted in one step.                                              *)
(***************************************************************************)
EXTENDS Naturals, Sequences, Functions

CONSTANTS Placeholder,  \* the ID that the session is spawned under, none of Convs
          Convs,        \* the IDs that name the conversations of the CLI
          Prompts,      \* prompts, each submitted at most once
          Tabs,         \* listeners of the chat stream
          MaxCalls,     \* bound on the calls other than prompts
          None          \* no turn, no prompt, no ID

Ids == Convs \cup {Placeholder}

VARIABLES
  straddling, \* whether an ID may change while somebody else holds it
  rows,       \* the IDs in the sessions table
  proc,       \* h.processes: the turn whose child is under a key
  queue,      \* h.queues
  paused,     \* the keys that are paused in h.paused
  block,      \* the keys of h.interactiveBlocks
  subs,       \* h.subs
  turn,       \* the work on each prompt: phase, the ID it started with, its ID
  child,      \* the child process of each turn
  call,       \* the HTTP handler in flight and the ID it has resolved
  calls       \* calls other than prompts so far

vars == <<straddling, rows, proc, queue, paused, block, subs, turn, child, call, calls>>

Busy == {"start", "run", "move", "moved", "asked", "stop", "waits",
         "settled", "check", "dequeue"}
Phases == Busy \cup {"new", "queued", "launch", "lost", "removed", "done"}
NoCall == [op |-> "idle", id |-> None, for |-> None]

Goto(p, phase) == turn' = [turn EXCEPT ![p].at = phase]
Enter(p, phase, id) == turn' = [turn EXCEPT ![p] = [at |-> phase, orig |-> id, id |-> id]]
IsRunning(id) == proc[id] # None

\* resolveSession: the row of the ID, or one that remembers it as its old one.
Target(id) == IF id \in rows THEN {id} ELSE IF id = Placeholder THEN rows ELSE {}

Init ==
  /\ straddling \in BOOLEAN
  /\ rows = {Placeholder}
  /\ proc = [id \in Ids |-> None]
  /\ queue = [id \in Ids |-> <<>>]
  /\ paused = {} /\ block = {}
  /\ subs = [id \in Ids |-> {}]
  /\ turn = [p \in Prompts |-> [at |-> "new", orig |-> None, id |-> None]]
  /\ child = [p \in Prompts |-> "none"]
  /\ call = NoCall /\ calls = 0
-------------------------------------------------------------------------------
(* HTTP handlers: the row is resolved first, and everything else is done   *)
(* under the ID that it had then.                                          *)

Resolve(op, id, for) ==
  /\ call = NoCall
  /\ op = "prompt" => for \in Prompts /\ turn[for].at = "new"
  /\ op = "subscribe" => for \in Tabs /\ \A k \in Ids : for \notin subs[k]
  /\ op \in {"cancel", "resume", "clear"} => for = None
  /\ IF op = "prompt" THEN UNCHANGED calls ELSE calls < MaxCalls /\ calls' = calls + 1
  /\ \E k \in Target(id) : call' = [op |-> op, id |-> k, for |-> for]
  /\ UNCHANGED <<straddling, rows, proc, queue, paused, block, subs, turn, child>>

\* handlePrompt: IsRunning decides between the queue and a launcher.
Prompt ==
  /\ call.op = "prompt"
  /\ IF IsRunning(call.id)
       THEN call' = [call EXCEPT !.op = "enqueue"] /\ UNCHANGED turn
       ELSE call' = NoCall /\ Enter(call.for, "launch", call.id)
  /\ UNCHANGED <<straddling, rows, proc, queue, paused, block, subs, child, calls>>

Enqueue ==
  /\ call.op = "enqueue"
  /\ queue' = [queue EXCEPT ![call.id] = Append(@, call.for)]
  /\ Goto(call.for, "queued")
  /\ call' = NoCall
  /\ UNCHANGED <<straddling, rows, proc, paused, block, subs, child, calls>>

\* handlePromptQueue, DELETE.
ClearQueue ==
  /\ call.op = "clear"
  /\ turn' = [p \in Prompts |-> IF p \in Range(queue[call.id])
                                THEN [turn[p] EXCEPT !.at = "removed"] ELSE turn[p]]
  /\ queue' = [queue EXCEPT ![call.id] = <<>>]
  /\ paused' = paused \ {call.id}
  /\ call' = NoCall
  /\ UNCHANGED <<straddling, rows, proc, block, subs, child, calls>>

\* DequeuePrompt, and the launcher that it is for.
Dequeue(id, next) ==
  IF queue[id] = <<>>
    THEN turn' = next /\ UNCHANGED queue
    ELSE /\ turn' = [next EXCEPT ![Head(queue[id])] =
                       [at |-> "launch", orig |-> id, id |-> id]]
         /\ queue' = [queue EXCEPT ![id] = Tail(@)]

\* handlePromptQueueResume.
Resume ==
  /\ call.op = "resume"
  /\ paused' = paused \ {call.id}
  /\ call' = [call EXCEPT !.op = "resumeCheck"]
  /\ UNCHANGED <<straddling, rows, proc, queue, block, subs, turn, child, calls>>

ResumeCheck ==
  /\ call.op = "resumeCheck"
  /\ call' = IF IsRunning(call.id) THEN NoCall ELSE [call EXCEPT !.op = "resumeDequeue"]
  /\ UNCHANGED <<straddling, rows, proc, queue, paused, block, subs, turn, child, calls>>

ResumeDequeue ==
  /\ call.op = "resumeDequeue"
  /\ Dequeue(call.id, turn)
  /\ call' = NoCall
  /\ UNCHANGED <<straddling, rows, proc, paused, block, subs, child, calls>>

\* handleChatStream, and its deferred cleanup, which looks under every key.
Subscribe ==
  /\ call.op = "subscribe"
  /\ subs' = [subs EXCEPT ![call.id] = @ \cup {call.for}]
  /\ call' = NoCall
  /\ UNCHANGED <<straddling, rows, proc, queue, paused, block, turn, child, calls>>

Unsubscribe(tab) ==
  /\ \E id \in Ids : tab \in subs[id]
  /\ subs' = [id \in Ids |-> subs[id] \ {tab}]
  /\ UNCHANGED <<straddling, rows, proc, queue, paused, block, turn, child, call, calls>>

Signal(p) == child' = IF p # None /\ child[p] = "running"
                        THEN [child EXCEPT ![p] = "signalled"] ELSE child

\* handleCancelTurn saves the row that it has resolved, whatever it found.
Cancel ==
  /\ call.op = "cancel"
  /\ Signal(proc[call.id])
  /\ call' = [call EXCEPT !.op = IF IsRunning(call.id) THEN "cancelPause" ELSE "cancelSave"]
  /\ UNCHANGED <<straddling, rows, proc, queue, paused, block, subs, turn, calls>>

CancelPause ==
  /\ call.op = "cancelPause"
  /\ paused' = paused \cup {call.id}
  /\ call' = [call EXCEPT !.op = "cancelSave"]
  /\ UNCHANGED <<straddling, rows, proc, queue, block, subs, turn, child, calls>>

CancelSave ==
  /\ call.op = "cancelSave"
  /\ rows' = rows \cup {call.id}
  /\ call' = NoCall
  /\ UNCHANGED <<straddling, proc, queue, paused, block, subs, turn, child, calls>>
-------------------------------------------------------------------------------
(* RunTurn, and the goroutine of the turn.                                 *)

RunTurn(p) ==
  /\ turn[p].at = "launch"
  /\ \/ Goto(p, "lost") /\ UNCHANGED <<proc, child>>
     \/ /\ ~IsRunning(turn[p].id)
        /\ proc' = [proc EXCEPT ![turn[p].id] = p]
        /\ child' = [child EXCEPT ![p] = "running"]
        /\ Goto(p, "start")
  /\ UNCHANGED <<straddling, rows, queue, paused, block, subs, call, calls>>

SaveWorking(p) ==
  /\ turn[p].at = "start"
  /\ rows' = rows \cup {turn[p].id}
  /\ Goto(p, "run")
  /\ UNCHANGED <<straddling, proc, queue, paused, block, subs, child, call, calls>>

\* Somebody else works with the ID of the turn.
Held(p) ==
  \/ call.id = turn[p].id
  \/ \E q \in Prompts \ {p} : turn[q].id = turn[p].id /\ turn[q].at \in Busy \cup {"launch"}

\* handleAntigravityInit: the CLI says which conversation it has opened.  A row
\* that has one resumes it.
MigrateRow(p, c) ==
  /\ turn[p].at = "run" /\ turn[p].id = Placeholder
  /\ \A q \in Prompts : turn[q].id # c
  /\ straddling \/ ~Held(p)
  /\ turn' = [turn EXCEPT ![p].at = "move", ![p].id = c]
  /\ rows' = rows \ {Placeholder}
  /\ UNCHANGED <<straddling, proc, queue, paused, block, subs, child, call, calls>>

\* Mutants of Moved: the old entry is copied; only a new one is looked for.
MovedCopy(map, p, nothing, value) == [map EXCEPT ![turn[p].id] = value]
MovedNothing(map, p, nothing, value) == map
Moved(map, p, nothing, value) ==
  [map EXCEPT ![Placeholder] = nothing, ![turn[p].id] = value]

MigrateMaps(p) ==
  /\ turn[p].at = "move"
  /\ LET c == turn[p].id
         old == Placeholder
     IN  /\ proc' = IF proc[old] = None THEN proc ELSE Moved(proc, p, None, proc[old])
         /\ queue' = Moved(queue, p, <<>>, queue[old] \o queue[c])
         /\ subs' = Moved(subs, p, {}, subs[c] \cup subs[old])
         /\ paused' = IF old \in paused THEN (paused \ {old}) \cup {c} ELSE paused
  /\ Goto(p, "moved")
  /\ UNCHANGED <<straddling, rows, block, child, call, calls>>

MigrateSave(p) ==
  /\ turn[p].at = "moved"
  /\ rows' = rows \cup {turn[p].id}
  /\ Goto(p, "run")
  /\ UNCHANGED <<straddling, proc, queue, paused, block, subs, child, call, calls>>

\* triggerInteractiveBlock: the block and the row under both IDs, the pause and
\* the interrupt under the one that the turn started with.
Ask(p) ==
  /\ turn[p].at = "run"
  /\ block' = block \cup {turn[p].orig, turn[p].id}
  /\ rows' = rows \cup {turn[p].id}
  /\ Goto(p, "asked")
  /\ UNCHANGED <<straddling, proc, queue, paused, subs, child, call, calls>>

AskPause(p) ==
  /\ turn[p].at = "asked"
  /\ paused' = paused \cup {turn[p].orig}
  /\ Goto(p, "stop")
  /\ UNCHANGED <<straddling, rows, proc, queue, block, subs, child, call, calls>>

AskStop(p) ==
  /\ turn[p].at = "stop"
  /\ Signal(proc[turn[p].orig])
  /\ Goto(p, "waits")
  /\ UNCHANGED <<straddling, rows, proc, queue, paused, block, subs, call, calls>>

\* External: the CLI finishes its turn, or a signal ends it.
ChildExit(p) ==
  /\ child[p] \in {"running", "signalled"}
  /\ child' = [child EXCEPT ![p] = "exited"]
  /\ UNCHANGED <<straddling, rows, proc, queue, paused, block, subs, turn, call, calls>>

\* The goroutine deletes the entries of both IDs, whosever they are.
Settle(p) ==
  /\ turn[p].at \in {"run", "waits"} /\ child[p] = "exited"
  /\ child' = [child EXCEPT ![p] = "gone"]
  /\ proc' = [proc EXCEPT ![turn[p].orig] = None, ![turn[p].id] = None]
  /\ Goto(p, "settled")
  /\ UNCHANGED <<straddling, rows, queue, paused, block, subs, call, calls>>

\* takeInteractiveBlock, under the one ID and then under the other; a turn that
\* asked nothing may have failed, which pauses the queue; the row is saved.
SaveOutcome(p) ==
  /\ turn[p].at = "settled"
  /\ LET asked == {turn[p].id, turn[p].orig} \cap block
     IN  IF asked # {}
           THEN /\ block' = block \ {IF turn[p].id \in asked THEN turn[p].id ELSE turn[p].orig}
                /\ Goto(p, "done") /\ UNCHANGED paused
           ELSE /\ Goto(p, "check") /\ UNCHANGED block
                /\ paused' \in {paused, paused \cup {turn[p].id}}
  /\ rows' = rows \cup {turn[p].id}
  /\ UNCHANGED <<straddling, proc, queue, subs, child, call, calls>>

CheckPaused(p) ==
  /\ turn[p].at = "check"
  /\ Goto(p, IF turn[p].id \in paused THEN "done" ELSE "dequeue")
  /\ UNCHANGED <<straddling, rows, proc, queue, paused, block, subs, child, call, calls>>

DispatchNext(p) ==
  /\ turn[p].at = "dequeue"
  /\ Dequeue(turn[p].id, [turn EXCEPT ![p].at = "done"])
  /\ UNCHANGED <<straddling, rows, proc, paused, block, subs, child, call, calls>>

Client == \E id \in Ids :
            \/ \E op \in {"cancel", "resume", "clear"} : Resolve(op, id, None)
            \/ \E p \in Prompts : Resolve("prompt", id, p)
            \/ \E tab \in Tabs : Resolve("subscribe", id, tab)
Handler == \/ Prompt \/ Enqueue \/ ClearQueue \/ Subscribe
           \/ Resume \/ ResumeCheck \/ ResumeDequeue
           \/ Cancel \/ CancelPause \/ CancelSave
Turn(p) == \/ RunTurn(p) \/ SaveWorking(p)
           \/ (\E c \in Convs : MigrateRow(p, c)) \/ MigrateMaps(p) \/ MigrateSave(p)
           \/ Ask(p) \/ AskPause(p) \/ AskStop(p) \/ ChildExit(p)
           \/ Settle(p) \/ SaveOutcome(p) \/ CheckPaused(p) \/ DispatchNext(p)

Next == \/ Client \/ Handler
        \/ \E p \in Prompts : Turn(p)
        \/ \E tab \in Tabs : Unsubscribe(tab)

Spec == Init /\ [][Next]_vars
-------------------------------------------------------------------------------
(* Properties.                                                             *)

\* Types of the variables.
TypeOK ==
  /\ straddling \in BOOLEAN /\ calls \in 0 .. MaxCalls
  /\ rows \subseteq Ids /\ paused \subseteq Ids /\ block \subseteq Ids
  /\ proc \in [Ids -> Prompts \cup {None}]
  /\ queue \in [Ids -> Seq(Prompts)]
  /\ subs \in [Ids -> SUBSET Tabs]
  /\ turn \in [Prompts -> [at : Phases, orig : Ids \cup {None}, id : Ids \cup {None}]]
  /\ child \in [Prompts -> {"none", "running", "signalled", "exited", "gone"}]
  /\ call \in [op : {"idle", "prompt", "enqueue", "clear", "resume", "resumeCheck",
                     "resumeDequeue", "subscribe", "cancel", "cancelPause", "cancelSave"},
               id : Ids \cup {None}, for : Prompts \cup Tabs \cup {None}]

\* Whoever holds which ID when it changes: a prompt waits in one queue, once,
\* and a turn and a listener are found under one key, so that no prompt runs
\* twice and no listener gets an event of a turn, which is emitted under both
\* IDs (headless.go emitStreamEvt), a second time.
UnderOneKey ==
  \A k, l \in Ids :
    /\ \A i \in DOMAIN queue[k], j \in DOMAIN queue[l] :
         queue[k][i] = queue[l][j] => k = l /\ i = j
    /\ proc[k] # None /\ proc[k] = proc[l] => k = l
    /\ subs[k] \cap subs[l] # {} => k = l

\* docs/daemon.md:108: processes, prompt queues and listeners migrate from the
\* placeholder to the canonical ID.  If nobody else holds the ID while it
\* changes, the session is one row, and what the engine has of it is under the
\* ID of that row, except while the change is under way.
Moving == \E p \in Prompts : turn[p].at \in {"move", "moved"}
MapsFollowRow ==
  ~straddling /\ ~Moving =>
    \E id \in rows : /\ rows = {id}
                     /\ \A k \in Ids \ {id} : /\ proc[k] = None /\ queue[k] = <<>>
                                              /\ subs[k] = {}

\* docs/daemon.md:112: an interactive tool in the stream interrupts the child
\* process, so a turn whose question is out does not work on.
AskedIsInterrupted ==
  \A p \in Prompts : turn[p].at = "waits" => child[p] # "running"
===============================================================================
