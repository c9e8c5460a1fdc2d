--------------------------- MODULE SubagentBlocks ---------------------------
(***************************************************************************)
(* An Antigravity session and its subagents.  A subagent is a conversation *)
(* of its own, with its own hooks and its own lock; the daemon keeps no    *)
(* row for it and folds what it says into the row of its parent.  Who is a *)
(* subagent, of whom, and who of them runs or asks, it reads from files.   *)
(*                                                                         *)
(* The hooks of one conversation arrive in order (HookQueue); those of     *)
(* different conversations in any order, and files are read when an event  *)
(* is processed, not when it was sent.                                     *)
(***************************************************************************)
EXTENDS Naturals, Sequences, FiniteSets

CONSTANTS
    Subs,       \* conversations that the parent may start
    Parent,     \* the conversation of the session
    None,
    Families,   \* instances: the subagents, the artifacts they may have, and
                \* whether the parent goes on while one of them asks
    MaxAsks     \* bound on the questions of each conversation

(***************************************************************************)
(* What lies on disk for a conversation: an annotation (only sessions of a *)
(* user have one), the record under its parent with the state noted there, *)
(* the mark in the CLI's cache, its first step, and dispatched messages.   *)
(***************************************************************************)
Artifact == [annotated : BOOLEAN, record : {"none", "RUNNING", "KILLED"}, internal : BOOLEAN,
             head : {"none", "fromParent", "marker", "user"},
             message : {"none", "dispatched", "namesParent"}]

VARIABLES
    family,
    art,        \* the artifacts of each conversation
    doing,      \* what its CLI does
    log,        \* the last two steps of its transcript
    wire,       \* its hooks on the way
    row,        \* the parent's row: state, whom its block belongs to, unread
    blocker,    \* blockedBySubagent of the parent
    asks

vars == <<family, art, doing, log, wire, row, blocker, asks>>
Convs == Subs \cup {Parent}

IsSubagent(a) ==
    /\ ~a.annotated
    /\ \/ a.record # "none"
       \/ a.internal
       \/ a.head \in {"fromParent", "marker"}
       \/ a.head = "none" /\ a.message = "dispatched"

ParentOf(a) ==
    IF \/ a.annotated
       \/ a.record = "none" /\ a.head = "user"
       \/ a.record = "none" /\ a.head # "fromParent" /\ a.message # "namesParent"
    THEN None ELSE Parent

(* The last step that decides: an open request, not an answer or a tool.   *)
AsksIn(steps) ==
    LET decisive == {i \in DOMAIN steps : steps[i] # "plain"}
    IN  \E i \in decisive : (\A k \in decisive : k <= i) /\ steps[i] \in {"ask", "artifact"}

(* ListSubagents: the record says running, and the transcript does not end *)
(* with a planner response that calls no tool.                             *)
RunsOnDisk(s) ==
    /\ doing[s] # "none" /\ art[s].record = "RUNNING"
    /\ log[s] # <<>> => log[s][Len(log[s])] # "plain"
DiskRunning == {s \in family.subs : RunsOnDisk(s)}

(* getRunningSubagents, and the one that has just been heard of.           *)
RunningSubagents(s, said) ==
    DiskRunning \cup {k \in {s} : DiskRunning = {} /\ said # "idle"}

-----------------------------------------------------------------------------
Init ==
    /\ family \in Families
    /\ art = [c \in Convs |-> [annotated |-> c = Parent, record |-> "none", internal |-> FALSE,
                               head |-> "user", message |-> "none"]]
    /\ doing = [c \in Convs |-> IF c = Parent THEN "rest" ELSE "none"]
    /\ log = [c \in Convs |-> <<>>] /\ wire = [c \in Convs |-> <<>>]
    /\ row = [state |-> "idle", of |-> None, unread |-> FALSE]
    /\ blocker = None /\ asks = [c \in Convs |-> 0]

Live(c) == doing[c] \in {"thinking", "asking"}
Daemon == <<row, blocker>>
Quiet == \A c \in Convs : wire[c] = <<>>

(* A step of a conversation: what it writes to its transcript, what it says. *)
Writes(c, step) == log' = [log EXCEPT ![c] = IF Len(@) = 2 THEN <<@[2], step>> ELSE Append(@, step)]
Says(c, state) == wire' = [wire EXCEPT ![c] = Append(@, state)]
Turns(c, from, to) == doing[c] = from /\ doing' = [doing EXCEPT ![c] = to]

ParentPrompted ==
    /\ Quiet /\ Turns(Parent, "rest", "thinking")
    /\ Says(Parent, "working") /\ Writes(Parent, "answer")
    /\ UNCHANGED <<family, art, asks, Daemon>>

(* invoke_subagent *)
Spawns(s) ==
    /\ doing[Parent] = "thinking" /\ Turns(s, "none", "thinking")
    /\ family.background \/ \A k \in Subs : doing[k] # "asking"
    /\ \E a \in family.arts : art' = [art EXCEPT ![s] = a]
    /\ wire' = [wire EXCEPT ![Parent] = Append(@, "working"), ![s] = Append(@, "working")]
    /\ UNCHANGED <<family, log, asks, Daemon>>

(* A parent waits for its subagents, and a hook takes less than the turn   *)
(* of a model: what the other side said last is in before one acts on it.  *)
Waited(c) == IF c = Parent THEN \A s \in Subs : ~Live(s) /\ wire[s] = <<>>
             ELSE wire[Parent] = <<>>

Asks(c) ==
    /\ Turns(c, "thinking", "asking") /\ Waited(c) /\ asks[c] < MaxAsks
    /\ asks' = [asks EXCEPT ![c] = @ + 1]
    /\ Writes(c, "ask") /\ Says(c, "blocked")
    /\ UNCHANGED <<family, art, Daemon>>

Answered(c) ==
    /\ Turns(c, "asking", "thinking") /\ wire[c] = <<>>
    /\ Writes(c, "answer") /\ Says(c, "working")
    /\ UNCHANGED <<family, art, asks, Daemon>>

UsesTool(c) ==
    /\ doing[c] = "thinking" /\ Waited(c) /\ wire[c] = <<>>
    /\ Writes(c, "tool") /\ Says(c, "working")
    /\ UNCHANGED <<family, art, doing, asks, Daemon>>

Finishes(c) ==
    /\ Turns(c, "thinking", IF c = Parent THEN "rest" ELSE "done") /\ Waited(c)
    /\ Writes(c, "plain") /\ Says(c, "idle")
    /\ UNCHANGED <<family, art, asks, Daemon>>

-----------------------------------------------------------------------------
Shows(state, of, unread) == row' = [state |-> state, of |-> of, unread |-> unread]

OwnEvent ==
    /\ wire[Parent] # <<>>
    /\ wire' = [wire EXCEPT ![Parent] = Tail(@)]
    /\ LET said == Head(wire[Parent])
       IN  Shows(said, IF said = "blocked" THEN Parent ELSE None,
                 IF said = row.state THEN row.unread ELSE said # "working")
    /\ UNCHANGED <<family, art, doing, log, asks, blocker>>

(* Another subagent still holds the block: the one noted, as long as it    *)
(* runs, or one whose transcript ends with a request.                      *)
StillNoted(s) ==
    /\ row.state = "blocked" /\ blocker \notin {None, s}
    /\ DiskRunning # {} => blocker \in DiskRunning
NoSibling(s) == {}
AskingSiblings(s) == {k \in DiskRunning \ {s} : AsksIn(log[k])}

(* processParsedHookEvent for an event of a subagent: it is about the      *)
(* parent's row.                                                           *)
SubagentEvent(s) ==
    /\ wire[s] # <<>> /\ IsSubagent(art[s])
    /\ wire' = [wire EXCEPT ![s] = Tail(@)]
    /\ LET said == Head(wire[s])
       IN  IF ParentOf(art[s]) = None THEN UNCHANGED <<row, blocker>>
           ELSE IF said = "blocked"
           THEN Shows("blocked", s, row.unread \/ row.state # "blocked") /\ blocker' = s
           ELSE IF StillNoted(s) THEN UNCHANGED <<row, blocker>>
           ELSE IF AskingSiblings(s) # {}
           THEN \E k \in AskingSiblings(s) : Shows("blocked", k, row.unread) /\ blocker' = k
           ELSE /\ blocker' = None
                /\ IF RunningSubagents(s, said) # {} \/ row.state = "blocked" THEN Shows("working", None, FALSE)
                   ELSE UNCHANGED row
    /\ UNCHANGED <<family, art, doing, log, asks>>

(* A conversation that the files do not tell to be a subagent is one that  *)
(* ackbar did not start: its hooks are ignored.                            *)
UnknownEvent(s) ==
    /\ wire[s] # <<>> /\ ~IsSubagent(art[s])
    /\ wire' = [wire EXCEPT ![s] = Tail(@)]
    /\ UNCHANGED <<family, art, doing, log, asks, Daemon>>

Next ==
    \/ ParentPrompted
    \/ \E s \in family.subs : Spawns(s)
    \/ \E c \in Convs : Asks(c) \/ Answered(c) \/ UsesTool(c) \/ Finishes(c)
    \/ OwnEvent
    \/ \E s \in Subs : SubagentEvent(s) \/ UnknownEvent(s)

Spec == Init /\ [][Next]_vars
-----------------------------------------------------------------------------
TypeOK ==
    /\ row.state \in {"idle", "working", "blocked"} /\ row.of \in Convs \cup {None}
    /\ row.unread \in BOOLEAN
    /\ blocker \in Subs \cup {None}
    /\ doing \in [Convs -> {"none", "rest", "thinking", "asking", "done"}]
    /\ art \in [Convs -> Artifact]

(* Once the hooks are in, the parent's row asks for the user exactly when  *)
(* the parent or a subagent whose parent can be told waits for an answer,  *)
(* and shows the request of one that waits: a sibling's progress neither   *)
(* hides a request nor keeps one that was answered.                        *)
Waiting == {c \in Convs : doing[c] = "asking" /\ (c = Parent \/ (IsSubagent(art[c]) /\ ParentOf(art[c]) # None))}
BlockExact ==
    Quiet => IF Waiting = {} THEN row.state # "blocked" /\ blocker = None
             ELSE row.state = "blocked" /\ row.of \in Waiting
=============================================================================
