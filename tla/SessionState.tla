---------------------------- MODULE SessionState ----------------------------
(***************************************************************************)
(* The state that one row of the sessions table shows: what the hooks of   *)
(* an agent CLI say, how each provider reads them, and how the daemon      *)
(* folds them into the row, its unread mark, its push notification and the *)
(* list of running subagents in memory.                                    *)
(*                                                                         *)
(* A pane session is one CLI in a terminal.  A headless session runs one   *)
(* child per turn, and the runner writes the row when a turn starts, asks  *)
(* or ends; its hooks come on top of that.  Events of one burst reach the  *)
(* daemon within two seconds of each other, before a human reacts; the     *)
(* hook processes of Races may overtake each other.                        *)
(***************************************************************************)
EXTENDS Naturals, Sequences, SequencesExt

CONSTANTS
    Instances,  \* set of <<provider, engine>>
    Types,      \* subagent types
    Races,      \* pairs of events whose hook processes may swap
    MaxTurns,   \* bound on the prompts
    MaxWire     \* bound on the events on the way

VARIABLES
    agent,      \* <<provider, engine>>
    doing,      \* what the CLI does
    wire,       \* its events on the way to the daemon
    working,    \* subagents that the CLI runs in the foreground
    row,        \* state and block shown, unread mark
    recent,     \* the state changed less than two seconds ago
    listed,     \* activeSubagents of the session
    pushed,     \* the block shown has been pushed to the phone
    viewed,     \* the user has looked since the CLI last stopped
    turns

vars == <<agent, doing, wire, working, row, recent, listed, pushed, viewed, turns>>

Provider == agent[1]
Headless == agent[2] = "headless"
Asking == {"permission", "question", "plan"}
Running == doing \in {"thinking", "tool", "allowed"}
Ev(name) == [name |-> name, type |-> "none"]

(***************************************************************************)
(* ParseHook of the providers: which events mean idle, ended or a block;   *)
(* every other event means working.  The names are those of Claude Code.   *)
(***************************************************************************)
ParseClaude ==
    [idle |-> {"SessionStart", "Stop", "Notification"}, ended |-> {},
     permission |-> {"PermissionRequest"}, question |-> {"AskUserQuestion"},
     plan |-> {"ExitPlanMode"}]
ParseCodex ==
    [idle |-> {"SessionStart"}, ended |-> {"Stop"},
     permission |-> {"PermissionRequest"}, question |-> {"AskUserQuestion"}, plan |-> {}]
ParseAntigravity ==
    [idle |-> {"SessionStart", "Notification", "PostInvocation"}, ended |-> {"Stop"},
     permission |-> {"ask_permission"}, question |-> {"AskUserQuestion"},
     plan |-> {"ExitPlanMode"}]
ParseGrok ==
    [idle |-> {"SessionStart", "Stop"}, ended |-> {},
     permission |-> {"PermissionRequest"}, question |-> {"AskUserQuestion"}, plan |-> {}]
ParseOpenCode == ParseGrok

ParseHook == CASE Provider = "claude-code" -> ParseClaude
               [] Provider = "codex"       -> ParseCodex
               [] Provider = "antigravity" -> ParseAntigravity
               [] Provider = "grok"        -> ParseGrok
               [] Provider = "opencode"    -> ParseOpenCode

BlockOf(name) == IF \E k \in Asking : name \in ParseHook[k]
                 THEN CHOOSE k \in Asking : name \in ParseHook[k] ELSE "none"
Said(name) == [state |-> IF BlockOf(name) # "none" THEN "blocked"
                         ELSE IF name \in ParseHook.idle THEN "idle"
                         ELSE IF name \in ParseHook.ended THEN "ended" ELSE "working",
               block |-> BlockOf(name)]

Shows(state, block) == [state |-> state, block |-> block]
Blocks(kind) == Shows("blocked", kind)

(***************************************************************************)
(* applyHookStateTransition, one correction after the other.               *)
(***************************************************************************)
(* A headless row follows the runner: hooks neither wake it between turns  *)
(* nor put it to rest during one.                                          *)
FollowRunner(said) ==
    IF ~Headless THEN said
    ELSE IF ~Running /\ said.state \in {"working", "ended"}
         THEN IF row.state = "blocked" /\ row.block # "none"
              THEN Blocks(row.block) ELSE Shows("idle", "none")
    ELSE IF Running /\ said.state \in {"idle", "ended"} THEN Shows("working", "none")
    ELSE said

(* The end of a tool that was overtaken by the end of the turn. *)
KeepNothing(name, said) == said
KeepIdle(name, said) ==
    IF row.state = "idle" /\ recent /\ name = "PostToolUse" THEN Shows("idle", "none") ELSE said

(* The start of a tool that was overtaken by its permission request. *)
KeepBlock(name, said) ==
    IF row.state = "blocked" /\ recent /\ name = "PreToolUse" THEN [said EXCEPT !.block = row.block]
    ELSE said
KeepPermission(name, said) ==
    IF /\ row.state = "blocked" /\ row.block = "permission" /\ recent
       /\ name = "PreToolUse" /\ said.state = "working"
    THEN Blocks("permission") ELSE said

Folded(name) == KeepPermission(name, KeepIdle(name, FollowRunner(Said(name))))

SetRow(next) ==
    /\ row' = [state |-> next.state, block |-> next.block,
               unread |-> IF next.state = row.state THEN row.unread
                          ELSE next.state # "working"]
    /\ recent' = (recent \/ (next.state # row.state /\ next.state # "working"))
    /\ pushed' = (next.state = "blocked" /\ (pushed \/ row.state # "blocked"))

(***************************************************************************)
(* The subagents in memory: an entry is made when the tool starts          *)
(* (synthetic) and taken over by the subagent's own start; it goes with    *)
(* the subagent's end or with the end of the tool, whichever is first.     *)
(***************************************************************************)
AddSubagent(list, entry) ==
    LET match == {i \in DOMAIN list : list[i].synthetic /\ list[i].type = entry.type}
    IN  IF ~entry.synthetic /\ match # {}
        THEN [list EXCEPT ![CHOOSE i \in match : \A k \in match : i <= k].synthetic = FALSE]
        ELSE Append(list, entry)

RemoveSubagent(list, type) ==
    LET match == {i \in DOMAIN list : list[i].type = type}
    IN  IF match = {} THEN list
        ELSE RemoveAt(list, CHOOSE i \in match : \A k \in match : i <= k)

Tracked(e) ==
    CASE e.name = "SubagentStart" -> AddSubagent(listed, [type |-> e.type, synthetic |-> FALSE])
      [] e.name = "SubagentStop" -> RemoveSubagent(listed, e.type)
      [] e.name = "PostToolUse" /\ e.type # "none" -> RemoveSubagent(listed, e.type)
      [] e.name = "PreToolUse" /\ e.type # "none" ->
           AddSubagent(listed, [type |-> e.type, synthetic |-> TRUE])
      [] e.name \in {"UserPromptSubmit", "Stop"} -> <<>>
      [] OTHER -> listed

-----------------------------------------------------------------------------
Init ==
    /\ agent \in Instances
    /\ doing = "off" /\ wire = <<>> /\ working = <<>>
    /\ row = [state |-> "unknown", block |-> "none", unread |-> FALSE]
    /\ recent = FALSE /\ listed = <<>> /\ pushed = FALSE /\ viewed = TRUE /\ turns = 0

Daemon == <<row, recent, listed, pushed>>
Sends(events) == Len(wire) + Len(events) <= MaxWire /\ wire' = wire \o events

(* The CLI. *)
StartCLI ==
    /\ doing = "off" /\ doing' = "rest"
    /\ IF Headless THEN UNCHANGED wire /\ SetRow(Shows("idle", "none"))
                   ELSE Sends(<<Ev("SessionStart")>>) /\ UNCHANGED <<row, recent, pushed>>
    /\ UNCHANGED <<agent, working, listed, viewed, turns>>

(* A prompt: typed into the terminal, or a turn that the runner starts. *)
Prompt ==
    /\ doing = "rest" /\ wire = <<>> /\ turns < MaxTurns
    /\ doing' = "thinking" /\ turns' = turns + 1 /\ viewed' = TRUE
    /\ Sends(<<Ev("UserPromptSubmit")>>)
    /\ IF Headless THEN SetRow(Shows("working", "none")) ELSE UNCHANGED <<row, recent, pushed>>
    /\ UNCHANGED <<agent, working, listed>>

ToolStarts ==
    /\ doing = "thinking" /\ doing' = "tool"
    /\ Sends(<<Ev("PreToolUse")>>)
    /\ UNCHANGED <<agent, working, viewed, turns, Daemon>>

ToolEnds ==
    /\ doing \in {"tool", "allowed"} /\ doing' = "thinking"
    /\ Sends(<<Ev("PostToolUse")>>)
    /\ UNCHANGED <<agent, working, viewed, turns, Daemon>>

(* A permission is asked for in the terminal; a headless child has all.    *)
AsksPermission ==
    /\ ~Headless
    /\ \/ /\ doing = "tool" /\ Provider # "antigravity"
          /\ Sends(<<Ev("PermissionRequest")>>)
       \/ /\ doing = "thinking" /\ Provider = "antigravity"
          /\ Sends(<<Ev("ask_permission")>>)
    /\ doing' = "permission" /\ viewed' = FALSE
    /\ UNCHANGED <<agent, working, turns, Daemon>>

(* A question or a plan: a headless turn is stopped and its row blocked.   *)
Asks(kind, name) ==
    /\ doing = "thinking" /\ working = <<>> /\ name \in ParseHook[kind]
    /\ doing' = kind /\ viewed' = FALSE
    /\ Sends(<<Ev(name)>>)
    /\ IF Headless THEN SetRow(Blocks(kind)) ELSE UNCHANGED <<row, recent, pushed>>
    /\ UNCHANGED <<agent, working, listed, turns>>

SubagentStarts(type) ==
    /\ doing = "thinking" /\ Provider = "claude-code" /\ Len(working) < 2
    /\ working' = Append(working, type)
    /\ Sends(<<[name |-> "PreToolUse", type |-> type], [name |-> "SubagentStart", type |-> type]>>)
    /\ UNCHANGED <<agent, doing, viewed, turns, Daemon>>

SubagentEnds(i) ==
    /\ doing = "thinking" /\ i \in DOMAIN working
    /\ working' = RemoveAt(working, i)
    /\ Sends(<<[name |-> "SubagentStop", type |-> working[i]],
               [name |-> "PostToolUse", type |-> working[i]]>>)
    /\ UNCHANGED <<agent, doing, viewed, turns, Daemon>>

(* The context is compacted in the middle of a turn, which goes on with a  *)
(* tool.  (If it ended next, its end would change no state and leave the   *)
(* row read: see the README.)                                              *)
Compacts ==
    /\ doing = "thinking" /\ Provider = "claude-code" /\ wire = <<>>
    /\ doing' = "tool"
    /\ Sends(<<Ev("SessionStart"), Ev("PreToolUse")>>)
    /\ UNCHANGED <<agent, working, viewed, turns, Daemon>>

Finishes ==
    /\ doing = "thinking" /\ working = <<>> /\ doing' = "rest" /\ viewed' = FALSE
    /\ Sends(IF Provider = "antigravity" THEN <<Ev("PostInvocation"), Ev("Stop")>>
             ELSE <<Ev("Stop")>>)
    /\ IF Headless THEN SetRow(Shows("idle", "none")) ELSE UNCHANGED <<row, recent, pushed>>
    /\ UNCHANGED <<agent, working, listed, turns>>

(* The user answers in the terminal, where only hooks tell of it.  *)
AnswersInPane ==
    /\ ~Headless /\ doing \in Asking /\ wire = <<>> /\ viewed' = TRUE
    /\ \/ /\ doing = "permission" /\ doing' = "allowed" /\ UNCHANGED wire
       \/ /\ doing # "permission" /\ doing' = "thinking" /\ Sends(<<Ev("PostToolUse")>>)
    /\ UNCHANGED <<agent, working, turns, Daemon>>

(* applyInteractiveResponse: the keys are sent and the row shows working.  *)
(* The answer to a headless session starts its next turn (handleRespond).  *)
Responds ==
    /\ doing \in Asking /\ wire = <<>> /\ viewed' = TRUE
    /\ doing' = IF doing = "permission" THEN "allowed" ELSE "thinking"
    /\ IF doing = "permission" THEN UNCHANGED wire ELSE Sends(<<Ev("PostToolUse")>>)
    /\ row' = [state |-> "working", block |-> "none",
               unread |-> IF Headless THEN FALSE ELSE row.unread]
    /\ pushed' = FALSE
    /\ UNCHANGED <<agent, working, turns, recent, listed>>

-----------------------------------------------------------------------------
(* The daemon: an event arrives, in order but for the races. *)
Deliver(i) ==
    /\ i \in DOMAIN wire
    /\ i = 1 \/ (i = 2 /\ <<wire[1].name, wire[2].name>> \in Races)
    /\ wire' = RemoveAt(wire, i)
    /\ listed' = IF Headless /\ ~Running THEN <<>> ELSE Tracked(wire[i])
    /\ SetRow(Folded(wire[i].name))
    /\ UNCHANGED <<agent, doing, working, viewed, turns>>

TwoSecondsPass ==
    /\ wire = <<>> /\ recent /\ recent' = FALSE
    /\ UNCHANGED <<agent, doing, wire, working, row, listed, pushed, viewed, turns>>

(* The client opens the session: control action "read". *)
MarkRead ==
    /\ wire = <<>> /\ row.unread
    /\ row' = [row EXCEPT !.unread = FALSE]
    /\ viewed' = TRUE
    /\ UNCHANGED <<agent, doing, wire, working, recent, listed, pushed, turns>>

Next ==
    \/ StartCLI \/ Prompt \/ ToolStarts \/ ToolEnds \/ AsksPermission
    \/ Asks("question", "AskUserQuestion") \/ Asks("plan", "ExitPlanMode")
    \/ \E type \in Types : SubagentStarts(type)
    \/ \E i \in 1 .. 2 : SubagentEnds(i)
    \/ Compacts \/ Finishes \/ AnswersInPane \/ Responds
    \/ \E i \in 1 .. 2 : Deliver(i)
    \/ TwoSecondsPass \/ MarkRead

Spec == Init /\ [][Next]_vars
-----------------------------------------------------------------------------
TypeOK ==
    /\ row \in [state : {"unknown", "working", "blocked", "idle", "ended"},
                block : Asking \cup {"none"}, unread : BOOLEAN]
    /\ row.block # "none" => row.state = "blocked"
    /\ doing \in Asking \cup {"off", "rest", "thinking", "tool", "allowed"}
    /\ listed \in Seq([type : Types, synthetic : BOOLEAN])
    /\ {recent, pushed, viewed} \subseteq BOOLEAN

(* Once the events of a burst are in, however they raced, a session that   *)
(* waits for the user is shown so, has been pushed, and is unread until    *)
(* the user looks; one at rest does not look busy.                         *)
Shown ==
    wire = <<>> =>
        /\ doing = "rest" => row.state \in {"idle", "ended"}
        /\ doing \in Asking => row.state = "blocked" /\ row.block = doing /\ pushed
        /\ doing \in Asking \cup {"rest"} => viewed \/ row.unread

(* No subagent stays on the list after it has ended, though its end and    *)
(* that of its tool each take an entry off.                                *)
NoGhostSubagent ==
    wire = <<>> => \A i \in DOMAIN listed : \E k \in DOMAIN working : listed[i].type = working[k]
=============================================================================
