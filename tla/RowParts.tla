------------------------------ MODULE RowParts ------------------------------
(***************************************************************************)
(* The components that keep what a session's row shows, and where it is    *)
(* filed.                                                                  *)
(***************************************************************************)
EXTENDS Naturals, Sequences

CONSTANTS
    Instances, CliTypes, Races, MaxTurns, MaxWire,                  \* SessionState
    Subs, Parent, NoOne, Families, MaxAsks,                         \* SubagentBlocks
    Programs, Quoted,                                               \* StatusInspector
    NoId, Placeholder, Conversations, Prompts, Tabs, MaxCalls,      \* HeadlessMigration
    Placed, NodePaths, Dirs, WorkDir, MaxRequests, Parties          \* NodeTree

VARIABLES
    agent, cli, events, working, pill, recent, listed, pushed, viewed, turns,
    family, art, doing, log, wire, row, blocker, asks,
    program, does, screen, shown, checked,
    straddling, rows, proc, queue, paused, block, subs, turn, child, call, calls,
    nodes, dirs, filed, request, filing, requests, removed, torn

State == INSTANCE SessionState WITH Types <- CliTypes, doing <- cli, wire <- events, row <- pill
Blocks == INSTANCE SubagentBlocks WITH None <- NoOne
Inspector == INSTANCE StatusInspector WITH Agents <- Programs, cli <- program
Migration == INSTANCE HeadlessMigration WITH Convs <- Conversations, None <- NoId
Tree == INSTANCE NodeTree WITH
    Ids <- Placed, Paths <- NodePaths, Cwd <- WorkDir, rows <- filed

(***************************************************************************)
(* The instances that the theorems are about.                              *)
(***************************************************************************)
(* Every agent whose Stop is no end, in both engines; the CLI's hooks that *)
(* run at once may swap.                                                   *)
Providers == {"claude-code", "antigravity", "grok", "opencode"}
Overtaking == Races \subseteq {<<"PostToolUse", "Stop">>, <<"PreToolUse", "PermissionRequest">>}
Burst == Instances \subseteq Providers \X {"pane", "headless"} /\ Overtaking

(* Families of any size: every subagent is registered as running, or there *)
(* is one, with any artifacts; the parent waits while one of them asks.    *)
Herd ==
    /\ Parent \notin Subs /\ NoOne \notin Blocks!Convs
    /\ \A f \in Families :
         /\ f.subs \subseteq Subs /\ f.arts \subseteq Blocks!Artifact /\ f.background = FALSE
         /\ \/ \A a \in f.arts : ~a.annotated /\ a.record = "RUNNING"
            \/ \E s \in Subs : f.subs = {s}

(* No older text on a pane is taken for a request: of Claude Code none is, *)
(* since the lowest mark of a pane counts.                                 *)
Misread(p) ==
    CASE p = "claude-code" -> {}
      [] p = "antigravity" -> {"header", "choice", "alert", "mention", "confirm", "prompt"}
      [] OTHER             -> {"permission", "question"}
Readable == \A p \in Programs : Quoted[p] \cap Misread(p) = {}

(* IDs differ, and NoId is none of what it stands for the lack of.         *)
Apart ==
    /\ Placeholder \notin Conversations /\ NoId \notin Migration!Ids \cup Prompts
    /\ MaxCalls \in Nat

(* One writer at a time, any paths and directories.  No name of a group at *)
(* the top is used below another one.                                      *)
Rooted ==
    /\ MaxRequests \in Nat /\ Parties = 1
    /\ NodePaths \subseteq Seq(Nat) \ {<<>>} /\ Dirs \subseteq Seq(Nat)
    /\ WorkDir \in [Placed -> Seq(Nat)]
    /\ \A p, q \in NodePaths : \A k \in 2 .. Len(p) : p[k] # q[1]

ASSUME RowAssumption == Burst /\ Herd /\ Readable /\ Apart /\ Rooted
=============================================================================
