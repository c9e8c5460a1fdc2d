----------------------------- MODULE RowProofs ------------------------------
(***************************************************************************)
(* Theorems about what a session's row shows, for the components of        *)
(* Services that keep it: from the hooks of the CLI (SessionState), from   *)
(* those of its subagents (SubagentBlocks) and from the text of its pane   *)
(* (StatusInspector), while the session's ID is replaced                   *)
(* (HeadlessMigration), and while the tree that it is filed in changes     *)
(* (NodeTree).                                                             *)
(*                                                                         *)
(* Once a burst of events is in, the row shows what the CLI does and lists *)
(* no subagent that has ended, for any prompts, subagents and bursts; it   *)
(* is blocked exactly while someone asks, for any number of subagents; an  *)
(* inspection leaves the truth in it and a second one changes nothing, for *)
(* any agents and any older text that is not taken for a request; whoever  *)
(* holds which ID, every prompt, turn and listener is under one key of the *)
(* engine's maps, for any prompts, conversations and listeners; and no row *)
(* is left in a group that was deleted or moved away, for any tree.        *)
(***************************************************************************)
EXTENDS RowParts, SequenceTheorems, FiniteSetTheorems, TLAPS

-----------------------------------------------------------------------------
(***************************************************************************)
(* What the row of a session shows.                                        *)
(***************************************************************************)

\* The events with which a CLI stops, and those that make a row work.
Closes(name, d) ==
  \/ name = "Stop" /\ d = "rest"
  \/ name \in {"PermissionRequest", "ask_permission"} /\ d = "permission"
  \/ name = "AskUserQuestion" /\ d = "question"
  \/ name = "ExitPlanMode" /\ d = "plan"
Closing == {"Stop", "PermissionRequest", "ask_permission", "AskUserQuestion", "ExitPlanMode"}
Busy == {"UserPromptSubmit", "PreToolUse", "PostToolUse", "SubagentStart", "SubagentStop"}
Waking == {"UserPromptSubmit", "PreToolUse", "SessionStart"}
Names == Closing \cup Busy \cup {"SessionStart", "PostInvocation"}
Events == [name : Names, type : CliTypes \cup {"none"}]

Does == State!Asking \cup {"off", "rest", "thinking", "tool", "allowed"}
States == {"unknown", "working", "blocked", "idle", "ended"}

Typed ==
  /\ agent \in Instances
  /\ events \in Seq(Events)
  /\ working \in Seq(CliTypes)
  /\ pill \in [state : States, block : State!Asking \cup {"none"}, unread : BOOLEAN]
  /\ cli \in Does
  /\ recent \in BOOLEAN /\ pushed \in BOOLEAN /\ viewed \in BOOLEAN

\* The events left when the CLI has stopped: its first, or one that was overtaken.
Starting == cli = "rest" /\ Len(events) = 1 /\ events[1].name = "SessionStart"
Overtaken == \/ cli = "rest" /\ Len(events) = 1 /\ events[1].name = "PostToolUse"
             \/ cli = "permission" /\ Len(events) = 1 /\ events[1].name = "PreToolUse"

\* What a CLI says in which order: what closes a burst comes last, and nothing
\* is on the way of a CLI that stands still but what leads up to that.
Order ==
  /\ \A i \in DOMAIN events :
       /\ events[i].name \in Closing => i = Len(events) /\ Closes(events[i].name, cli)
       /\ events[i].name = "PermissionRequest" => State!Provider # "antigravity"
       /\ events[i].name = "ask_permission" => State!Provider = "antigravity"
       /\ events[i].name = "ExitPlanMode" => State!Provider \in {"claude-code", "antigravity"}
       /\ events[i].name = "PostInvocation" =>
            State!Provider = "antigravity" /\ i + 1 = Len(events) /\ events[i + 1].name = "Stop"
       /\ events[i].name = "Stop" /\ State!Provider = "antigravity" /\ i > 1 =>
            events[i - 1].name = "PostInvocation"
       /\ events[i].name = "SessionStart" =>
            /\ i = 1
            /\ Len(events) = 1 => cli = "rest" /\ viewed
            /\ Len(events) > 1 => events[2].name = "PreToolUse"
  /\ cli \in {"off", "allowed"} => events = <<>>
  /\ cli \in State!Asking \cup {"rest"} /\ events # <<>> =>
       Overtaken \/ Starting \/ Closes(events[Len(events)].name, cli)
  /\ cli = "permission" => ~State!Headless

\* A row that a closing event has reached before the one it overtook.
Ahead == \/ cli = "rest" /\ pill.state = "idle" /\ recent /\ (viewed \/ pill.unread)
         \/ /\ cli = "permission" /\ pill.state = "blocked" /\ pill.block = "permission"
            /\ recent /\ pushed /\ (viewed \/ pill.unread)
\* What a pane's row shows while an event is on the way that changes it.
Paned ==
  ~State!Headless =>
    /\ State!Running /\ events = <<>> =>
         pill.state = "working" \/ (cli = "allowed" /\ pill.state = "blocked")
    /\ Overtaken => Ahead
    /\ events # <<>> /\ ~Overtaken =>
         /\ events[1].name \in Waking => pill.state # "blocked"
         /\ events[1].name \notin Waking =>
              \/ pill.state = "working"
              \/ pill.state = "blocked" /\ events[1].name = "PostToolUse"
              \/ State!Provider = "antigravity" /\ events[1].name = "Stop" /\ pill.state = "idle"
\* The row of a headless session shows what its runner did last.
Engine ==
  State!Headless =>
    /\ State!Running => pill.state = "working"
    /\ cli = "rest" => pill.state = "idle" /\ (viewed \/ pill.unread)
    /\ cli \in State!Asking =>
         /\ pill.state \in {"blocked", "idle"} /\ (viewed \/ pill.unread)
         /\ pill.state = "blocked" => pushed

Shape == Typed /\ Order /\ Paned /\ Engine
\* A row before its CLI runs.
Off == cli = "off" => viewed /\ pill.state = "unknown"
StateIInv == Shape /\ Off /\ State!Shown

-----------------------------------------------------------------------------
(***************************************************************************)
(* What the providers and the corrections make of an event.                *)
(***************************************************************************)
LEMMA Which ==
  ASSUME Burst, Typed
  PROVE  /\ State!Provider \in Providers
         /\ State!Headless \in BOOLEAN
         /\ cli \in State!Asking \cup {"rest", "off"} <=> ~State!Running
BY DEF Burst, Typed, State!Provider, State!Headless, State!Running, Does, State!Asking

LEMMA SaidIs ==
  ASSUME Burst, Typed
  PROVE  /\ \A name \in Busy : State!Said(name) = State!Shows("working", "none")
         /\ State!Said("SessionStart") = State!Shows("idle", "none")
         /\ State!Provider = "antigravity" => State!Said("Stop") = State!Shows("ended", "none")
         /\ State!Provider # "antigravity" => State!Said("Stop") = State!Shows("idle", "none")
         /\ State!Provider = "antigravity" => State!Said("PostInvocation") = State!Shows("idle", "none")
         /\ State!Provider = "antigravity" => State!Said("ask_permission") = State!Blocks("permission")
         /\ State!Provider # "antigravity" => State!Said("PermissionRequest") = State!Blocks("permission")
         /\ State!Said("AskUserQuestion") = State!Blocks("question")
         /\ State!Provider \in {"claude-code", "antigravity"} => State!Said("ExitPlanMode") = State!Blocks("plan")
<1> DEFINE P == State!ParseHook
<1>1. CASE State!Provider = "claude-code"
  <2>1. P = State!ParseClaude
    BY <1>1 DEF State!ParseHook
  <2> QED BY <1>1, <2>1 DEF State!Said, State!BlockOf, State!ParseClaude, State!Asking, Busy,
             State!Shows, State!Blocks
<1>2. CASE State!Provider = "antigravity"
  <2>1. P = State!ParseAntigravity
    BY <1>2 DEF State!ParseHook
  <2> QED BY <1>2, <2>1 DEF State!Said, State!BlockOf, State!ParseAntigravity, State!Asking, Busy,
             State!Shows, State!Blocks
<1>3. CASE State!Provider \in {"grok", "opencode"}
  <2>1. P = State!ParseGrok
    BY <1>3 DEF State!ParseHook, State!ParseOpenCode
  <2> QED BY <1>3, <2>1 DEF State!Said, State!BlockOf, State!ParseGrok, State!Asking, Busy,
             State!Shows, State!Blocks
<1> QED BY <1>1, <1>2, <1>3, Which DEF Providers

-----------------------------------------------------------------------------
(***************************************************************************)
(* Sequences of events.                                                    *)
(***************************************************************************)
LEMMA Concat ==
  ASSUME NEW S, NEW s \in Seq(S), NEW t \in Seq(S)
  PROVE  /\ s \o t \in Seq(S) /\ Len(s) \in Nat /\ Len(t) \in Nat
         /\ Len(s \o t) = Len(s) + Len(t) /\ DOMAIN (s \o t) = 1 .. Len(s) + Len(t)
         /\ DOMAIN s = 1 .. Len(s) /\ DOMAIN t = 1 .. Len(t)
         /\ \A i \in 1 .. Len(s) : (s \o t)[i] = s[i]
         /\ \A i \in 1 .. Len(t) : (s \o t)[Len(s) + i] = t[i]
         /\ s = <<>> => s \o t = t
         /\ s = <<>> <=> Len(s) = 0
<1>1. /\ s \o t \in Seq(S) /\ Len(s) \in Nat /\ Len(t) \in Nat /\ Len(s \o t) = Len(s) + Len(t)
      /\ \A i \in 1 .. Len(s) + Len(t) :
           (s \o t)[i] = IF i <= Len(s) THEN s[i] ELSE t[i - Len(s)]
  BY ConcatProperties
<1>2. DOMAIN (s \o t) = 1 .. Len(s) + Len(t) /\ DOMAIN s = 1 .. Len(s) /\ DOMAIN t = 1 .. Len(t)
  BY <1>1
<1>3. \A i \in 1 .. Len(s) : (s \o t)[i] = s[i]
  BY <1>1
<1>4. ASSUME NEW i \in 1 .. Len(t) PROVE (s \o t)[Len(s) + i] = t[i]
  <2>1. Len(s) + i \in 1 .. Len(s) + Len(t) /\ ~(Len(s) + i <= Len(s)) /\ Len(s) + i - Len(s) = i
    BY <1>1
  <2> QED BY <1>1, <2>1
<1>5. s = <<>> => s \o t = t
  BY ConcatEmptySeq
<1>6. s = <<>> <=> Len(s) = 0
  OBVIOUS
<1> QED BY <1>1, <1>2, <1>3, <1>4, <1>5, <1>6

LEMMA Removed ==
  ASSUME NEW S, NEW s \in Seq(S), NEW i \in 1 .. Len(s)
  PROVE  /\ State!RemoveAt(s, i) \in Seq(S) /\ Len(State!RemoveAt(s, i)) = Len(s) - 1
         /\ \A j \in 1 .. Len(s) - 1 : State!RemoveAt(s, i)[j] = IF j < i THEN s[j] ELSE s[j + 1]
<1> DEFINE a == SubSeq(s, 1, i - 1)
           b == SubSeq(s, i + 1, Len(s))
<1>1. a \in Seq(S) /\ Len(a) = i - 1 /\ \A j \in 1 .. i - 1 : a[j] = s[j]
  BY SubSeqProperties
<1>2. b \in Seq(S) /\ Len(b) = Len(s) - i /\ \A j \in 1 .. Len(s) - i : b[j] = s[i + j]
  BY SubSeqProperties
<1>3. State!RemoveAt(s, i) = a \o b
  BY DEF State!RemoveAt
<1> HIDE DEF a, b
<1>4. /\ a \o b \in Seq(S) /\ Len(a \o b) = Len(s) - 1
      /\ \A j \in 1 .. i - 1 : (a \o b)[j] = a[j]
      /\ \A j \in 1 .. Len(s) - i : (a \o b)[i - 1 + j] = b[j]
  BY <1>1, <1>2, Concat
<1>5. ASSUME NEW j \in 1 .. Len(s) - 1, ~(j < i) PROVE (a \o b)[j] = s[j + 1]
  <2>1. PICK k \in 1 .. Len(s) - i : i - 1 + k = j /\ i + k = j + 1
    <3>1. j - (i - 1) \in 1 .. Len(s) - i /\ i - 1 + (j - (i - 1)) = j /\ i + (j - (i - 1)) = j + 1
      BY <1>5
    <3> QED BY <3>1
  <2>2. (a \o b)[i - 1 + k] = b[k] /\ b[k] = s[i + k]
    BY <1>2, <1>4
  <2> QED BY <2>1, <2>2
<1> QED BY <1>1, <1>3, <1>4, <1>5

\* The row after a change.
LEMMA RowIs ==
  ASSUME NEW next, State!SetRow(next), next.state \in States, next.block \in State!Asking \cup {"none"},
         Typed
  PROVE  /\ pill' \in [state : States, block : State!Asking \cup {"none"}, unread : BOOLEAN]
         /\ pill'.state = next.state /\ pill'.block = next.block
         /\ pill'.unread = IF next.state = pill.state THEN pill.unread ELSE next.state # "working"
         /\ recent' \in BOOLEAN /\ pushed' \in BOOLEAN
         /\ recent => recent'
         /\ next.state # pill.state /\ next.state # "working" => recent'
         /\ next.state = "blocked" /\ (pushed \/ pill.state # "blocked") => pushed'
BY DEF State!SetRow, Typed

-----------------------------------------------------------------------------
\* The CLI goes on: nothing is said that closes a burst.
LEMMA GoesOn ==
  ASSUME Burst, StateIInv, State!Running, cli' \in {"thinking", "tool"}, NEW evs \in Seq(Events),
         Len(evs) > 0, \A i \in 1 .. Len(evs) : evs[i].name \in Busy,
         cli = "allowed" => evs[1].name = "PostToolUse",
         events' = events \o evs, UNCHANGED <<agent, pill, recent, pushed, viewed>>, working' \in Seq(CliTypes)
  PROVE  StateIInv'
<1>1. /\ events' \in Seq(Events) /\ Len(events) \in Nat /\ Len(evs) \in Nat
      /\ Len(events') = Len(events) + Len(evs) /\ DOMAIN events' = 1 .. Len(events) + Len(evs)
      /\ DOMAIN events = 1 .. Len(events)
      /\ \A i \in 1 .. Len(events) : events'[i] = events[i]
      /\ \A i \in 1 .. Len(evs) : events'[Len(events) + i] = evs[i]
      /\ events = <<>> <=> Len(events) = 0
      /\ events = <<>> => events' = evs
  BY Concat DEF StateIInv, Shape, Typed
<1>2. events' # <<>> /\ ~Overtaken /\ ~Starting /\ ~Overtaken' /\ ~Starting'
      /\ cli' \notin State!Asking \cup {"off", "rest", "allowed"}
  BY <1>1 DEF Overtaken, Starting, State!Running, State!Asking
<1>3. Typed'
  BY <1>1 DEF StateIInv, Shape, Typed, Does
<1>4. \A i \in 1 .. Len(events) :
        events[i].name \notin Closing /\ events[i].name # "PostInvocation"
  <2>1. ASSUME NEW i \in 1 .. Len(events), events[i].name \in Closing PROVE FALSE
    <3>1. Closes(events[i].name, cli)
      BY <1>1, <2>1 DEF StateIInv, Shape, Order
    <3> QED BY <3>1 DEF Closes, State!Running
  <2>2. ASSUME NEW i \in 1 .. Len(events), events[i].name = "PostInvocation" PROVE FALSE
    <3>1. i + 1 = Len(events) /\ events[i + 1].name = "Stop"
      BY <1>1, <2>2 DEF StateIInv, Shape, Order
    <3>2. i + 1 \in 1 .. Len(events)
      BY <1>1, <3>1
    <3> QED BY <2>1, <3>1, <3>2 DEF Closing
  <2> QED BY <2>1, <2>2
<1>5. \A i \in DOMAIN events' :
        \/ i \in 1 .. Len(events) /\ events'[i] = events[i]
        \/ events'[i].name \in Busy
  <2> SUFFICES ASSUME NEW i \in 1 .. Len(events) + Len(evs), i \notin 1 .. Len(events)
               PROVE  events'[i].name \in Busy
    BY <1>1
  <2>1. i - Len(events) \in 1 .. Len(evs) /\ Len(events) + (i - Len(events)) = i
    BY <1>1
  <2> QED BY <1>1, <2>1
<1>6. Order'
  <2>1. ASSUME NEW i \in DOMAIN events', events'[i].name = "SessionStart"
        PROVE  i = 1 /\ Len(events') > 1 /\ events'[2].name = "PreToolUse"
    <3>1. i \in 1 .. Len(events) /\ events[i].name = "SessionStart"
      BY <1>5, <2>1 DEF Busy
    <3>2. i = 1 /\ (Len(events) = 1 => cli = "rest") /\ (Len(events) > 1 => events[2].name = "PreToolUse")
      BY <1>1, <3>1 DEF StateIInv, Shape, Order
    <3> QED BY <1>1, <3>1, <3>2 DEF State!Running
  <2>2. \A i \in DOMAIN events' : events'[i].name \notin Closing /\ events'[i].name # "PostInvocation"
    BY <1>4, <1>5 DEF Busy, Closing
  <2> QED BY <1>2, <2>1, <2>2 DEF Order, Closing
<1>7. Paned'
  <2> SUFFICES ASSUME ~State!Headless PROVE Paned'
    BY DEF Paned, State!Headless
  <2>1. CASE events = <<>>
    <3>1. pill.state = "working" \/ (cli = "allowed" /\ pill.state = "blocked")
      BY <2>1 DEF StateIInv, Shape, Paned
    <3>2. events'[1] = evs[1]
      BY <1>1, <2>1
    <3> QED BY <1>2, <3>1, <3>2 DEF Paned, Waking
  <2>2. CASE events # <<>>
    <3>1. events'[1] = events[1]
      BY <1>1, <2>2
    <3>2. events[1].name # "Stop"
      BY <1>1, <1>4, <2>2 DEF Closing
    <3> QED BY <1>2, <2>2, <3>1, <3>2 DEF StateIInv, Shape, Paned
  <2> QED BY <2>1, <2>2
<1>8. Engine'
  BY <1>2 DEF StateIInv, Shape, Engine, State!Headless, State!Running, State!Asking
<1> QED BY <1>2, <1>3, <1>6, <1>7, <1>8 DEF StateIInv, Shape, Off, State!Shown, State!Asking

\* What an event on the way says.
LEMMA EventIs ==
  ASSUME Burst, StateIInv, NEW i \in DOMAIN events, NEW n, n = events[i].name
  PROVE  \/ n \in Busy /\ State!Said(n) = State!Shows("working", "none")
         \/ n = "SessionStart" /\ State!Said(n) = State!Shows("idle", "none")
         \/ n = "PostInvocation" /\ State!Said(n) = State!Shows("idle", "none") /\ cli = "rest"
         \/ n = "Stop" /\ cli = "rest" /\ State!Provider = "antigravity" /\ State!Said(n) = State!Shows("ended", "none")
         \/ n = "Stop" /\ cli = "rest" /\ State!Provider # "antigravity" /\ State!Said(n) = State!Shows("idle", "none")
         \/ n \in Closing \ {"Stop"} /\ cli \in State!Asking /\ Closes(n, cli) /\ State!Said(n) = State!Blocks(cli)
<1>1. n \in Names /\ events \in Seq(Events) /\ DOMAIN events = 1 .. Len(events)
  <2>1. events \in Seq(Events)
    BY DEF StateIInv, Shape, Typed
  <2>2. DOMAIN events = 1 .. Len(events) /\ events[i] \in Events
    BY <2>1
  <2> QED BY <2>1, <2>2 DEF Events
<1>2. Typed
  BY DEF StateIInv, Shape
<1>3. CASE n \in Busy \cup {"SessionStart"}
  BY <1>2, <1>3, SaidIs
<1>4. CASE n = "PostInvocation"
  <2>1. State!Provider = "antigravity" /\ i + 1 = Len(events) /\ events[i + 1].name = "Stop"
    BY <1>4 DEF StateIInv, Shape, Order
  <2>2. i + 1 \in DOMAIN events
    BY <1>1, <2>1
  <2>3. cli = "rest"
    BY <2>1, <2>2 DEF StateIInv, Shape, Order, Closing, Closes
  <2> QED BY <1>2, <1>4, <2>1, <2>3, SaidIs
<1>5. CASE n \in Closing
  <2>1. Closes(n, cli)
    BY <1>5 DEF StateIInv, Shape, Order
  <2>2. /\ n = "PermissionRequest" => State!Provider # "antigravity"
        /\ n = "ask_permission" => State!Provider = "antigravity"
        /\ n = "ExitPlanMode" => State!Provider \in {"claude-code", "antigravity"}
    BY DEF StateIInv, Shape, Order
  <2>3. CASE n = "Stop"
    BY <1>2, <2>1, <2>3, SaidIs DEF Closes
  <2>4. CASE n # "Stop"
    BY <1>2, <1>5, <2>1, <2>2, <2>4, SaidIs DEF Closes, Closing, State!Asking
  <2> QED BY <2>3, <2>4
<1> QED BY <1>1, <1>3, <1>4, <1>5 DEF Names

\* The row of a headless session follows the runner, whatever is heard.
LEMMA Follows ==
  ASSUME Burst, StateIInv, State!Headless, NEW i \in DOMAIN events,
         State!SetRow(State!Folded(events[i].name)),
         UNCHANGED <<agent, cli, viewed>>
  PROVE  /\ pill' \in [state : States, block : State!Asking \cup {"none"}, unread : BOOLEAN]
         /\ recent' \in BOOLEAN /\ pushed' \in BOOLEAN
         /\ Engine'
         /\ cli \in State!Asking /\ Closes(events[i].name, cli) =>
              pill'.state = "blocked" /\ pill'.block = cli /\ pushed'
<1> DEFINE n == events[i].name
           f == State!Folded(n)
<1>1. Typed /\ State!Headless' = State!Headless /\ State!Running' = State!Running
  BY DEF StateIInv, Shape, State!Headless, State!Running
<1>2. DEFINE said == State!FollowRunner(State!Said(n))
<1>3. CASE State!Running
  <2>1. State!Said(n).state # "blocked" /\ pill.state = "working"
        /\ (State!Said(n).state = "working" => State!Said(n) = State!Shows("working", "none"))
        /\ State!Said(n).state \in {"working", "idle", "ended"}
    BY <1>3, EventIs DEF State!Running, State!Asking, State!Shows, StateIInv, Shape, Engine
  <2>2. said = State!Shows("working", "none")
    BY <1>3, <2>1 DEF State!FollowRunner
  <2>3. f = State!Shows("working", "none")
    BY <2>1, <2>2 DEF State!Folded, State!KeepIdle, State!KeepPermission
  <2>4. f.state = "working" /\ f.block = "none"
    BY <2>3 DEF State!Shows
  <2> HIDE DEF f
  <2>5. State!SetRow(f)
    BY DEF f
  <2>6. /\ pill' \in [state : States, block : State!Asking \cup {"none"}, unread : BOOLEAN]
        /\ pill'.state = "working" /\ recent' \in BOOLEAN /\ pushed' \in BOOLEAN
    BY <1>1, <2>4, <2>5, RowIs DEF States
  <2> QED BY <1>1, <1>3, <2>6 DEF Engine, State!Running, State!Asking
<1>4. CASE cli = "rest"
  <2>1. State!Said(n).state # "blocked" /\ pill.state = "idle" /\ (viewed \/ pill.unread)
        /\ State!Said(n) \in {State!Shows("working", "none"), State!Shows("idle", "none"), State!Shows("ended", "none")}
    BY <1>4, EventIs DEF State!Asking, State!Shows, StateIInv, Shape, Engine
  <2>2. said = State!Shows("idle", "none")
    BY <1>4, <2>1 DEF State!FollowRunner, State!Running, State!Shows
  <2>3. f = State!Shows("idle", "none")
    BY <2>1, <2>2 DEF State!Folded, State!KeepIdle, State!KeepPermission
  <2>4. f.state = "idle" /\ f.block = "none"
    BY <2>3 DEF State!Shows
  <2> HIDE DEF f
  <2>5. State!SetRow(f)
    BY DEF f
  <2>6. /\ pill' \in [state : States, block : State!Asking \cup {"none"}, unread : BOOLEAN]
        /\ pill'.state = "idle" /\ recent' \in BOOLEAN /\ pushed' \in BOOLEAN
        /\ pill'.unread = pill.unread
    BY <1>1, <2>1, <2>4, <2>5, RowIs DEF States
  <2> QED BY <1>1, <1>4, <2>1, <2>6 DEF Engine, State!Running, State!Asking
<1>5. CASE cli \in State!Asking
  <2>1. pill.state \in {"blocked", "idle"} /\ (viewed \/ pill.unread) /\ (pill.state = "blocked" => pushed)
    BY <1>5 DEF StateIInv, Shape, Engine
  <2>2. /\ \/ State!Said(n) = State!Shows("working", "none") /\ n \in Busy
           \/ State!Said(n) = State!Shows("idle", "none") /\ n = "SessionStart"
           \/ State!Said(n) = State!Blocks(cli) /\ n \notin Busy
        /\ Closes(n, cli) => State!Said(n) = State!Blocks(cli) /\ n \notin Busy
    BY <1>5, EventIs DEF State!Asking, Busy, Closes, Closing
  <2>3. ~State!Running
    BY <1>5 DEF State!Running, State!Asking
  <2>4. /\ \/ said = State!Blocks(pill.block) /\ pill.state = "blocked" /\ pill.block # "none" /\ n \in Busy
           \/ said = State!Shows("idle", "none")
           \/ said = State!Blocks(cli) /\ n \notin Busy
        /\ Closes(n, cli) => said = State!Blocks(cli) /\ n \notin Busy
    BY <2>2, <2>3 DEF State!FollowRunner, State!Shows, State!Blocks
  <2>5. /\ f \in {State!Blocks(pill.block), State!Blocks(cli), State!Shows("idle", "none")}
        /\ Closes(n, cli) => f = State!Blocks(cli)
    BY <2>4 DEF State!Folded, State!KeepIdle, State!KeepPermission, State!Shows, State!Blocks, Busy
  <2>6. /\ f.state \in {"blocked", "idle"} /\ f.block \in State!Asking \cup {"none"}
        /\ Closes(n, cli) => f.state = "blocked" /\ f.block = cli
    BY <1>1, <1>5, <2>5 DEF State!Shows, State!Blocks, Typed
  <2> HIDE DEF f
  <2>7. State!SetRow(f)
    BY DEF f
  <2>8. /\ pill' \in [state : States, block : State!Asking \cup {"none"}, unread : BOOLEAN]
        /\ pill'.state = f.state /\ pill'.block = f.block /\ recent' \in BOOLEAN /\ pushed' \in BOOLEAN
        /\ pill'.unread = IF f.state = pill.state THEN pill.unread ELSE f.state # "working"
        /\ f.state = "blocked" /\ (pushed \/ pill.state # "blocked") => pushed'
    BY <1>1, <2>6, <2>7, RowIs DEF States
  <2>9. viewed \/ pill'.unread
    BY <2>1, <2>6, <2>8
  <2>10. pill'.state = "blocked" => pushed'
    BY <2>1, <2>8
  <2> QED BY <1>1, <1>5, <2>3, <2>6, <2>8, <2>9, <2>10 DEF Engine, State!Running, State!Asking
<1>6. cli # "off"
  BY DEF StateIInv, Shape, Order
<1> QED BY <1>1, <1>3, <1>4, <1>5, <1>6, Which

\* What a pane's row makes of an event.
LEMMA Heeds ==
  ASSUME ~State!Headless, NEW n,
         n \in {"PreToolUse", "PostToolUse"} => State!Said(n).state = "working",
         n = "PostToolUse" => ~(pill.state = "idle" /\ recent),
         n = "PreToolUse" => pill.state # "blocked"
  PROVE  State!Folded(n) = State!Said(n)
BY DEF State!Folded, State!FollowRunner, State!KeepIdle, State!KeepPermission

-----------------------------------------------------------------------------
\* The CLI stops: a closing event is the last one said.
LEMMA Stops ==
  ASSUME Burst, StateIInv, cli \in {"thinking", "tool"}, cli' \in State!Asking \cup {"rest"},
         NEW c, c \in Closing, Closes(c, cli'),
         c = "PermissionRequest" => State!Provider # "antigravity",
         c = "ask_permission" => State!Provider = "antigravity",
         c = "ExitPlanMode" => State!Provider \in {"claude-code", "antigravity"},
         cli' = "permission" => ~State!Headless,
         events' = events \o (IF c = "Stop" /\ State!Provider = "antigravity"
                          THEN <<State!Ev("PostInvocation"), State!Ev(c)>> ELSE <<State!Ev(c)>>),
         State!Headless => State!SetRow(IF cli' = "rest" THEN State!Shows("idle", "none") ELSE State!Blocks(cli')),
         ~State!Headless => UNCHANGED <<pill, recent, pushed>>,
         viewed' = FALSE, UNCHANGED <<agent, working>>
  PROVE  StateIInv'
<1> DEFINE evs == IF c = "Stop" /\ State!Provider = "antigravity"
                  THEN <<State!Ev("PostInvocation"), State!Ev(c)>> ELSE <<State!Ev(c)>>
<1>1. /\ evs \in Seq(Events) /\ Len(evs) \in {1, 2} /\ evs[Len(evs)].name = c
      /\ Len(evs) = 2 => c = "Stop" /\ State!Provider = "antigravity" /\ evs[1].name = "PostInvocation"
      /\ Len(evs) = 1 => ~(c = "Stop" /\ State!Provider = "antigravity")
  <2>1. State!Ev(c) \in Events /\ State!Ev("PostInvocation") \in Events /\ State!Ev(c).name = c
        /\ State!Ev("PostInvocation").name = "PostInvocation"
    BY DEF State!Ev, Events, Names
  <2> QED BY <2>1
<1>2. events' = events \o evs
  OBVIOUS
<1> HIDE DEF evs
<1>3. /\ events' \in Seq(Events) /\ Len(events) \in Nat
      /\ Len(events') = Len(events) + Len(evs) /\ DOMAIN events' = 1 .. Len(events) + Len(evs)
      /\ DOMAIN events = 1 .. Len(events)
      /\ \A i \in 1 .. Len(events) : events'[i] = events[i]
      /\ \A i \in 1 .. Len(evs) : events'[Len(events) + i] = evs[i]
      /\ events = <<>> <=> Len(events) = 0
      /\ events = <<>> => events' = evs
      /\ events' # <<>>
  <2>1. events \in Seq(Events)
    BY DEF StateIInv, Shape, Typed
  <2> DEFINE w == events \o evs
  <2>2. /\ w \in Seq(Events) /\ Len(events) \in Nat
        /\ Len(w) = Len(events) + Len(evs) /\ DOMAIN w = 1 .. Len(events) + Len(evs)
        /\ DOMAIN events = 1 .. Len(events)
        /\ \A i \in 1 .. Len(events) : w[i] = events[i]
        /\ \A i \in 1 .. Len(evs) : w[Len(events) + i] = evs[i]
        /\ events = <<>> <=> Len(events) = 0
        /\ events = <<>> => w = evs
    BY <1>1, <2>1, Concat
  <2>3. events' = w
    BY <1>2
  <2> HIDE DEF w
  <2>4. w # <<>>
    <3>1. Len(w) > 0
      BY <1>1, <2>2
    <3> QED BY <3>1
  <2> QED BY <2>2, <2>3, <2>4
<1>4. State!Running /\ ~State!Running' /\ State!Provider' = State!Provider /\ State!Headless' = State!Headless /\ cli' # "off"
      /\ ~Overtaken /\ ~Starting
  BY DEF State!Running, State!Asking, State!Provider, State!Headless, Overtaken, Starting
<1>5. events'[Len(events')].name = c
  <2>1. Len(evs) \in 1 .. Len(evs)
    <3>1. \A k \in {1, 2} : k \in 1 .. k
      OBVIOUS
    <3>2. Len(evs) \in {1, 2}
      BY <1>1
    <3> QED BY <3>1, <3>2
  <2>2. events'[Len(events) + Len(evs)] = evs[Len(evs)]
    BY <1>3, <2>1
  <2> QED BY <1>1, <1>3, <2>2
<1>6. \A i \in 1 .. Len(events) :
        events[i].name \notin Closing /\ events[i].name # "PostInvocation"
  BY <1>3, EventIs DEF State!Running, State!Asking, Closing, Busy
<1>7. \A i \in DOMAIN events' :
        \/ i \in 1 .. Len(events) /\ events'[i] = events[i]
        \/ i = Len(events') /\ events'[i].name = c
        \/ i + 1 = Len(events') /\ c = "Stop" /\ State!Provider = "antigravity" /\ events'[i].name = "PostInvocation"
  <2> SUFFICES ASSUME NEW i \in 1 .. Len(events) + Len(evs), i \notin 1 .. Len(events), i # Len(events')
               PROVE  i + 1 = Len(events') /\ Len(evs) = 2 /\ events'[i].name = "PostInvocation"
    BY <1>1, <1>3, <1>5
  <2>1. i = Len(events) + 1 /\ Len(evs) = 2
    BY <1>1, <1>3
  <2> QED BY <1>1, <1>3, <2>1
<1>8. ~Overtaken' /\ ~Starting'
  BY <1>5 DEF Overtaken, Starting, Closing
<1>9. Typed'
  <2>1. CASE State!Headless
    <3>1. Typed
      BY DEF StateIInv, Shape
    <3> DEFINE next == IF cli' = "rest" THEN State!Shows("idle", "none") ELSE State!Blocks(cli')
    <3>2. State!SetRow(next) /\ next.state \in States /\ next.block \in State!Asking \cup {"none"}
      BY <2>1 DEF State!Shows, State!Blocks, States
    <3> HIDE DEF next
    <3>3. pill' \in [state : States, block : State!Asking \cup {"none"}, unread : BOOLEAN]
          /\ recent' \in BOOLEAN /\ pushed' \in BOOLEAN
      BY <3>1, <3>2, RowIs
    <3> QED BY <1>3, <3>1, <3>3 DEF Typed, Does
  <2>2. CASE ~State!Headless
    BY <1>3, <2>2 DEF StateIInv, Shape, Typed, Does
  <2> QED BY <2>1, <2>2
<1>10. Order'
  <2>1. ASSUME NEW i \in DOMAIN events', events'[i].name = "SessionStart"
        PROVE  i = 1 /\ Len(events') > 1 /\ events'[2].name = "PreToolUse"
    <3>1. i \in 1 .. Len(events) /\ events[i].name = "SessionStart"
      BY <1>7, <2>1 DEF Closing
    <3>2. i = 1 /\ (Len(events) = 1 => cli = "rest") /\ (Len(events) > 1 => events[2].name = "PreToolUse")
      BY <1>3, <3>1 DEF StateIInv, Shape, Order
    <3> QED BY <1>1, <1>3, <3>1, <3>2
  <2>2. ASSUME NEW i \in DOMAIN events', events'[i].name \in Closing
        PROVE  i = Len(events') /\ events'[i].name = c
    BY <1>6, <1>7, <2>2 DEF Closing
  <2>3. ASSUME NEW i \in DOMAIN events', events'[i].name = "PostInvocation"
        PROVE  State!Provider = "antigravity" /\ i + 1 = Len(events') /\ events'[i + 1].name = "Stop"
    BY <1>5, <1>6, <1>7, <2>3 DEF Closing
  <2>4. ASSUME NEW i \in DOMAIN events', events'[i].name = "Stop", State!Provider = "antigravity", i > 1
        PROVE  events'[i - 1].name = "PostInvocation"
    <3>1. i = Len(events') /\ c = "Stop"
      BY <2>2, <2>4 DEF Closing
    <3>2. Len(evs) = 2 /\ i - 1 = Len(events) + 1
      BY <1>1, <1>3, <2>4, <3>1
    <3> QED BY <1>1, <1>3, <3>2
  <2>5. cli' \notin {"off", "allowed"}
    BY DEF State!Asking
  <2>6. ASSUME NEW i \in DOMAIN events'
        PROVE  /\ events'[i].name \in Closing =>
                    i = Len(events') /\ Closes(events'[i].name, cli')
               /\ events'[i].name = "PermissionRequest" => State!Provider # "antigravity"
               /\ events'[i].name = "ask_permission" => State!Provider = "antigravity"
               /\ events'[i].name = "ExitPlanMode" => State!Provider \in {"claude-code", "antigravity"}
    BY <2>2 DEF Closing
  <2>7. events' # <<>> => Closes(events'[Len(events')].name, cli')
    BY <1>5
  <2>8. ASSUME NEW i \in DOMAIN events'
        PROVE  /\ events'[i].name = "PostInvocation" =>
                    State!Provider = "antigravity" /\ i + 1 = Len(events') /\ events'[i + 1].name = "Stop"
               /\ events'[i].name = "Stop" /\ State!Provider = "antigravity" /\ i > 1 =>
                    events'[i - 1].name = "PostInvocation"
               /\ events'[i].name = "SessionStart" =>
                    i = 1 /\ Len(events') > 1 /\ Len(events') # 1 /\ events'[2].name = "PreToolUse"
    <3>1. events'[i].name = "SessionStart" =>
            i = 1 /\ Len(events') > 1 /\ Len(events') # 1 /\ events'[2].name = "PreToolUse"
      BY <1>3, <2>1
    <3> QED BY <2>3, <2>4, <3>1
  <2>9. cli' \in State!Asking \cup {"rest"} /\ events' # <<>> => Closes(events'[Len(events')].name, cli')
    BY <2>7
  <2> QED BY <1>4, <2>5, <2>6, <2>8, <2>9 DEF Order
<1>11. Paned'
  <2> SUFFICES ASSUME ~State!Headless PROVE Paned'
    BY <1>4 DEF Paned
  <2>1. CASE events = <<>>
    <3>1. pill'.state = "working"
      BY <1>4, <2>1 DEF StateIInv, Shape, Paned
    <3>2. events'[1].name \notin Waking
      BY <1>1, <1>3, <2>1 DEF Waking, Closing
    <3> QED BY <1>3, <1>4, <1>8, <3>1, <3>2 DEF Paned
  <2>2. CASE events # <<>>
    <3>1. 1 \in 1 .. Len(events) /\ events'[1] = events[1]
      BY <1>3, <2>2
    <3>2. /\ events[1].name \in Waking => pill.state # "blocked"
          /\ events[1].name \notin Waking =>
               \/ pill.state = "working"
               \/ pill.state = "blocked" /\ events[1].name = "PostToolUse"
      BY <1>4, <1>6, <2>2, <3>1 DEF StateIInv, Shape, Paned, Closing
    <3> QED BY <1>3, <1>4, <1>8, <3>1, <3>2 DEF Paned
  <2> QED BY <2>1, <2>2
<1>12. Engine'
  <2> SUFFICES ASSUME State!Headless PROVE Engine'
    BY <1>4 DEF Engine
  <2>1. pill.state = "working"
    BY <1>4 DEF StateIInv, Shape, Engine
  <2> DEFINE next == IF cli' = "rest" THEN State!Shows("idle", "none") ELSE State!Blocks(cli')
  <2>2. State!SetRow(next) /\ next.block \in State!Asking \cup {"none"}
        /\ next.state = IF cli' = "rest" THEN "idle" ELSE "blocked"
    BY DEF State!Shows, State!Blocks
  <2> HIDE DEF next
  <2>3. Typed /\ next.state \in States
    BY <2>2 DEF StateIInv, Shape, States
  <2>4. pill'.state = next.state /\ pill'.unread = TRUE /\ (next.state = "blocked" => pushed')
    BY <2>1, <2>2, <2>3, RowIs
  <2> QED BY <1>4, <2>2, <2>4 DEF Engine, State!Asking
<1> QED BY <1>3, <1>4, <1>9, <1>10, <1>11, <1>12 DEF StateIInv, Shape, Off, State!Shown

-----------------------------------------------------------------------------
\* An event arrives in order.
LEMMA Arrives ==
  ASSUME Burst, StateIInv, State!Deliver(1)
  PROVE  StateIInv'
<1> DEFINE n == events[1].name
<1>1. /\ events \in Seq(Events) /\ 1 \in DOMAIN events /\ DOMAIN events = 1 .. Len(events)
      /\ Len(events) \in Nat
      /\ Len(events) >= 1 /\ events # <<>>
  BY DEF State!Deliver, StateIInv, Shape, Typed
<1>2. /\ events' \in Seq(Events) /\ Len(events') = Len(events) - 1
      /\ DOMAIN events' = 1 .. Len(events) - 1
      /\ \A j \in 1 .. Len(events) - 1 : events'[j] = events[j + 1]
      /\ events' = <<>> <=> Len(events) = 1
  <2> DEFINE w == State!RemoveAt(events, 1)
  <2>1. /\ w \in Seq(Events) /\ Len(w) = Len(events) - 1
        /\ \A j \in 1 .. Len(events) - 1 : w[j] = events[j + 1]
    <3>1. 1 \in 1 .. Len(events)
      BY <1>1
    <3>2. /\ w \in Seq(Events) /\ Len(w) = Len(events) - 1
          /\ \A j \in 1 .. Len(events) - 1 : w[j] = IF j < 1 THEN events[j] ELSE events[j + 1]
      BY <1>1, <3>1, Removed
    <3> HIDE DEF w
    <3> QED BY <1>1, <3>2
  <2>2. events' = w
    BY DEF State!Deliver
  <2> HIDE DEF w
  <2>3. DOMAIN w = 1 .. Len(events) - 1 /\ (w = <<>> <=> Len(events) = 1)
    BY <1>1, <2>1
  <2> QED BY <2>1, <2>2, <2>3
<1>3. /\ UNCHANGED <<agent, cli, viewed, working>> /\ State!SetRow(State!Folded(n))
      /\ State!Provider' = State!Provider /\ State!Headless' = State!Headless
      /\ State!Running' = State!Running
  BY DEF State!Deliver, State!Provider, State!Headless, State!Running
<1>4. cli \notin {"off", "allowed"}
  BY <1>1 DEF StateIInv, Shape, Order
<1>5. cli \in State!Asking \cup {"rest"} /\ Len(events) > 1 => Closes(events[Len(events)].name, cli)
  BY <1>1 DEF StateIInv, Shape, Order, Overtaken, Starting
<1>6. Order' /\ ~Overtaken' /\ ~Starting'
  <2>1. ASSUME NEW j \in DOMAIN events'
        PROVE  j + 1 \in DOMAIN events /\ events'[j] = events[j + 1] /\ j \in Nat
               /\ (j = Len(events') <=> j + 1 = Len(events)) /\ j + 1 # 1
    BY <1>1, <1>2, <2>1
  <2>2. ASSUME NEW j \in DOMAIN events'
        PROVE  /\ events'[j].name \in Closing => j = Len(events') /\ Closes(events'[j].name, cli)
               /\ events'[j].name = "PermissionRequest" => State!Provider # "antigravity"
               /\ events'[j].name = "ask_permission" => State!Provider = "antigravity"
               /\ events'[j].name = "ExitPlanMode" => State!Provider \in {"claude-code", "antigravity"}
               /\ events'[j].name # "SessionStart"
    BY <2>1, <2>2 DEF StateIInv, Shape, Order
  <2>3. ASSUME NEW j \in DOMAIN events', events'[j].name = "PostInvocation"
        PROVE  State!Provider = "antigravity" /\ j + 1 = Len(events') /\ events'[j + 1].name = "Stop"
    <3>1. State!Provider = "antigravity" /\ j + 2 = Len(events) /\ events[j + 2].name = "Stop"
      BY <2>1, <2>3 DEF StateIInv, Shape, Order
    <3>2. j + 1 \in 1 .. Len(events) - 1 /\ j + 1 = Len(events')
      BY <1>2, <2>1, <3>1
    <3>3. events'[j + 1] = events[j + 2]
      BY <1>2, <3>2
    <3> QED BY <3>1, <3>2, <3>3
  <2>4. ASSUME NEW j \in DOMAIN events', events'[j].name = "Stop",
               State!Provider = "antigravity", j > 1
        PROVE  events'[j - 1].name = "PostInvocation"
    <3>1. events[j + 1].name = "Stop" /\ j + 1 > 1 /\ j + 1 \in DOMAIN events
      BY <2>1, <2>4
    <3>2. events[j].name = "PostInvocation"
      <4>1. \A i \in DOMAIN events : events[i].name = "Stop" /\ i > 1 => events[i - 1].name = "PostInvocation"
        BY <2>4 DEF StateIInv, Shape, Order
      <4> DEFINE m == j + 1
      <4>2. m \in DOMAIN events /\ events[m].name = "Stop" /\ m > 1 /\ m - 1 = j
        BY <2>1, <2>4, <3>1
      <4> HIDE DEF m
      <4>3. events[m - 1].name = "PostInvocation"
        BY <4>1, <4>2
      <4> QED BY <4>2, <4>3
    <3>3. events'[j - 1] = events[j]
      BY <1>1, <1>2, <2>4
    <3> QED BY <2>1, <3>2, <3>3
  <2>5. cli \in State!Asking \cup {"rest"} /\ events' # <<>> => Closes(events'[Len(events')].name, cli)
    <3> SUFFICES ASSUME cli \in State!Asking \cup {"rest"}, events' # <<>>
                 PROVE  Closes(events'[Len(events')].name, cli)
      OBVIOUS
    <3>1. Len(events) > 1
      BY <1>1, <1>2
    <3>2. Len(events') \in 1 .. Len(events) - 1 /\ Len(events') + 1 = Len(events)
      BY <1>1, <1>2, <3>1
    <3>3. events'[Len(events')] = events[Len(events)]
      BY <1>2, <3>2
    <3> QED BY <1>5, <3>1, <3>3
  <2>6. cli = "permission" => ~State!Headless
    BY DEF StateIInv, Shape, Order
  <2>7. ~Overtaken' /\ ~Starting'
    <3>1. ASSUME Len(events') = 1, cli' \in {"rest", "permission"}
          PROVE  events'[1].name \notin {"PostToolUse", "PreToolUse", "SessionStart"}
      <4>1. Len(events) # 1 /\ events' # <<>>
        <5>1. Len(events') = Len(events) - 1 /\ Len(events') = 1
          BY <1>2, <3>1
        <5>2. Len(events) # 1
          BY <1>1, <5>1
        <5> QED BY <1>2, <5>2
      <4>2. Closes(events'[1].name, cli)
        BY <1>3, <2>5, <3>1, <4>1 DEF State!Asking
      <4> QED BY <4>2 DEF Closes
    <3> QED BY <3>1 DEF Overtaken, Starting
  <2>8. Order'
    BY <1>3, <1>4, <2>2, <2>3, <2>4, <2>5, <2>6 DEF Order
  <2> QED BY <2>7, <2>8
<1>7. CASE State!Headless
  <2>1. /\ pill' \in [state : States, block : State!Asking \cup {"none"}, unread : BOOLEAN]
        /\ recent' \in BOOLEAN /\ pushed' \in BOOLEAN
        /\ Engine'
        /\ cli \in State!Asking /\ Closes(n, cli) =>
             pill'.state = "blocked" /\ pill'.block = cli /\ pushed'
    BY <1>1, <1>3, <1>7, Follows
  <2>2. Typed'
    BY <1>2, <1>3, <2>1 DEF StateIInv, Shape, Typed
  <2>3. ASSUME events' = <<>>, cli \in State!Asking PROVE Closes(n, cli)
    <3>1. Len(events) = 1
      BY <1>2, <2>3
    <3> QED BY <1>1, <1>7, <2>3, <3>1 DEF StateIInv, Shape, Order, Overtaken, Starting, State!Asking
  <2>4. State!Shown'
    BY <1>3, <1>7, <2>1, <2>3 DEF State!Shown, Engine, State!Asking
  <2> QED BY <1>3, <1>4, <1>6, <1>7, <2>1, <2>2, <2>4 DEF StateIInv, Shape, Off, Paned
<1>8. CASE ~State!Headless
  <2>1. CASE Overtaken
    <3>1. Ahead /\ Len(events) = 1 /\ events' = <<>>
      BY <1>2, <1>8, <2>1 DEF StateIInv, Shape, Paned, Overtaken
    <3>2. CASE cli = "rest"
      <4>1. n = "PostToolUse" /\ pill.state = "idle" /\ recent /\ (viewed \/ pill.unread)
        BY <2>1, <3>1, <3>2 DEF Overtaken, Ahead
      <4>2. State!Folded(n) = State!Shows("idle", "none")
        BY <4>1 DEF State!Folded, State!KeepIdle, State!KeepPermission
      <4>3. State!SetRow(State!Shows("idle", "none")) /\ State!Shows("idle", "none").state = "idle"
            /\ State!Shows("idle", "none").block = "none"
        BY <1>3, <4>2 DEF State!Shows
      <4>4. Typed /\ Typed'
        BY <1>2, <1>3, <4>3, RowIs DEF StateIInv, Shape, Typed, States
      <4>5. pill'.state = "idle" /\ (viewed \/ pill'.unread)
        BY <4>1, <4>3, <4>4, RowIs DEF States
      <4>6. State!Shown'
        BY <1>3, <3>2, <4>5 DEF State!Shown, State!Asking
      <4> QED BY <1>3, <1>4, <1>6, <1>8, <3>1, <3>2, <4>4, <4>6
              DEF StateIInv, Shape, Off, Paned, Engine, State!Running
    <3>3. CASE cli = "permission"
      <4>1. n = "PreToolUse" /\ pill.state = "blocked" /\ pill.block = "permission" /\ recent /\ pushed
            /\ (viewed \/ pill.unread)
        BY <2>1, <3>1, <3>3 DEF Overtaken, Ahead
      <4>2. State!Folded(n) = State!Blocks("permission")
        <5>1. Typed
          BY DEF StateIInv, Shape
        <5>2. State!Said(n) = State!Shows("working", "none")
          BY <4>1, <5>1, SaidIs DEF Busy
        <5> QED BY <1>8, <4>1, <5>2 DEF State!Folded, State!FollowRunner, State!KeepIdle,
                   State!KeepPermission, State!Shows
      <4>3. State!SetRow(State!Blocks("permission")) /\ State!Blocks("permission").state = "blocked"
            /\ State!Blocks("permission").block = "permission"
        BY <1>3, <4>2 DEF State!Shows, State!Blocks
      <4>4. Typed /\ Typed'
        BY <1>2, <1>3, <4>3, RowIs DEF StateIInv, Shape, Typed, States, State!Asking
      <4>5. pill'.state = "blocked" /\ pill'.block = "permission" /\ (viewed \/ pill'.unread) /\ pushed'
        BY <4>1, <4>3, <4>4, RowIs DEF States, State!Asking
      <4>6. State!Shown'
        BY <1>3, <3>3, <4>5 DEF State!Shown, State!Asking
      <4> QED BY <1>3, <1>4, <1>6, <1>8, <3>1, <3>3, <4>4, <4>6
              DEF StateIInv, Shape, Off, Paned, Engine, State!Running
    <3> QED BY <2>1, <3>2, <3>3 DEF Overtaken
  <2>2. CASE ~Overtaken
    <3>1. /\ n \in Waking => pill.state # "blocked"
          /\ n \notin Waking =>
               \/ pill.state = "working"
               \/ pill.state = "blocked" /\ n = "PostToolUse"
               \/ State!Provider = "antigravity" /\ n = "Stop" /\ pill.state = "idle"
      BY <1>1, <1>8, <2>2 DEF StateIInv, Shape, Paned
    <3> DEFINE f == State!Said(n)
    <3>2. State!SetRow(f)
      <4>1. State!Folded(n) = f
        <5>1. n \in {"PreToolUse", "PostToolUse"} => State!Said(n).state = "working"
          BY <1>1, EventIs DEF Closing, State!Shows
        <5> QED BY <1>8, <3>1, <5>1, Heeds DEF Waking
      <4> QED BY <1>3, <4>1
    <3>3. /\ \/ n \in Busy /\ f.state = "working" /\ f.block = "none"
             \/ n = "SessionStart" /\ f.state = "idle" /\ f.block = "none"
             \/ n = "PostInvocation" /\ f.state = "idle" /\ f.block = "none" /\ cli = "rest"
             \/ n = "Stop" /\ cli = "rest" /\ State!Provider = "antigravity" /\ f.state = "ended" /\ f.block = "none"
             \/ n = "Stop" /\ cli = "rest" /\ State!Provider # "antigravity" /\ f.state = "idle" /\ f.block = "none"
             \/ n \in Closing \ {"Stop"} /\ cli \in State!Asking /\ Closes(n, cli)
                /\ f.state = "blocked" /\ f.block = cli
      BY <1>1, EventIs DEF State!Shows, State!Blocks
    <3> HIDE DEF f
    <3>4. f.state \in States /\ f.block \in State!Asking \cup {"none"} /\ Typed
      BY <3>3 DEF States, StateIInv, Shape
    <3>5. /\ Typed' /\ pill'.state = f.state /\ pill'.block = f.block
          /\ pill'.unread = IF f.state = pill.state THEN pill.unread ELSE f.state # "working"
          /\ f.state = "blocked" /\ (pushed \/ pill.state # "blocked") => pushed'
      BY <1>2, <1>3, <3>2, <3>4, RowIs DEF Typed
    <3>6. Paned' /\ State!Shown'
      <4>1. CASE n \in Busy
        <5>1. pill'.state = "working"
          BY <3>3, <3>5, <4>1 DEF Busy, Closing
        <5>2. ASSUME events' = <<>> PROVE State!Running
          <6>1. Len(events) = 1
            BY <1>2, <5>2
          <6>2. ~Closes(n, cli) /\ n # "SessionStart"
            BY <4>1 DEF Closes, Busy
          <6>3. cli \notin State!Asking \cup {"rest"}
            BY <1>1, <2>2, <6>1, <6>2 DEF StateIInv, Shape, Order, Starting
          <6> QED BY <1>4, <3>4, <6>3, Which
        <5>3. Paned'
          BY <1>3, <1>6, <5>1 DEF Paned
        <5>4. State!Shown'
          BY <1>3, <5>2 DEF State!Shown, State!Running, State!Asking
        <5> QED BY <5>3, <5>4
      <4>2. CASE n = "SessionStart"
        <5>1. pill'.state = "idle"
          BY <3>3, <3>5, <4>2 DEF Busy, Closing
        <5>2. /\ Len(events) = 1 => cli = "rest" /\ viewed
              /\ Len(events) > 1 => events[2].name = "PreToolUse"
          BY <1>1, <4>2 DEF StateIInv, Shape, Order
        <5>3. State!Shown'
          BY <1>2, <1>3, <5>1, <5>2 DEF State!Shown, State!Asking
        <5>4. Paned'
          <6>1. CASE Len(events) = 1
            BY <1>2, <1>3, <5>2, <6>1 DEF Paned, State!Running, Overtaken
          <6>2. CASE Len(events) > 1
            <7>1. events' # <<>> /\ events'[1].name = "PreToolUse"
              BY <1>1, <1>2, <5>2, <6>2
            <7> QED BY <1>6, <5>1, <7>1 DEF Paned, Waking
          <6> QED BY <1>1, <6>1, <6>2
        <5> QED BY <5>3, <5>4
      <4>3. CASE n = "PostInvocation"
        <5>1. pill'.state = "idle"
          BY <3>3, <3>5, <4>3 DEF Busy, Closing
        <5>2. State!Provider = "antigravity" /\ 2 = Len(events) /\ events[2].name = "Stop"
          BY <1>1, <4>3 DEF StateIInv, Shape, Order
        <5>3. events' # <<>> /\ events'[1].name = "Stop"
          <6>1. Len(events) # 1 /\ 1 \in 1 .. Len(events) - 1
            <7>1. Len(events) = 2 /\ 2 # 1 /\ 1 \in 1 .. 2 - 1
              BY <5>2
            <7> QED BY <7>1
          <6>2. events'[1] = events[1 + 1]
            BY <1>2, <6>1
          <6> QED BY <1>2, <5>2, <6>1, <6>2
        <5> QED BY <1>3, <1>6, <5>1, <5>2, <5>3 DEF Paned, State!Shown, Waking
      <4>4. CASE n \in Closing
        <5>1. 1 = Len(events)
          BY <1>1, <4>4 DEF StateIInv, Shape, Order
        <5>2. events' = <<>>
          BY <1>2, <5>1
        <5>3. ~State!Running
          BY <3>3, <4>4 DEF State!Running, State!Asking, Busy, Closing
        <5>4. pill.state \in {"working", "idle"} /\ (pill.state = "idle" => State!Provider = "antigravity" /\ n = "Stop")
          BY <3>1, <4>4 DEF Waking, Closing
        <5>5. /\ cli = "rest" => pill'.state \in {"idle", "ended"}
              /\ cli \in State!Asking => pill'.state = "blocked" /\ pill'.block = cli /\ pushed'
              /\ pill'.unread = TRUE
          BY <3>3, <3>5, <4>4, <5>4 DEF Busy, Closing, State!Asking
        <5> QED BY <1>3, <5>2, <5>3, <5>5, <1>6 DEF Paned, State!Shown
      <4> QED BY <3>3, <4>1, <4>2, <4>3, <4>4 DEF Closing
    <3> QED BY <1>3, <1>4, <1>6, <1>8, <3>5, <3>6 DEF StateIInv, Shape, Off, Engine
  <2> QED BY <2>1, <2>2
<1> QED BY <1>7, <1>8

-----------------------------------------------------------------------------
\* The end of a turn, or a request for permission, overtakes the tool's event.
LEMMA Overtakes ==
  ASSUME Burst, StateIInv, State!Deliver(2)
  PROVE  StateIInv'
<1> DEFINE n == events[2].name
<1>1. /\ events \in Seq(Events) /\ 2 \in DOMAIN events /\ 1 \in DOMAIN events
      /\ DOMAIN events = 1 .. Len(events)
      /\ <<events[1].name, n>> \in {<<"PostToolUse", "Stop">>, <<"PreToolUse", "PermissionRequest">>}
      /\ UNCHANGED <<agent, cli, viewed, working>> /\ State!SetRow(State!Folded(n))
  <2>1. events \in Seq(Events) /\ 2 \in DOMAIN events
    BY DEF State!Deliver, StateIInv, Shape, Typed
  <2>2. <<events[1].name, n>> \in Races
    BY DEF State!Deliver
  <2>3. DOMAIN events = 1 .. Len(events) /\ 1 \in DOMAIN events
    BY <2>1
  <2> QED BY <2>1, <2>2, <2>3 DEF State!Deliver, Burst, Overtaking
<1>2. State!Provider' = State!Provider /\ State!Headless' = State!Headless /\ State!Running' = State!Running
  BY <1>1 DEF State!Provider, State!Headless, State!Running
<1>3. \/ events[1].name = "PostToolUse" /\ n = "Stop" /\ cli = "rest" /\ State!Provider # "antigravity"
      \/ events[1].name = "PreToolUse" /\ n = "PermissionRequest" /\ cli = "permission" /\ State!Provider # "antigravity"
  <2>1. n = "Stop" \/ n = "PermissionRequest"
    BY <1>1
  <2>2. Closes(n, cli)
    BY <1>1, <2>1 DEF StateIInv, Shape, Order, Closing
  <2>3. ASSUME n = "Stop", State!Provider = "antigravity" PROVE events[1].name = "PostInvocation"
    <3>1. events[2 - 1].name = "PostInvocation"
      BY <1>1, <2>3 DEF StateIInv, Shape, Order
    <3> QED BY <3>1
  <2>4. n = "PermissionRequest" => State!Provider # "antigravity"
    BY <1>1 DEF StateIInv, Shape, Order
  <2> QED BY <1>1, <2>2, <2>3, <2>4 DEF Closes
<1>4. Len(events) = 2
  BY <1>1, <1>3 DEF StateIInv, Shape, Order, Closing
<1>5. events' \in Seq(Events) /\ Len(events') = 1 /\ events'[1] = events[1] /\ DOMAIN events' = {1} /\ events' # <<>>
  <2> DEFINE w == State!RemoveAt(events, 2)
  <2>1. 2 \in 1 .. Len(events) /\ 1 \in 1 .. Len(events) - 1
    BY <1>4
  <2>2. w \in Seq(Events) /\ Len(w) = Len(events) - 1
        /\ \A j \in 1 .. Len(events) - 1 : w[j] = IF j < 2 THEN events[j] ELSE events[j + 1]
    BY <1>1, <2>1, Removed
  <2>3. events' = w
    BY DEF State!Deliver
  <2> HIDE DEF w
  <2>4. w[1] = events[1] /\ Len(w) = 1
    BY <1>4, <2>1, <2>2
  <2>5. DOMAIN w = {1} /\ w # <<>>
    <3>1. DOMAIN w = 1 .. Len(w) /\ Len(w) # 0
      <4>1. w \in Seq(Events) /\ Len(w) = 1
        BY <2>2, <2>4
      <4> QED BY <4>1
    <3>2. 1 .. 1 = {1}
      OBVIOUS
    <3>3. w # <<>>
      BY <3>1
    <3> QED BY <2>4, <3>1, <3>2, <3>3
  <2> QED BY <2>2, <2>3, <2>4, <2>5
<1>6. Overtaken' /\ ~Overtaken
  BY <1>1, <1>3, <1>4, <1>5 DEF Overtaken
<1>7. cli # "off" /\ ~State!Running
  BY <1>3 DEF State!Running
<1>8. Order'
  <2>1. cli = "permission" => ~State!Headless
    BY DEF StateIInv, Shape, Order
  <2> QED BY <1>1, <1>2, <1>3, <1>5, <1>6, <2>1 DEF Order, Closing
<1>9. CASE State!Headless
  <2>1. /\ pill' \in [state : States, block : State!Asking \cup {"none"}, unread : BOOLEAN]
        /\ recent' \in BOOLEAN /\ pushed' \in BOOLEAN
        /\ Engine'
    BY <1>1, <1>9, Follows
  <2>2. Typed'
    BY <1>1, <1>5, <2>1 DEF StateIInv, Shape, Typed
  <2> QED BY <1>1, <1>2, <1>5, <1>7, <1>8, <1>9, <2>1, <2>2 DEF StateIInv, Shape, Off, Paned, State!Shown
<1>10. CASE ~State!Headless
  <2>1. /\ n = "Stop" => pill.state # "idle"
        /\ n = "PermissionRequest" => pill.state # "blocked"
    BY <1>1, <1>3, <1>6, <1>10 DEF StateIInv, Shape, Paned, Waking
  <2> DEFINE f == State!Said(n)
  <2>2. State!SetRow(f)
    BY <1>1, <1>3, <1>10, Heeds
  <2>3. /\ n = "Stop" => f.state = "idle" /\ f.block = "none"
        /\ n = "PermissionRequest" => f.state = "blocked" /\ f.block = "permission"
    BY <1>1, <1>3, EventIs DEF State!Shows, State!Blocks, Busy, Closing
  <2> HIDE DEF f
  <2>4. f.state \in States /\ f.block \in State!Asking \cup {"none"} /\ Typed
    BY <1>3, <2>3 DEF States, State!Asking, StateIInv, Shape
  <2>5. /\ pill' \in [state : States, block : State!Asking \cup {"none"}, unread : BOOLEAN]
        /\ pill'.state = f.state /\ pill'.block = f.block
        /\ pill'.unread = IF f.state = pill.state THEN pill.unread ELSE f.state # "working"
        /\ recent' \in BOOLEAN /\ pushed' \in BOOLEAN
        /\ f.state # pill.state /\ f.state # "working" => recent'
        /\ f.state = "blocked" /\ (pushed \/ pill.state # "blocked") => pushed'
    BY <2>2, <2>4, RowIs
  <2>6. Typed'
    BY <1>1, <1>5, <2>5 DEF StateIInv, Shape, Typed
  <2>7. Ahead'
    BY <1>1, <1>3, <2>1, <2>3, <2>5 DEF Ahead
  <2> QED BY <1>1, <1>2, <1>5, <1>6, <1>7, <1>8, <1>10, <2>6, <2>7 DEF StateIInv, Shape, Off,
             Paned, Engine, State!Shown
<1> QED BY <1>9, <1>10

-----------------------------------------------------------------------------
\* A row as an action sets it, whatever it showed.
LEMMA SetTo ==
  ASSUME Typed, NEW st \in States, NEW bl \in State!Asking \cup {"none"},
         State!SetRow(State!Shows(st, bl))
  PROVE  /\ pill' \in [state : States, block : State!Asking \cup {"none"}, unread : BOOLEAN]
         /\ pill'.state = st
         /\ pill'.unread = IF st = pill.state THEN pill.unread ELSE st # "working"
         /\ recent' \in BOOLEAN /\ pushed' \in BOOLEAN
<1>1. State!Shows(st, bl).state = st /\ State!Shows(st, bl).block = bl
  BY DEF State!Shows
<1> DEFINE next == State!Shows(st, bl)
<1>2. State!SetRow(next) /\ next.state \in States /\ next.block \in State!Asking \cup {"none"}
  BY <1>1
<1> HIDE DEF next
<1>3. /\ pill' \in [state : States, block : State!Asking \cup {"none"}, unread : BOOLEAN]
      /\ pill'.state = next.state
      /\ pill'.unread = IF next.state = pill.state THEN pill.unread ELSE next.state # "working"
      /\ recent' \in BOOLEAN /\ pushed' \in BOOLEAN
  BY <1>2, RowIs
<1> QED BY <1>1, <1>3 DEF next

\* A burst begins: nothing was on the way.
LEMMA SentOff ==
  ASSUME NEW evs, evs \in Seq(Events), State!Sends(evs), events = <<>>
  PROVE  events' = evs
BY DEF State!Sends

LEMMA Prompting ==
  ASSUME Burst, StateIInv, State!Prompt
  PROVE  StateIInv'
<1>1. /\ events = <<>> /\ cli = "rest" /\ cli' = "thinking" /\ viewed' = TRUE
      /\ UNCHANGED <<agent, working>>
      /\ State!Provider' = State!Provider /\ State!Headless' = State!Headless
  BY DEF State!Prompt, State!Provider, State!Headless
<1> DEFINE e == State!Ev("UserPromptSubmit")
<1>2. events' = <<e>> /\ e \in Events /\ e.name = "UserPromptSubmit"
  <2>1. e \in Events /\ e.name = "UserPromptSubmit"
    BY DEF State!Ev, Events, Names, Busy
  <2>2. State!Sends(<<e>>)
    BY DEF State!Prompt
  <2> HIDE DEF e
  <2>3. <<e>> \in Seq(Events)
    BY <2>1
  <2> QED BY <1>1, <2>1, <2>2, <2>3, SentOff
<1> HIDE DEF e
<1>3. events' \in Seq(Events) /\ Len(events') = 1 /\ DOMAIN events' = {1} /\ events' # <<>> /\ events'[1].name = "UserPromptSubmit"
  BY <1>2
<1>4. Order' /\ ~Overtaken'
  BY <1>1, <1>3 DEF Order, Overtaken, Closing, State!Asking
<1>5. CASE State!Headless
  <2>1. State!SetRow(State!Shows("working", "none")) /\ Typed
    BY <1>5 DEF State!Prompt, StateIInv, Shape
  <2>2. Typed' /\ pill'.state = "working"
    BY <1>1, <1>3, <2>1, SetTo DEF Typed, States, Does
  <2> QED BY <1>1, <1>3, <1>4, <1>5, <2>2 DEF StateIInv, Shape, Off, State!Shown, Paned, Engine,
             State!Asking
<1>6. CASE ~State!Headless
  <2>1. UNCHANGED <<pill, recent, pushed>> /\ pill.state \in {"idle", "ended"}
    BY <1>1, <1>6 DEF State!Prompt, StateIInv, State!Shown
  <2>2. Typed'
    BY <1>1, <1>3, <2>1 DEF StateIInv, Shape, Typed, Does
  <2> QED BY <1>1, <1>3, <1>4, <1>6, <2>1, <2>2 DEF StateIInv, Shape, Off, State!Shown, Paned,
             Engine, Waking
<1> QED BY <1>5, <1>6

LEMMA Starts ==
  ASSUME Burst, StateIInv, State!StartCLI
  PROVE  StateIInv'
<1>1. /\ events = <<>> /\ cli = "off" /\ cli' = "rest" /\ viewed' = TRUE /\ pill.state = "unknown"
      /\ UNCHANGED <<agent, working>>
      /\ State!Provider' = State!Provider /\ State!Headless' = State!Headless /\ Typed
  <2>1. viewed \in BOOLEAN /\ viewed' = viewed
    BY DEF StateIInv, Shape, Typed, State!StartCLI
  <2> QED BY <2>1 DEF State!StartCLI, State!Provider, State!Headless, StateIInv, Shape, Order, Off
<1>2. CASE State!Headless
  <2>1. State!SetRow(State!Shows("idle", "none")) /\ events' = <<>>
    BY <1>1, <1>2 DEF State!StartCLI
  <2>2. Typed' /\ pill'.state = "idle"
    BY <1>1, <2>1, SetTo DEF Typed, States, Does
  <2>3. Order' /\ ~Overtaken'
    BY <1>1, <2>1 DEF Order, Overtaken
  <2> QED BY <1>1, <1>2, <2>1, <2>2, <2>3 DEF StateIInv, Shape, Off, State!Shown, Paned, Engine,
             State!Asking, State!Running
<1>3. CASE ~State!Headless
  <2> DEFINE e == State!Ev("SessionStart")
  <2>1. events' = <<e>> /\ e \in Events /\ e.name = "SessionStart" /\ UNCHANGED <<pill, recent, pushed>>
    <3>1. e \in Events /\ e.name = "SessionStart"
      BY DEF State!Ev, Events, Names, Busy
    <3>2. State!Sends(<<e>>) /\ UNCHANGED <<pill, recent, pushed>>
      BY <1>3 DEF State!StartCLI
    <3> HIDE DEF e
    <3>3. <<e>> \in Seq(Events)
      BY <3>1
    <3> QED BY <1>1, <3>1, <3>2, <3>3, SentOff
  <2> HIDE DEF e
  <2>2. events' \in Seq(Events) /\ Len(events') = 1 /\ DOMAIN events' = {1} /\ events' # <<>> /\ events'[1].name = "SessionStart"
    BY <2>1
  <2>3. Order' /\ ~Overtaken'
    BY <1>1, <2>2 DEF Order, Overtaken, Starting, Closing, State!Asking
  <2>4. Typed'
    BY <1>1, <2>1, <2>2 DEF Typed, Does
  <2> QED BY <1>1, <1>3, <2>1, <2>2, <2>3, <2>4 DEF StateIInv, Shape, Off, State!Shown, Paned,
             Engine, Waking, State!Running
<1> QED BY <1>2, <1>3

LEMMA Compacting ==
  ASSUME Burst, StateIInv, State!Compacts
  PROVE  StateIInv'
<1>1. /\ events = <<>> /\ cli = "thinking" /\ cli' = "tool"
      /\ UNCHANGED <<agent, working, viewed, pill, recent, pushed>>
      /\ State!Provider' = State!Provider /\ State!Headless' = State!Headless
  BY DEF State!Compacts, State!Daemon, State!Provider, State!Headless
<1> DEFINE e == State!Ev("SessionStart")
           g == State!Ev("PreToolUse")
<1>2. events' = <<e, g>> /\ e \in Events /\ e.name = "SessionStart" /\ g \in Events /\ g.name = "PreToolUse"
  <2>1. e \in Events /\ e.name = "SessionStart" /\ g \in Events /\ g.name = "PreToolUse"
    BY DEF State!Ev, Events, Names, Busy
  <2>2. State!Sends(<<e, g>>)
    BY DEF State!Compacts
  <2> HIDE DEF e, g
  <2>3. <<e, g>> \in Seq(Events)
    BY <2>1
  <2> QED BY <1>1, <2>1, <2>2, <2>3, SentOff
<1> HIDE DEF e, g
<1>3. events' \in Seq(Events) /\ Len(events') = 2 /\ DOMAIN events' = {1, 2} /\ events' # <<>>
      /\ events'[1].name = "SessionStart" /\ events'[2].name = "PreToolUse"
  BY <1>2
<1>4. Order' /\ ~Overtaken'
  BY <1>1, <1>3 DEF Order, Overtaken, Closing, State!Asking
<1>5. Typed'
  BY <1>1, <1>3 DEF StateIInv, Shape, Typed, Does
<1>6. /\ ~State!Headless => pill.state = "working"
      /\ State!Headless => pill.state = "working"
  BY <1>1 DEF StateIInv, Shape, Paned, Engine, State!Running
<1> QED BY <1>1, <1>3, <1>4, <1>5, <1>6 DEF StateIInv, Shape, Off, State!Shown, Paned, Engine, State!Asking

\* The user answers, in the terminal or through the daemon.
LEMMA Answers ==
  ASSUME Burst, StateIInv, cli \in State!Asking, events = <<>>, viewed' = TRUE, UNCHANGED <<agent, working>>,
         cli' = IF cli = "permission" THEN "allowed" ELSE "thinking",
         IF cli = "permission" THEN UNCHANGED events ELSE State!Sends(<<State!Ev("PostToolUse")>>),
         pill' \in [state : States, block : State!Asking \cup {"none"}, unread : BOOLEAN],
         recent' \in BOOLEAN, pushed' \in BOOLEAN,
         pill'.state = "working" \/ (~State!Headless /\ pill'.state = "blocked")
  PROVE  StateIInv'
<1>1. State!Provider' = State!Provider /\ State!Headless' = State!Headless /\ cli' \in {"allowed", "thinking"}
  BY DEF State!Provider, State!Headless
<1>2. CASE cli = "permission"
  <2>1. events' = <<>> /\ cli' = "allowed"
    BY <1>2
  <2>2. Order' /\ ~Overtaken'
    BY <2>1 DEF Order, Overtaken, State!Asking
  <2>3. Typed'
    BY <2>1 DEF StateIInv, Shape, Typed, Does
  <2> QED BY <1>1, <2>1, <2>2, <2>3 DEF StateIInv, Shape, Off, State!Shown, Paned, Engine, State!Asking
<1>3. CASE cli # "permission"
  <2> DEFINE e == State!Ev("PostToolUse")
  <2>1. events' = <<e>> /\ e \in Events /\ e.name = "PostToolUse"
    <3>1. e \in Events /\ e.name = "PostToolUse"
      BY DEF State!Ev, Events, Names, Busy
    <3>2. State!Sends(<<e>>)
      BY <1>3
    <3> HIDE DEF e
    <3>3. <<e>> \in Seq(Events)
      BY <3>1
    <3> QED BY <3>1, <3>2, <3>3, SentOff
  <2> HIDE DEF e
  <2>2. events' \in Seq(Events) /\ Len(events') = 1 /\ DOMAIN events' = {1} /\ events' # <<>>
        /\ events'[1].name = "PostToolUse" /\ cli' = "thinking"
    BY <1>3, <2>1
  <2>3. Order' /\ ~Overtaken'
    BY <2>2 DEF Order, Overtaken, State!Asking, Closing
  <2>4. Typed'
    BY <2>2 DEF StateIInv, Shape, Typed, Does
  <2> QED BY <1>1, <2>2, <2>3, <2>4 DEF StateIInv, Shape, Off, State!Shown, Paned, Engine,
             State!Asking, Waking
<1> QED BY <1>2, <1>3

-----------------------------------------------------------------------------
LEMMA StateInitially ==
  ASSUME Burst, State!Init
  PROVE  StateIInv
<1>1. Typed
  <2>1. <<>> \in Seq(Events) /\ <<>> \in Seq(CliTypes)
    OBVIOUS
  <2> QED BY <2>1 DEF State!Init, Typed, States, Does, State!Asking
<1>2. Order /\ Paned /\ Engine /\ Off /\ State!Shown
  BY DEF State!Init, Order, Paned, Engine, Off, State!Shown, Overtaken, State!Running, State!Asking
<1> QED BY <1>1, <1>2 DEF StateIInv, Shape

LEMMA StateInductive ==
  ASSUME Burst, StateIInv, [State!Next]_(State!vars)
  PROVE  StateIInv'
<1>1. /\ \A name \in Busy : \A type \in CliTypes \cup {"none"} : [name |-> name, type |-> type] \in Events
      /\ \A name \in Busy : State!Ev(name) \in Events /\ State!Ev(name).name = name
      /\ CliTypes \subseteq CliTypes \cup {"none"} /\ working \in Seq(CliTypes)
      /\ events \in Seq(Events)
  BY DEF Events, Names, State!Ev, StateIInv, Shape, Typed
<1>2. CASE State!ToolStarts
  <2> DEFINE evs == <<State!Ev("PreToolUse")>>
  <2>1. evs \in Seq(Events) /\ Len(evs) = 1 /\ evs[1].name = "PreToolUse"
    BY <1>1 DEF Busy
  <2>2. State!Running /\ cli' = "tool" /\ cli # "allowed" /\ events' = events \o evs
        /\ UNCHANGED <<agent, pill, recent, pushed, viewed, working>>
    BY <1>2 DEF State!ToolStarts, State!Sends, State!Daemon, State!Running
  <2> HIDE DEF evs
  <2>3. Len(evs) > 0 /\ \A i \in 1 .. Len(evs) : evs[i].name \in Busy
    BY <2>1 DEF Busy
  <2>4. cli' \in {"thinking", "tool"} /\ working' \in Seq(CliTypes)
    BY <1>1, <2>2
  <2> QED BY <2>1, <2>2, <2>3, <2>4, GoesOn
<1>3. CASE State!ToolEnds
  <2> DEFINE evs == <<State!Ev("PostToolUse")>>
  <2>1. evs \in Seq(Events) /\ Len(evs) = 1 /\ evs[1].name = "PostToolUse"
    BY <1>1 DEF Busy
  <2>2. State!Running /\ cli' = "thinking" /\ events' = events \o evs
        /\ UNCHANGED <<agent, pill, recent, pushed, viewed, working>>
    BY <1>3 DEF State!ToolEnds, State!Sends, State!Daemon, State!Running
  <2> HIDE DEF evs
  <2>3. Len(evs) > 0 /\ \A i \in 1 .. Len(evs) : evs[i].name \in Busy
    BY <2>1 DEF Busy
  <2>4. cli' \in {"thinking", "tool"} /\ working' \in Seq(CliTypes)
    BY <1>1, <2>2
  <2> QED BY <2>1, <2>2, <2>3, <2>4, GoesOn
<1>4. CASE \E type \in CliTypes : State!SubagentStarts(type)
  <2>1. PICK type \in CliTypes : State!SubagentStarts(type)
    BY <1>4
  <2> DEFINE evs == <<[name |-> "PreToolUse", type |-> type], [name |-> "SubagentStart", type |-> type]>>
  <2>2. evs \in Seq(Events) /\ Len(evs) = 2 /\ \A i \in 1 .. 2 : evs[i].name \in Busy
    <3>1. /\ [name |-> "PreToolUse", type |-> type] \in Events
          /\ [name |-> "SubagentStart", type |-> type] \in Events
      BY <1>1 DEF Busy
    <3> QED BY <3>1 DEF Busy
  <2>3. State!Running /\ cli' = "thinking" /\ cli # "allowed" /\ events' = events \o evs
        /\ UNCHANGED <<agent, pill, recent, pushed, viewed>>
    BY <2>1 DEF State!SubagentStarts, State!Sends, State!Daemon, State!Running
  <2>4. working' \in Seq(CliTypes)
    <3>1. working' = Append(working, type)
      BY <2>1 DEF State!SubagentStarts
    <3> QED BY <1>1, <3>1
  <2> HIDE DEF evs
  <2>5. Len(evs) > 0 /\ (\A i \in 1 .. Len(evs) : evs[i].name \in Busy) /\ cli' \in {"thinking", "tool"}
    BY <2>2, <2>3
  <2> QED BY <2>2, <2>3, <2>4, <2>5, GoesOn
<1>5. CASE \E i \in 1 .. 2 : State!SubagentEnds(i)
  <2>1. PICK i \in 1 .. 2 : State!SubagentEnds(i)
    BY <1>5
  <2>2. i \in 1 .. Len(working) /\ working[i] \in CliTypes
    <3>1. i \in DOMAIN working
      BY <2>1 DEF State!SubagentEnds
    <3> QED BY <1>1, <3>1
  <2> DEFINE type == working[i]
             evs == <<[name |-> "SubagentStop", type |-> type], [name |-> "PostToolUse", type |-> type]>>
  <2>3. State!Running /\ cli' = "thinking" /\ cli # "allowed" /\ events' = events \o evs
        /\ UNCHANGED <<agent, pill, recent, pushed, viewed>>
    BY <2>1 DEF State!SubagentEnds, State!Sends, State!Daemon, State!Running
  <2>4. working' \in Seq(CliTypes)
    <3>1. working' = State!RemoveAt(working, i)
      BY <2>1 DEF State!SubagentEnds
    <3> QED BY <1>1, <2>2, <3>1, Removed
  <2>5. evs \in Seq(Events) /\ Len(evs) = 2 /\ \A k \in 1 .. 2 : evs[k].name \in Busy
    <3>1. type \in CliTypes
      BY <2>2
    <3> HIDE DEF type
    <3>2. /\ [name |-> "SubagentStop", type |-> type] \in Events
          /\ [name |-> "PostToolUse", type |-> type] \in Events
      BY <1>1, <3>1 DEF Busy
    <3> QED BY <3>2 DEF Busy
  <2> HIDE DEF evs
  <2>6. Len(evs) > 0 /\ (\A k \in 1 .. Len(evs) : evs[k].name \in Busy) /\ cli' \in {"thinking", "tool"}
    BY <2>3, <2>5
  <2> QED BY <2>3, <2>4, <2>5, <2>6, GoesOn
<1>6. CASE State!AsksPermission
  <2>1. PICK c \in {"PermissionRequest", "ask_permission"} :
          /\ State!Sends(<<State!Ev(c)>>)
          /\ c = "PermissionRequest" => State!Provider # "antigravity"
          /\ c = "ask_permission" => State!Provider = "antigravity"
    BY <1>6 DEF State!AsksPermission
  <2>2. /\ cli \in {"thinking", "tool"} /\ cli' = "permission" /\ viewed' = FALSE /\ ~State!Headless
        /\ events' = events \o <<State!Ev(c)>> /\ UNCHANGED <<agent, working, pill, recent, pushed>>
    BY <1>6, <2>1 DEF State!AsksPermission, State!Sends, State!Daemon
  <2>3. c \in Closing /\ Closes(c, cli') /\ c # "Stop" /\ c # "ExitPlanMode" /\ cli' \in State!Asking
    BY <2>1, <2>2 DEF Closing, Closes, State!Asking
  <2> QED BY <2>1, <2>2, <2>3, Stops
<1>7. ASSUME NEW kind, NEW name, State!Asks(kind, name), <<kind, name>> \in
                {<<"question", "AskUserQuestion">>, <<"plan", "ExitPlanMode">>}
      PROVE  StateIInv'
  <2>1. /\ cli = "thinking" /\ cli' = kind /\ viewed' = FALSE /\ events' = events \o <<State!Ev(name)>>
        /\ State!Headless => State!SetRow(State!Blocks(kind))
        /\ ~State!Headless => UNCHANGED <<pill, recent, pushed>>
        /\ UNCHANGED <<agent, working>>
    BY <1>7 DEF State!Asks, State!Sends
  <2>2. /\ name \in Closing /\ Closes(name, cli') /\ name # "Stop"
        /\ name # "PermissionRequest" /\ name # "ask_permission"
        /\ cli' \in State!Asking /\ cli' # "rest" /\ cli' # "permission"
    BY <1>7, <2>1 DEF Closing, Closes, State!Asking
  <2>3. name = "ExitPlanMode" => State!Provider \in {"claude-code", "antigravity"}
    <3>1. SUFFICES ASSUME name = "ExitPlanMode", State!Provider \in {"grok", "opencode"} PROVE FALSE
      BY Which DEF StateIInv, Shape, Providers
    <3>2. name \in State!ParseHook[kind] /\ kind = "plan"
      BY <1>7, <3>1 DEF State!Asks
    <3>3. State!ParseHook = State!ParseGrok
      BY <3>1 DEF State!ParseHook, State!ParseOpenCode
    <3> QED BY <3>2, <3>3 DEF State!ParseGrok
  <2> QED BY <2>1, <2>2, <2>3, Stops
<1>8. CASE State!Finishes
  <2>1. /\ cli = "thinking" /\ cli' = "rest" /\ viewed' = FALSE
        /\ events' = events \o (IF State!Provider = "antigravity" THEN <<State!Ev("PostInvocation"), State!Ev("Stop")>>
                            ELSE <<State!Ev("Stop")>>)
        /\ State!Headless => State!SetRow(State!Shows("idle", "none"))
        /\ ~State!Headless => UNCHANGED <<pill, recent, pushed>>
        /\ UNCHANGED <<agent, working>>
    BY <1>8 DEF State!Finishes, State!Sends
  <2>2. "Stop" \in Closing /\ Closes("Stop", cli')
    BY <2>1 DEF Closing, Closes
  <2> QED BY <2>1, <2>2, Stops
<1>9. CASE State!AnswersInPane
  <2>1. /\ ~State!Headless /\ cli \in State!Asking /\ events = <<>> /\ viewed' = TRUE
        /\ UNCHANGED <<agent, working, pill, recent, pushed>>
        /\ cli' = IF cli = "permission" THEN "allowed" ELSE "thinking"
        /\ IF cli = "permission" THEN UNCHANGED events ELSE State!Sends(<<State!Ev("PostToolUse")>>)
    BY <1>9 DEF State!AnswersInPane, State!Daemon
  <2>2. /\ pill' \in [state : States, block : State!Asking \cup {"none"}, unread : BOOLEAN]
        /\ recent' \in BOOLEAN /\ pushed' \in BOOLEAN /\ pill'.state = "blocked"
    BY <2>1 DEF StateIInv, Shape, Typed, State!Shown
  <2> QED BY <2>1, <2>2, Answers
<1>10. CASE State!Responds
  <2>1. /\ cli \in State!Asking /\ events = <<>> /\ viewed' = TRUE /\ UNCHANGED <<agent, working>>
        /\ cli' = IF cli = "permission" THEN "allowed" ELSE "thinking"
        /\ IF cli = "permission" THEN UNCHANGED events ELSE State!Sends(<<State!Ev("PostToolUse")>>)
    BY <1>10 DEF State!Responds
  <2>2. /\ pill' \in [state : States, block : State!Asking \cup {"none"}, unread : BOOLEAN]
        /\ recent' \in BOOLEAN /\ pushed' \in BOOLEAN /\ pill'.state = "working"
    BY <1>10 DEF State!Responds, StateIInv, Shape, Typed, States
  <2> QED BY <2>1, <2>2, Answers
<1>11. CASE State!TwoSecondsPass \/ UNCHANGED State!vars
  <2>1. /\ UNCHANGED <<agent, cli, events, working, pill, pushed, viewed>>
        /\ recent' = recent \/ (events = <<>> /\ recent' = FALSE)
    BY <1>11 DEF State!TwoSecondsPass, State!vars
  <2>2. State!Provider' = State!Provider /\ State!Headless' = State!Headless /\ State!Running' = State!Running
        /\ Overtaken' = Overtaken /\ Starting' = Starting /\ Order' = Order
    BY <2>1 DEF State!Provider, State!Headless, State!Running, Overtaken, Starting, Order
  <2>3. Overtaken => events # <<>>
    BY DEF Overtaken
  <2>4. Paned'
    BY <2>1, <2>2, <2>3 DEF StateIInv, Shape, Paned, Ahead
  <2> QED BY <2>1, <2>2, <2>4 DEF StateIInv, Shape, Typed, Engine, Off, State!Shown
<1>12. CASE State!MarkRead
  <2>1. /\ UNCHANGED <<agent, cli, events, working, recent, pushed>> /\ viewed' = TRUE /\ events = <<>>
        /\ pill' \in [state : States, block : State!Asking \cup {"none"}, unread : BOOLEAN]
        /\ pill'.state = pill.state /\ pill'.block = pill.block
    BY <1>12 DEF State!MarkRead, StateIInv, Shape, Typed
  <2>2. State!Provider' = State!Provider /\ State!Headless' = State!Headless /\ State!Running' = State!Running /\ ~Overtaken'
        /\ Starting' = Starting
    BY <2>1 DEF State!Provider, State!Headless, State!Running, Overtaken, Starting
  <2>3. Order'
    BY <2>1, <2>2 DEF StateIInv, Shape, Order
  <2>4. Paned' /\ Engine'
    BY <2>1, <2>2 DEF StateIInv, Shape, Paned, Engine
  <2> QED BY <2>1, <2>3, <2>4 DEF StateIInv, Shape, Typed, Off, State!Shown
<1>13. CASE \E i \in 1 .. 2 : State!Deliver(i)
  BY <1>13, Arrives, Overtakes
<1> QED BY <1>2, <1>3, <1>4, <1>5, <1>6, <1>7, <1>8, <1>9, <1>10, <1>11, <1>12, <1>13,
           Starts, Prompting, Compacting DEF State!Next

\* Once the events of a burst are in, in order or with an end that overtook a
\* tool (applyHookStateTransition), a session that waits for the user is shown
\* so, pushed and unread, and one at rest does not look busy: for any number of
\* prompts, subagent types and events on the way.
THEOREM Telling ==
  ASSUME Burst
  PROVE  State!Spec => []State!Shown
<1>1. State!Init => StateIInv
  BY StateInitially
<1>2. StateIInv /\ [State!Next]_(State!vars) => StateIInv'
  BY StateInductive
<1>3. StateIInv => State!Shown
  BY DEF StateIInv
<1> QED BY <1>1, <1>2, <1>3, PTL DEF State!Spec

-----------------------------------------------------------------------------
(***************************************************************************)
(* The running subagents that a session lists.                             *)
(***************************************************************************)
\* How often e is in s, from its j-th place on.
Places(s, e, j) == {k \in 1 .. Len(s) : k >= j /\ s[k] = e}
Tally(s, e, j) == Cardinality(Places(s, e, j))
One(b) == IF b THEN 1 ELSE 0

LEMMA Counted ==
  ASSUME NEW S, NEW s \in Seq(S), NEW e, NEW j \in Nat
  PROVE  /\ IsFiniteSet(Places(s, e, j)) /\ Tally(s, e, j) \in Nat
         /\ Tally(s, e, j) = 0 <=> \A k \in 1 .. Len(s) : k >= j => s[k] # e
         /\ j > Len(s) => Tally(s, e, j) = 0
<1>1. IsFiniteSet(1 .. Len(s))
  BY FS_Interval
<1>2. Places(s, e, j) \in SUBSET (1 .. Len(s))
  BY DEF Places
<1>3. IsFiniteSet(Places(s, e, j))
  BY <1>1, <1>2, FS_Subset
<1>4. Tally(s, e, j) \in Nat
  BY <1>3, FS_CardinalityType DEF Tally
<1>5. Tally(s, e, j) = 0 <=> Places(s, e, j) = {}
  BY <1>3, FS_EmptySet DEF Tally
<1>6. Places(s, e, j) = {} <=> \A k \in 1 .. Len(s) : k >= j => s[k] # e
  BY DEF Places
<1>7. j > Len(s) => \A k \in 1 .. Len(s) : k >= j => s[k] # e
  OBVIOUS
<1> QED BY <1>3, <1>4, <1>5, <1>6, <1>7

LEMMA TallyAppend ==
  ASSUME NEW S, NEW s \in Seq(S), NEW x \in S, NEW e, NEW j \in Nat
  PROVE  Tally(Append(s, x), e, j) = Tally(s, e, j) + One(x = e /\ j <= Len(s) + 1)
<1> DEFINE w == Append(s, x)
           n == Len(s) + 1
<1>1. /\ Len(w) = n /\ \A k \in 1 .. Len(s) : w[k] = s[k]
      /\ w[n] = x /\ Len(s) \in Nat
  OBVIOUS
<1> HIDE DEF w
<1>2. IsFiniteSet(Places(s, e, j)) /\ Tally(s, e, j) \in Nat
  BY Counted
<1>5. n \notin Places(s, e, j)
  BY <1>1 DEF Places
<1>3. CASE x = e /\ j <= n
  <2>1. Places(w, e, j) = Places(s, e, j) \cup {n}
    BY <1>1, <1>3 DEF Places
  <2>2. Cardinality(Places(w, e, j)) = Cardinality(Places(s, e, j)) + 1
    BY <1>5, <1>2, <2>1, FS_AddElement
  <2> QED BY <1>3, <2>2 DEF Tally, One, w
<1>4. CASE ~(x = e /\ j <= n)
  <2>1. Places(w, e, j) = Places(s, e, j)
    BY <1>1, <1>4 DEF Places
  <2>2. One(x = e /\ j <= n) = 0
    BY <1>4 DEF One
  <2>3. Tally(w, e, j) = Tally(s, e, j)
    BY <2>1 DEF Tally
  <2> QED BY <1>2, <2>2, <2>3 DEF w
<1> QED BY <1>3, <1>4

LEMMA TallyUpdate ==
  ASSUME NEW S, NEW s \in Seq(S), NEW i \in 1 .. Len(s), NEW x \in S, NEW e
  PROVE  /\ [s EXCEPT ![i] = x] \in Seq(S)
         /\ Tally([s EXCEPT ![i] = x], e, 1) = Tally(s, e, 1) - One(s[i] = e) + One(x = e)
<1> DEFINE w == [s EXCEPT ![i] = x]
           rest == {k \in 1 .. Len(s) : k >= 1 /\ s[k] = e /\ k # i}
<1>1. w \in Seq(S) /\ Len(w) = Len(s) /\ w[i] = x /\ \A k \in 1 .. Len(s) : k # i => w[k] = s[k]
  OBVIOUS
<1> HIDE DEF w
<1>2. IsFiniteSet(rest) /\ Cardinality(rest) \in Nat /\ i \notin rest
  <2>1. rest \subseteq 1 .. Len(s) /\ IsFiniteSet(1 .. Len(s))
    BY FS_Interval
  <2>2. IsFiniteSet(rest)
    BY <2>1, FS_Subset
  <2> QED BY <2>2, FS_CardinalityType
<1>3. Tally(s, e, 1) = Cardinality(rest) + One(s[i] = e)
  <2>1. CASE s[i] = e
    <3>1. Places(s, e, 1) = rest \cup {i}
      BY <2>1 DEF Places
    <3> QED BY <1>2, <2>1, <3>1, FS_AddElement DEF Tally, One
  <2>2. CASE s[i] # e
    <3>1. Places(s, e, 1) = rest /\ One(s[i] = e) = 0
      BY <2>2 DEF Places, One
    <3>2. Tally(s, e, 1) = Cardinality(rest)
      BY <3>1 DEF Tally
    <3> QED BY <1>2, <3>1, <3>2
  <2> QED BY <2>1, <2>2
<1>4. Tally(w, e, 1) = Cardinality(rest) + One(x = e)
  <2>1. CASE x = e
    <3>1. Places(w, e, 1) = rest \cup {i}
      BY <1>1, <2>1 DEF Places
    <3> QED BY <1>2, <2>1, <3>1, FS_AddElement DEF Tally, One
  <2>2. CASE x # e
    <3>1. Places(w, e, 1) = rest /\ One(x = e) = 0
      BY <1>1, <2>2 DEF Places, One
    <3>2. Tally(w, e, 1) = Cardinality(rest)
      BY <3>1 DEF Tally
    <3> QED BY <1>2, <3>1, <3>2
  <2> QED BY <2>1, <2>2
<1>5. One(s[i] = e) \in Nat /\ One(x = e) \in Nat
  BY DEF One
<1>6. Tally(w, e, 1) = Tally(s, e, 1) - One(s[i] = e) + One(x = e)
  BY <1>2, <1>3, <1>4, <1>5
<1> QED BY <1>1, <1>6 DEF w

LEMMA TallyRemove ==
  ASSUME NEW S, NEW s \in Seq(S), NEW i \in 1 .. Len(s), NEW e, NEW j \in Nat \ {0}
  PROVE  /\ j <= i => Tally(State!RemoveAt(s, i), e, j) = Tally(s, e, j) - One(s[i] = e)
         /\ j >= i => Tally(State!RemoveAt(s, i), e, j) = Tally(s, e, j + 1)
<1> DEFINE w == State!RemoveAt(s, i)
           from == IF j <= i THEN j ELSE j + 1
           rest == {k \in 1 .. Len(s) : k >= from /\ s[k] = e /\ k # i}
<1>1. /\ w \in Seq(S) /\ Len(w) = Len(s) - 1 /\ Len(s) \in Nat
      /\ \A k \in 1 .. Len(s) - 1 : w[k] = IF k < i THEN s[k] ELSE s[k + 1]
  BY Removed
<1> HIDE DEF w
<1>2. IsFiniteSet(rest) /\ Cardinality(rest) \in Nat /\ i \notin rest
  <2>1. rest \subseteq 1 .. Len(s) /\ IsFiniteSet(1 .. Len(s))
    BY FS_Interval
  <2>2. IsFiniteSet(rest)
    BY <2>1, FS_Subset
  <2> QED BY <2>2, FS_CardinalityType
<1>3. Tally(w, e, j) = Cardinality(rest)
  <2> DEFINE f == [k \in Places(w, e, j) |-> IF k < i THEN k ELSE k + 1]
  <2>1. \A k \in Places(w, e, j) : f[k] \in rest
    BY <1>1 DEF Places
  <2>2. f \in [Places(w, e, j) -> rest]
    BY <2>1
  <2>3. \A a, b \in Places(w, e, j) : f[a] = f[b] => a = b
    BY DEF Places
  <2>4. ASSUME NEW t \in rest PROVE \E a \in Places(w, e, j) : f[a] = t
    <3>1. CASE t < i
      <4>1. t \in Places(w, e, j)
        BY <1>1, <3>1 DEF Places
      <4> QED BY <3>1, <4>1
    <3>2. CASE t > i
      <4>1. t - 1 \in Places(w, e, j) /\ ~(t - 1 < i) /\ t - 1 + 1 = t
        BY <1>1, <3>2 DEF Places
      <4> QED BY <4>1
    <3> QED BY <3>1, <3>2
  <2> HIDE DEF f
  <2>5. f \in Bijection(Places(w, e, j), rest)
    BY <2>2, <2>3, <2>4 DEF Bijection, Injection, Surjection, IsInjective
  <2>6. ExistsBijection(Places(w, e, j), rest)
    BY <2>5 DEF ExistsBijection
  <2>7. IsFiniteSet(Places(w, e, j))
    BY <1>1, Counted
  <2> QED BY <2>6, <2>7, FS_Bijection DEF Tally
<1>4. ASSUME j <= i PROVE Tally(w, e, j) = Tally(s, e, j) - One(s[i] = e)
  <2>1. CASE s[i] = e
    <3>1. Places(s, e, j) = rest \cup {i}
      BY <1>4, <2>1 DEF Places
    <3>2. Cardinality(Places(s, e, j)) = Cardinality(rest) + 1
      BY <1>2, <3>1, FS_AddElement
    <3> QED BY <1>2, <1>3, <2>1, <3>2 DEF Tally, One
  <2>2. CASE s[i] # e
    <3>1. Places(s, e, j) = rest /\ One(s[i] = e) = 0
      BY <1>4, <2>2 DEF Places, One
    <3>2. Tally(s, e, j) = Cardinality(rest)
      BY <3>1 DEF Tally
    <3> QED BY <1>2, <1>3, <3>1, <3>2
  <2> QED BY <2>1, <2>2
<1>5. ASSUME j >= i PROVE Tally(w, e, j) = Tally(s, e, j + 1)
  <2>1. Places(s, e, j + 1) = rest
    BY <1>5 DEF Places
  <2> QED BY <1>3, <2>1 DEF Tally
<1> QED BY <1>4, <1>5 DEF w

LEMMA Least ==
  ASSUME NEW T, T \subseteq Nat, T # {}
  PROVE  \E x \in T : \A y \in T : x <= y
<1> DEFINE R == OpToRel(<, Nat)
<1>1. IsWellFoundedOn(R, Nat)
  BY NatLessThanWellFounded
<1>2. R = {ss \in Nat \X Nat : ss[1] < ss[2]}
  BY DEF OpToRel
<1> HIDE DEF R
<1>3. \E x \in T : \A y \in T : ~ (<<y, x>> \in R)
  BY <1>1, WFMin
<1>4. ASSUME NEW x \in Nat, NEW y \in Nat, ~(<<y, x>> \in R)
      PROVE  x <= y
  <2>1. ~(y < x)
    <3>1. <<y, x>> \in Nat \X Nat /\ <<y, x>>[1] = y /\ <<y, x>>[2] = x
      OBVIOUS
    <3> QED BY <1>2, <1>4, <3>1
  <2> QED BY <2>1
<1> QED BY <1>3, <1>4
LEMMA TallyUnsaid ==
  ASSUME NEW S, NEW s \in Seq(S), NEW u \in Seq(S), NEW e, NEW j \in Nat,
         \A i \in 1 .. Len(u) : u[i] # e
  PROVE  Tally(s \o u, e, j) = Tally(s, e, j)
<1> DEFINE w == s \o u
<1>1. /\ Len(s) \in Nat /\ Len(u) \in Nat /\ Len(w) = Len(s) + Len(u)
      /\ \A i \in 1 .. Len(s) : w[i] = s[i]
      /\ \A i \in 1 .. Len(u) : w[Len(s) + i] = u[i]
  BY Concat
<1> HIDE DEF w
<1>2. ASSUME NEW k \in 1 .. Len(w), k \notin 1 .. Len(s) PROVE w[k] # e
  <2>1. k - Len(s) \in 1 .. Len(u) /\ Len(s) + (k - Len(s)) = k
    BY <1>1, <1>2
  <2> QED BY <1>1, <2>1
<1>3. Places(w, e, j) = Places(s, e, j)
  BY <1>1, <1>2 DEF Places
<1> QED BY <1>3 DEF Tally, w

LEMMA TallyPair ==
  ASSUME NEW S, NEW s \in Seq(S), NEW a \in S, NEW b \in S, NEW e, NEW j \in Nat
  PROVE  Tally(s \o <<a, b>>, e, j) = Tally(s, e, j) + One(a = e /\ j <= Len(s) + 1)
                                        + One(b = e /\ j <= Len(s) + 2)
<1> DEFINE w == Append(s, a)
<1>1. w \in Seq(S) /\ Len(w) + 1 = Len(s) + 2
  OBVIOUS
<1>2. s \o <<a, b>> = Append(w, b)
  OBVIOUS
<1>3. Tally(w, e, j) = Tally(s, e, j) + One(a = e /\ j <= Len(s) + 1)
  BY TallyAppend
<1> HIDE DEF w
<1>4. Tally(Append(w, b), e, j) = Tally(w, e, j) + One(b = e /\ j <= Len(w) + 1)
  BY <1>1, TallyAppend
<1> QED BY <1>1, <1>2, <1>3, <1>4

-----------------------------------------------------------------------------
(***************************************************************************)
(* The list of running subagents.                                          *)
(***************************************************************************)
Entries == [type : CliTypes, synthetic : BOOLEAN]
Started(t) == [name |-> "SubagentStart", type |-> t]
Ended(t) == [name |-> "SubagentStop", type |-> t]
Hired(t) == [type |-> t, synthetic |-> FALSE]
Waits(t) == [type |-> t, synthetic |-> TRUE]

\* The subagents of a type that run once all events before the j-th are in.
Level(t, j) == Tally(working, t, 1) + Tally(events, Ended(t), j) - Tally(events, Started(t), j)

\* A tool's start is followed by that of its subagent.
Paired ==
  \A i \in DOMAIN events :
    /\ events[i].name = "PreToolUse" /\ events[i].type # "none" =>
         i < Len(events) /\ events[i + 1] = Started(events[i].type)
    /\ events[i].name \in {"SubagentStart", "SubagentStop"} => events[i].type \in CliTypes
Levels == \A t \in CliTypes : \A j \in Nat \ {0} : Level(t, j) >= 0
\* One entry waits for its subagent at most, which is the next to be heard of.
Waiting(list) ==
  /\ \A i \in DOMAIN list : list[i].synthetic => events # <<>> /\ events[1] = Started(list[i].type)
  /\ \A i, k \in DOMAIN list : list[i].synthetic /\ list[k].synthetic => i = k
Covered(list) == \A t \in CliTypes : Tally(list, Hired(t), 1) <= Level(t, 1)
Ledger ==
  /\ events \in Seq(Events) /\ working \in Seq(CliTypes) /\ listed \in Seq(Entries)
  /\ Paired /\ Levels /\ Waiting(listed) /\ Covered(listed)

LEMMA LevelInt ==
  ASSUME Ledger, NEW t \in CliTypes, NEW j \in Nat \ {0}
  PROVE  /\ Tally(working, t, 1) \in Nat /\ Tally(events, Ended(t), j) \in Nat
         /\ Tally(events, Started(t), j) \in Nat /\ Level(t, j) \in Nat
         /\ Tally(listed, Hired(t), 1) \in Nat
<1>1. /\ Tally(working, t, 1) \in Nat /\ Tally(events, Ended(t), j) \in Nat
      /\ Tally(events, Started(t), j) \in Nat /\ Tally(listed, Hired(t), 1) \in Nat
  BY Counted DEF Ledger
<1> QED BY <1>1 DEF Ledger, Levels, Level

\* What the CLI sends beside the starts and ends of subagents.
Plain == {evs \in Seq(Events) : \A i \in 1 .. Len(evs) :
            /\ evs[i].name \notin {"SubagentStart", "SubagentStop"}
            /\ evs[i].name = "PreToolUse" => evs[i].type = "none"}

LEMMA Plainly ==
  ASSUME NEW a \in Names \ {"SubagentStart", "SubagentStop"},
         NEW b \in Names \ {"SubagentStart", "SubagentStop"}
  PROVE  <<State!Ev(a)>> \in Plain /\ <<State!Ev(a), State!Ev(b)>> \in Plain
<1>1. State!Ev(a) \in Events /\ State!Ev(a).name = a /\ State!Ev(a).type = "none"
  BY DEF State!Ev, Events
<1>2. State!Ev(b) \in Events /\ State!Ev(b).name = b /\ State!Ev(b).type = "none"
  BY DEF State!Ev, Events
<1>3. <<State!Ev(a)>> \in Seq(Events) /\ Len(<<State!Ev(a)>>) = 1 /\ <<State!Ev(a)>>[1] = State!Ev(a)
  BY <1>1
<1>4. /\ <<State!Ev(a), State!Ev(b)>> \in Seq(Events) /\ Len(<<State!Ev(a), State!Ev(b)>>) = 2
      /\ <<State!Ev(a), State!Ev(b)>>[1] = State!Ev(a) /\ <<State!Ev(a), State!Ev(b)>>[2] = State!Ev(b)
  BY <1>1, <1>2
<1>5. <<State!Ev(a)>> \in Plain
  BY <1>1, <1>3 DEF Plain
<1>6. <<State!Ev(a), State!Ev(b)>> \in Plain
  BY <1>1, <1>2, <1>4 DEF Plain
<1> QED BY <1>5, <1>6

LEMMA Tells ==
  ASSUME Ledger, UNCHANGED <<working, listed>>,
         UNCHANGED events \/ \E evs \in Plain : events' = events \o evs
  PROVE  Ledger'
<1>1. CASE UNCHANGED events
  BY <1>1 DEF Ledger, Paired, Levels, Waiting, Covered, Level
<1>2. CASE \E evs \in Plain : events' = events \o evs
  <2>1. PICK evs \in Plain : events' = events \o evs
    BY <1>2
  <2>2. evs \in Seq(Events)
    BY DEF Plain
  <2>3. /\ events' \in Seq(Events) /\ Len(events) \in Nat /\ Len(evs) \in Nat
        /\ Len(events') = Len(events) + Len(evs) /\ DOMAIN events' = 1 .. Len(events) + Len(evs)
        /\ DOMAIN events = 1 .. Len(events)
        /\ \A i \in 1 .. Len(events) : events'[i] = events[i]
        /\ \A i \in 1 .. Len(evs) : events'[Len(events) + i] = evs[i]
        /\ events = <<>> <=> Len(events) = 0
    BY <2>1, <2>2, Concat DEF Ledger
  <2>4. ASSUME NEW t \in CliTypes, NEW j \in Nat \ {0} PROVE Level(t, j)' = Level(t, j)
    <3>1. \A i \in 1 .. Len(evs) : evs[i] # Ended(t) /\ evs[i] # Started(t)
      BY DEF Plain, Ended, Started
    <3>2. events \in Seq(Events) /\ j \in Nat
      BY DEF Ledger
    <3>3. Tally(events \o evs, Ended(t), j) = Tally(events, Ended(t), j)
      BY <2>2, <3>1, <3>2, TallyUnsaid
    <3>4. Tally(events \o evs, Started(t), j) = Tally(events, Started(t), j)
      BY <2>2, <3>1, <3>2, TallyUnsaid
    <3> QED BY <2>1, <3>3, <3>4 DEF Level, Tally, Places
  <2>5. Paired'
    <3> SUFFICES ASSUME NEW i \in DOMAIN events'
                 PROVE  /\ events'[i].name = "PreToolUse" /\ events'[i].type # "none" =>
                             i < Len(events') /\ events'[i + 1] = Started(events'[i].type)
                        /\ events'[i].name \in {"SubagentStart", "SubagentStop"} =>
                             events'[i].type \in CliTypes
      BY DEF Paired, Started
    <3>1. CASE i \in 1 .. Len(events)
      BY <2>3, <3>1 DEF Ledger, Paired
    <3>2. CASE i \notin 1 .. Len(events)
      <4>1. i - Len(events) \in 1 .. Len(evs) /\ Len(events) + (i - Len(events)) = i
        BY <2>3, <3>2
      <4>2. events'[i] = evs[i - Len(events)]
        BY <2>3, <4>1
      <4> QED BY <4>1, <4>2 DEF Plain
    <3> QED BY <3>1, <3>2
  <2>6. Waiting(listed)'
    BY <2>3 DEF Ledger, Waiting
  <2>7. Levels' /\ Covered(listed)'
    BY <2>4 DEF Ledger, Levels, Covered
  <2> QED BY <2>3, <2>5, <2>6, <2>7 DEF Ledger
<1> QED BY <1>1, <1>2

LEMMA Spawned ==
  ASSUME Ledger, NEW type \in CliTypes, State!SubagentStarts(type)
  PROVE  Ledger'
<1> DEFINE a == [name |-> "PreToolUse", type |-> type]
           b == Started(type)
<1>1. events' = events \o <<a, b>> /\ working' = Append(working, type) /\ listed' = listed
  BY DEF State!SubagentStarts, State!Sends, State!Daemon, Started
<1>2. /\ a \in Events /\ b \in Events /\ a.name = "PreToolUse" /\ a.type = type
      /\ b.name = "SubagentStart" /\ b.type = type
  <2>1. type \in CliTypes \cup {"none"} /\ "PreToolUse" \in Names /\ "SubagentStart" \in Names
    BY DEF Names, Busy
  <2>2. a \in Events /\ b \in Events
    BY <2>1 DEF Events, Started
  <2> QED BY <2>2 DEF Started
<1> HIDE DEF a, b
<1>3. <<a, b>> \in Seq(Events) /\ Len(<<a, b>>) = 2 /\ <<a, b>>[1] = a /\ <<a, b>>[2] = b
  BY <1>2
<1>4. /\ events' \in Seq(Events) /\ Len(events) \in Nat /\ DOMAIN events = 1 .. Len(events)
      /\ Len(events') = Len(events) + 2 /\ DOMAIN events' = 1 .. Len(events) + 2
      /\ \A i \in 1 .. Len(events) : events'[i] = events[i]
      /\ events'[Len(events) + 1] = a /\ events'[Len(events) + 2] = b
      /\ events = <<>> <=> Len(events) = 0
  BY <1>1, <1>3, Concat DEF Ledger
<1>5. ASSUME NEW t \in CliTypes, NEW j \in Nat \ {0}
      PROVE  Level(t, j)' >= Level(t, j) /\ (j = 1 => Level(t, j)' = Level(t, j))
  <2>1. Tally(working, t, 1)' = Tally(working, t, 1) + One(type = t)
    <3>1. working \in Seq(CliTypes) /\ 1 <= Len(working) + 1
      BY DEF Ledger
    <3>2. Tally(Append(working, type), t, 1) =
            Tally(working, t, 1) + One(type = t /\ 1 <= Len(working) + 1)
      BY <3>1, TallyAppend
    <3> QED BY <1>1, <3>1, <3>2 DEF Tally, Places
  <2>2. events \in Seq(Events) /\ j \in Nat
    BY DEF Ledger
  <2>3. Tally(events, Ended(t), j)' = Tally(events, Ended(t), j)
    <3>1. \A i \in 1 .. Len(<<a, b>>) : <<a, b>>[i] # Ended(t)
      BY <1>2, <1>3 DEF Ended
    <3>2. Tally(events \o <<a, b>>, Ended(t), j) = Tally(events, Ended(t), j)
      BY <1>3, <2>2, <3>1, TallyUnsaid
    <3> QED BY <1>1, <3>2 DEF Tally, Places, Ended
  <2>4. Tally(events, Started(t), j)' =
          Tally(events, Started(t), j) + One(type = t /\ j <= Len(events) + 2)
    <3>1. a # Started(t) /\ (b = Started(t) <=> type = t)
      BY <1>2 DEF Started, b
    <3>2. Tally(events \o <<a, b>>, Started(t), j) =
            Tally(events, Started(t), j) + One(a = Started(t) /\ j <= Len(events) + 1)
              + One(b = Started(t) /\ j <= Len(events) + 2)
      BY <1>2, <2>2, TallyPair
    <3>3. One(a = Started(t) /\ j <= Len(events) + 1) = 0 /\ Tally(events, Started(t), j) \in Nat
      BY <3>1, LevelInt DEF One
    <3>4. Tally(events \o <<a, b>>, Started(t), j) =
            Tally(events, Started(t), j) + One(type = t /\ j <= Len(events) + 2)
      BY <3>1, <3>2, <3>3 DEF One
    <3> QED BY <1>1, <3>4 DEF Tally, Places, Started
  <2>5. /\ Tally(working, t, 1) \in Nat /\ Tally(events, Ended(t), j) \in Nat
        /\ Tally(events, Started(t), j) \in Nat
    BY LevelInt
  <2>6. /\ One(type = t) \in Nat /\ One(type = t /\ j <= Len(events) + 2) \in Nat
        /\ One(type = t /\ j <= Len(events) + 2) <= One(type = t)
        /\ j = 1 => One(type = t /\ j <= Len(events) + 2) = One(type = t)
    BY <1>4 DEF One
  <2> QED BY <2>1, <2>3, <2>4, <2>5, <2>6 DEF Level
<1>6. Levels' /\ Covered(listed)'
  <2>1. ASSUME NEW t \in CliTypes, NEW j \in Nat \ {0} PROVE Level(t, j)' >= 0
    <3>1. Level(t, j)' \in Int /\ Level(t, j) \in Nat
      <4>1. working' \in Seq(CliTypes) /\ events' \in Seq(Events)
        BY <1>1, <1>4 DEF Ledger
      <4>2. Tally(working, t, 1)' \in Nat /\ Tally(events, Ended(t), j)' \in Nat
            /\ Tally(events, Started(t), j)' \in Nat
        BY <4>1, Counted
      <4> QED BY <4>2, LevelInt DEF Level
    <3> QED BY <1>5, <3>1
  <2> QED BY <1>1, <1>5, <2>1 DEF Ledger, Levels, Covered
<1>7. Paired'
  <2> SUFFICES ASSUME NEW i \in DOMAIN events'
               PROVE  /\ events'[i].name = "PreToolUse" /\ events'[i].type # "none" =>
                           i < Len(events') /\ events'[i + 1] = Started(events'[i].type)
                      /\ events'[i].name \in {"SubagentStart", "SubagentStop"} =>
                           events'[i].type \in CliTypes
    BY DEF Paired, Started
  <2>1. CASE i \in 1 .. Len(events)
    BY <1>4, <2>1 DEF Ledger, Paired
  <2>2. CASE i = Len(events) + 1
    BY <1>2, <1>4, <2>2 DEF b
  <2>3. CASE i = Len(events) + 2
    BY <1>2, <1>4, <2>3
  <2> QED BY <1>4, <2>1, <2>2, <2>3
<1>8. Waiting(listed)'
  BY <1>1, <1>4 DEF Ledger, Waiting, Started
<1>9. working' \in Seq(CliTypes)
  BY <1>1 DEF Ledger
<1> QED BY <1>1, <1>4, <1>6, <1>7, <1>8, <1>9 DEF Ledger

LEMMA Over ==
  ASSUME Ledger, NEW i \in DOMAIN working, State!SubagentEnds(i)
  PROVE  Ledger'
<1> DEFINE type == working[i]
           a == Ended(type)
           b == [name |-> "PostToolUse", type |-> type]
<1>1. events' = events \o <<a, b>> /\ working' = State!RemoveAt(working, i) /\ listed' = listed
  BY DEF State!SubagentEnds, State!Sends, State!Daemon, Ended
<1>2. working \in Seq(CliTypes) /\ i \in 1 .. Len(working) /\ type \in CliTypes /\ events \in Seq(Events)
  BY DEF Ledger
<1>3. /\ a \in Events /\ b \in Events /\ b.name = "PostToolUse" /\ b.type = type
      /\ a.name = "SubagentStop" /\ a.type = type
  <2>1. type \in CliTypes \cup {"none"} /\ "PostToolUse" \in Names /\ "SubagentStop" \in Names
    BY <1>2 DEF Names, Busy
  <2> HIDE DEF type
  <2>2. a \in Events /\ b \in Events
    BY <2>1 DEF Events, Ended
  <2> QED BY <2>2 DEF Ended
<1> HIDE DEF a, b
<1>4. <<a, b>> \in Seq(Events) /\ Len(<<a, b>>) = 2 /\ <<a, b>>[1] = a /\ <<a, b>>[2] = b
  BY <1>3
<1>5. /\ events' \in Seq(Events) /\ Len(events) \in Nat /\ DOMAIN events = 1 .. Len(events)
      /\ Len(events') = Len(events) + 2 /\ DOMAIN events' = 1 .. Len(events) + 2
      /\ \A k \in 1 .. Len(events) : events'[k] = events[k]
      /\ events'[Len(events) + 1] = a /\ events'[Len(events) + 2] = b
      /\ events = <<>> <=> Len(events) = 0
  BY <1>1, <1>2, <1>4, Concat
<1>6. ASSUME NEW t \in CliTypes, NEW j \in Nat \ {0}
      PROVE  Level(t, j)' >= 0 /\ (j = 1 => Level(t, j)' = Level(t, j))
  <2>1. Tally(working, t, 1)' = Tally(working, t, 1) - One(type = t)
    <3>1. Tally(State!RemoveAt(working, i), t, 1) = Tally(working, t, 1) - One(type = t)
      BY <1>2, TallyRemove
    <3> QED BY <1>1, <3>1 DEF Tally, Places
  <2>2. type = t => Tally(working, t, 1) # 0
    <3>1. i >= 1 /\ (Tally(working, t, 1) = 0 => \A k \in 1 .. Len(working) : k >= 1 => working[k] # t)
      BY <1>2, Counted
    <3> QED BY <1>2, <3>1
  <2>3. Tally(events, Started(t), j)' = Tally(events, Started(t), j)
    <3>1. \A k \in 1 .. Len(<<a, b>>) : <<a, b>>[k] # Started(t)
      BY <1>3, <1>4 DEF Started
    <3>2. Tally(events \o <<a, b>>, Started(t), j) = Tally(events, Started(t), j)
      BY <1>2, <1>4, <3>1, TallyUnsaid
    <3> QED BY <1>1, <3>2 DEF Tally, Places, Started
  <2>4. Tally(events, Ended(t), j)' =
          Tally(events, Ended(t), j) + One(type = t /\ j <= Len(events) + 1)
    <3>1. b # Ended(t) /\ (a = Ended(t) <=> type = t)
      BY <1>3 DEF Ended, a
    <3>2. Tally(events \o <<a, b>>, Ended(t), j) =
            Tally(events, Ended(t), j) + One(a = Ended(t) /\ j <= Len(events) + 1)
              + One(b = Ended(t) /\ j <= Len(events) + 2)
      BY <1>2, <1>3, TallyPair
    <3>3. One(b = Ended(t) /\ j <= Len(events) + 2) = 0 /\ Tally(events, Ended(t), j) \in Nat
      BY <3>1, LevelInt DEF One
    <3>4. Tally(events \o <<a, b>>, Ended(t), j) =
            Tally(events, Ended(t), j) + One(type = t /\ j <= Len(events) + 1)
      BY <3>1, <3>2, <3>3 DEF One
    <3> QED BY <1>1, <3>4 DEF Tally, Places, Ended
  <2>5. CASE type # t \/ j <= Len(events) + 1
    <3>1. One(type = t /\ j <= Len(events) + 1) = One(type = t) /\ One(type = t) \in Nat
      BY <2>5 DEF One
    <3>2. /\ Tally(working, t, 1) \in Nat /\ Tally(events, Ended(t), j) \in Nat
          /\ Tally(events, Started(t), j) \in Nat /\ Level(t, j) \in Nat
      BY LevelInt
    <3>3. Level(t, j)' = Level(t, j)
      BY <2>1, <2>3, <2>4, <3>1, <3>2 DEF Level
    <3> QED BY <3>2, <3>3
  <2>6. CASE type = t /\ j > Len(events) + 1
    <3>1. Tally(events, Ended(t), j) = 0 /\ Tally(events, Started(t), j) = 0
      BY <1>2, <1>5, <2>6, Counted
    <3>2. One(type = t /\ j <= Len(events) + 1) = 0 /\ One(type = t) = 1 /\ j # 1
      BY <1>5, <2>6 DEF One
    <3>3. Tally(working, t, 1) \in Nat /\ Tally(working, t, 1) # 0
      BY <2>2, <2>6, LevelInt
    <3>4. Level(t, j)' = Tally(working, t, 1) - 1 + 0 - 0
      BY <2>1, <2>3, <2>4, <3>1, <3>2, <3>3 DEF Level
    <3> QED BY <3>2, <3>3, <3>4
  <2> QED BY <1>5, <2>5, <2>6
<1>7. Levels' /\ Covered(listed)'
  BY <1>1, <1>6 DEF Ledger, Levels, Covered
<1>8. Paired'
  <2> SUFFICES ASSUME NEW k \in DOMAIN events'
               PROVE  /\ events'[k].name = "PreToolUse" /\ events'[k].type # "none" =>
                           k < Len(events') /\ events'[k + 1] = Started(events'[k].type)
                      /\ events'[k].name \in {"SubagentStart", "SubagentStop"} =>
                           events'[k].type \in CliTypes
    BY DEF Paired, Started
  <2>1. CASE k \in 1 .. Len(events)
    BY <1>5, <2>1 DEF Ledger, Paired
  <2>2. CASE k = Len(events) + 1
    BY <1>2, <1>3, <1>5, <2>2
  <2>3. CASE k = Len(events) + 2
    BY <1>2, <1>3, <1>5, <2>3
  <2> QED BY <1>5, <2>1, <2>2, <2>3
<1>9. Waiting(listed)'
  BY <1>1, <1>5 DEF Ledger, Waiting, Started
<1>10. working' \in Seq(CliTypes)
  BY <1>1, <1>2, Removed
<1> QED BY <1>1, <1>5, <1>7, <1>8, <1>9, <1>10 DEF Ledger

\* The events on the way once the first is in, and once the second overtook it.
LEMMA First ==
  ASSUME Ledger, events # <<>>, events' = State!RemoveAt(events, 1), UNCHANGED working
  PROVE  /\ events' \in Seq(Events) /\ Paired' /\ Levels'
         /\ \A t \in CliTypes :
              Level(t, 1)' = Level(t, 1) - One(events[1] = Ended(t)) + One(events[1] = Started(t))
<1>1. /\ events \in Seq(Events) /\ 1 \in 1 .. Len(events) /\ DOMAIN events = 1 .. Len(events)
      /\ Len(events) \in Nat
  BY DEF Ledger
<1>2. /\ events' \in Seq(Events) /\ Len(events') = Len(events) - 1
      /\ DOMAIN events' = 1 .. Len(events) - 1
      /\ \A k \in 1 .. Len(events) - 1 : events'[k] = events[k + 1]
  <2>1. /\ events' \in Seq(Events) /\ Len(events') = Len(events) - 1
        /\ \A k \in 1 .. Len(events) - 1 : events'[k] = IF k < 1 THEN events[k] ELSE events[k + 1]
    BY <1>1, Removed
  <2> QED BY <2>1
<1>3. ASSUME NEW e, NEW j \in Nat \ {0}
      PROVE  /\ Tally(events', e, j) = Tally(events, e, j + 1)
             /\ Tally(events', e, 1) = Tally(events, e, 1) - One(events[1] = e)
  <2>1. /\ j >= 1 => Tally(State!RemoveAt(events, 1), e, j) = Tally(events, e, j + 1)
        /\ Tally(State!RemoveAt(events, 1), e, 1) = Tally(events, e, 1) - One(events[1] = e)
    BY <1>1, TallyRemove
  <2> QED BY <2>1
<1>4. ASSUME NEW t \in CliTypes, NEW j \in Nat \ {0}
      PROVE  /\ Level(t, j)' = Level(t, j + 1)
             /\ Level(t, 1)' = Level(t, 1) - One(events[1] = Ended(t)) + One(events[1] = Started(t))
  <2>1. /\ Tally(events, Ended(t), j)' = Tally(events, Ended(t), j + 1)
        /\ Tally(events, Ended(t), 1)' = Tally(events, Ended(t), 1) - One(events[1] = Ended(t))
    BY <1>3 DEF Tally, Places, Ended
  <2>2. /\ Tally(events, Started(t), j)' = Tally(events, Started(t), j + 1)
        /\ Tally(events, Started(t), 1)' = Tally(events, Started(t), 1) - One(events[1] = Started(t))
    BY <1>3 DEF Tally, Places, Started
  <2>3. Tally(working, t, 1)' = Tally(working, t, 1)
    BY DEF Tally, Places
  <2>4. /\ Tally(working, t, 1) \in Nat /\ Tally(events, Ended(t), 1) \in Nat
        /\ Tally(events, Started(t), 1) \in Nat
        /\ One(events[1] = Ended(t)) \in Nat /\ One(events[1] = Started(t)) \in Nat
    BY LevelInt DEF One
  <2> QED BY <2>1, <2>2, <2>3, <2>4 DEF Level
<1>5. Levels'
  <2> SUFFICES ASSUME NEW t \in CliTypes, NEW j \in Nat \ {0} PROVE Level(t, j)' >= 0
    BY DEF Levels
  <2>1. j + 1 \in Nat \ {0}
    OBVIOUS
  <2> QED BY <1>4, <2>1 DEF Ledger, Levels
<1>6. Paired'
  <2> SUFFICES ASSUME NEW i \in DOMAIN events'
               PROVE  /\ events'[i].name = "PreToolUse" /\ events'[i].type # "none" =>
                           i < Len(events') /\ events'[i + 1] = Started(events'[i].type)
                      /\ events'[i].name \in {"SubagentStart", "SubagentStop"} =>
                           events'[i].type \in CliTypes
    BY DEF Paired, Started
  <2>1. i + 1 \in DOMAIN events /\ events'[i] = events[i + 1]
    BY <1>1, <1>2
  <2>2. i + 1 < Len(events) => i < Len(events') /\ events'[i + 1] = events[i + 1 + 1]
    BY <1>1, <1>2
  <2> QED BY <2>1, <2>2 DEF Ledger, Paired
<1> QED BY <1>2, <1>4, <1>5, <1>6

LEMMA Second ==
  ASSUME Ledger, 2 \in DOMAIN events, events' = State!RemoveAt(events, 2), UNCHANGED working,
         events[2].name \notin {"SubagentStart", "SubagentStop"}
  PROVE  /\ events' \in Seq(Events) /\ Paired' /\ Levels'
         /\ \A t \in CliTypes : Level(t, 1)' = Level(t, 1)
<1>1. /\ events \in Seq(Events) /\ 2 \in 1 .. Len(events) /\ DOMAIN events = 1 .. Len(events)
      /\ Len(events) \in Nat
  BY DEF Ledger
<1>2. /\ events' \in Seq(Events) /\ Len(events') = Len(events) - 1
      /\ DOMAIN events' = 1 .. Len(events) - 1
      /\ events'[1] = events[1]
      /\ \A k \in 2 .. Len(events) - 1 : events'[k] = events[k + 1]
  <2>1. /\ events' \in Seq(Events) /\ Len(events') = Len(events) - 1
        /\ \A k \in 1 .. Len(events) - 1 : events'[k] = IF k < 2 THEN events[k] ELSE events[k + 1]
    BY <1>1, Removed
  <2>2. DOMAIN events' = 1 .. Len(events) - 1
    BY <2>1
  <2>3. 1 \in 1 .. Len(events) - 1 /\ events'[1] = events[1]
    BY <1>1, <2>1
  <2>4. ASSUME NEW k \in 2 .. Len(events) - 1 PROVE events'[k] = events[k + 1]
    <3>1. k \in 1 .. Len(events) - 1 /\ ~(k < 2)
      BY <1>1
    <3> QED BY <2>1, <3>1
  <2> QED BY <2>1, <2>2, <2>3, <2>4
<1>3. ASSUME NEW e, NEW j \in Nat \ {0}, events[2] # e
      PROVE  Tally(events', e, j) = Tally(events, e, IF j <= 2 THEN j ELSE j + 1)
  <2>1. /\ j <= 2 => Tally(State!RemoveAt(events, 2), e, j) = Tally(events, e, j) - One(events[2] = e)
        /\ j >= 2 => Tally(State!RemoveAt(events, 2), e, j) = Tally(events, e, j + 1)
    BY <1>1, TallyRemove
  <2>2. One(events[2] = e) = 0 /\ Tally(events, e, j) \in Nat
    BY <1>1, <1>3, Counted DEF One
  <2> QED BY <2>1, <2>2
<1>4. ASSUME NEW t \in CliTypes, NEW j \in Nat \ {0}
      PROVE  Level(t, j)' = Level(t, IF j <= 2 THEN j ELSE j + 1)
  <2>1. events[2] # Ended(t) /\ events[2] # Started(t)
    BY DEF Ended, Started
  <2>2. Tally(events, Ended(t), j)' = Tally(events, Ended(t), IF j <= 2 THEN j ELSE j + 1)
    BY <1>3, <2>1 DEF Tally, Places, Ended
  <2>3. Tally(events, Started(t), j)' = Tally(events, Started(t), IF j <= 2 THEN j ELSE j + 1)
    BY <1>3, <2>1 DEF Tally, Places, Started
  <2>4. Tally(working, t, 1)' = Tally(working, t, 1)
    BY DEF Tally, Places
  <2> QED BY <2>2, <2>3, <2>4 DEF Level
<1>5. Levels'
  <2> SUFFICES ASSUME NEW t \in CliTypes, NEW j \in Nat \ {0} PROVE Level(t, j)' >= 0
    BY DEF Levels
  <2>1. (IF j <= 2 THEN j ELSE j + 1) \in Nat \ {0}
    OBVIOUS
  <2> QED BY <1>4, <2>1 DEF Ledger, Levels
<1>6. Paired'
  <2> SUFFICES ASSUME NEW i \in DOMAIN events'
               PROVE  /\ events'[i].name = "PreToolUse" /\ events'[i].type # "none" =>
                           i < Len(events') /\ events'[i + 1] = Started(events'[i].type)
                      /\ events'[i].name \in {"SubagentStart", "SubagentStop"} =>
                           events'[i].type \in CliTypes
    BY DEF Paired, Started
  <2>1. CASE i = 1
    <3>1. 1 \in DOMAIN events /\ events'[i] = events[1] /\ events[1 + 1] = events[2]
      BY <1>1, <1>2, <2>1
    <3>2. events[1].name = "PreToolUse" => events[1].type = "none"
      <4>1. events[2] # Started(events[1].type)
        BY DEF Started
      <4> QED BY <3>1, <4>1 DEF Ledger, Paired
    <3> QED BY <3>1, <3>2 DEF Ledger, Paired
  <2>2. CASE i # 1
    <3>1. i + 1 \in DOMAIN events /\ events'[i] = events[i + 1]
      BY <1>1, <1>2, <2>2
    <3>2. i + 1 < Len(events) => i < Len(events') /\ events'[i + 1] = events[i + 1 + 1]
      BY <1>1, <1>2, <2>2
    <3> QED BY <3>1, <3>2 DEF Ledger, Paired
  <2> QED BY <2>1, <2>2
<1>7. \A t \in CliTypes : Level(t, 1)' = Level(t, 1)
  BY <1>4
<1> QED BY <1>2, <1>5, <1>6, <1>7

-----------------------------------------------------------------------------
\* The end of a subagent, or of its tool, takes one entry off, if there is one.
LEMMA TakesOff ==
  ASSUME NEW list \in Seq(Entries), NEW type \in CliTypes,
         \A i \in 1 .. Len(list) : ~list[i].synthetic,
         NEW t \in CliTypes
  PROVE  /\ State!RemoveSubagent(list, type) \in Seq(Entries)
         /\ \A i \in DOMAIN State!RemoveSubagent(list, type) : ~State!RemoveSubagent(list, type)[i].synthetic
         /\ Tally(State!RemoveSubagent(list, type), Hired(t), 1) <= Tally(list, Hired(t), 1)
         /\ \/ Tally(State!RemoveSubagent(list, type), Hired(type), 1) = 0
            \/ Tally(State!RemoveSubagent(list, type), Hired(type), 1) = Tally(list, Hired(type), 1) - 1
<1> DEFINE match == {i \in DOMAIN list : list[i].type = type}
           left == State!RemoveSubagent(list, type)
<1>0. DOMAIN list = 1 .. Len(list) /\ Len(list) \in Nat
  OBVIOUS
<1>1. CASE match = {}
  <2>1. left = list
    BY <1>1 DEF State!RemoveSubagent
  <2>2. \A k \in 1 .. Len(list) : k >= 1 => list[k] # Hired(type)
    BY <1>0, <1>1 DEF Hired
  <2>3. Tally(list, Hired(type), 1) = 0 /\ Tally(list, Hired(t), 1) \in Nat
    BY <2>2, Counted
  <2> QED BY <1>0, <2>1, <2>3
<1>2. CASE match # {}
  <2>1. match \subseteq Nat
    BY <1>0
  <2>2. \E i \in match : \A k \in match : i <= k
    BY <1>2, <2>1, Least
  <2> DEFINE c == CHOOSE i \in match : \A k \in match : i <= k
  <2>3. c \in match
    BY <2>2
  <2>4. left = State!RemoveAt(list, c)
    BY <1>2 DEF State!RemoveSubagent
  <2>5. c \in 1 .. Len(list) /\ list[c].type = type
    BY <1>0, <2>3
  <2> HIDE DEF c, left, match
  <2>6. list[c] = Hired(type)
    <3>1. list[c] \in Entries /\ ~list[c].synthetic
      BY <2>5
    <3> QED BY <2>5, <3>1 DEF Entries, Hired
  <2>7. /\ left \in Seq(Entries) /\ Len(left) = Len(list) - 1
        /\ \A j \in 1 .. Len(list) - 1 : left[j] = IF j < c THEN list[j] ELSE list[j + 1]
    BY <2>4, <2>5, Removed
  <2>8. \A i \in DOMAIN left : ~left[i].synthetic
    <3> SUFFICES ASSUME NEW i \in DOMAIN left PROVE ~left[i].synthetic
      OBVIOUS
    <3>1. i \in 1 .. Len(list) - 1 /\ i \in 1 .. Len(list) /\ i + 1 \in 1 .. Len(list)
      BY <1>0, <2>7
    <3> QED BY <2>7, <3>1
  <2>9. /\ Tally(left, Hired(t), 1) = Tally(list, Hired(t), 1) - One(list[c] = Hired(t))
        /\ Tally(left, Hired(type), 1) = Tally(list, Hired(type), 1) - One(list[c] = Hired(type))
    BY <2>4, <2>5, TallyRemove
  <2>10. One(list[c] = Hired(type)) = 1 /\ One(list[c] = Hired(t)) \in Nat
         /\ Tally(list, Hired(t), 1) \in Nat
    BY <2>6, Counted DEF One
  <2> QED BY <2>7, <2>8, <2>9, <2>10 DEF left
<1> QED BY <1>1, <1>2

\* The start of a subagent takes over the entry of its tool, or makes one.
LEMMA TakesOver ==
  ASSUME NEW list \in Seq(Entries), NEW type \in CliTypes,
         \A i \in 1 .. Len(list) : list[i].synthetic => list[i].type = type,
         \A i, k \in 1 .. Len(list) : list[i].synthetic /\ list[k].synthetic => i = k
  PROVE  /\ State!AddSubagent(list, Hired(type)) \in Seq(Entries)
         /\ \A i \in DOMAIN State!AddSubagent(list, Hired(type)) :
              ~State!AddSubagent(list, Hired(type))[i].synthetic
         /\ \A t \in CliTypes : Tally(State!AddSubagent(list, Hired(type)), Hired(t), 1)
                               = Tally(list, Hired(t), 1) + One(type = t)
<1> DEFINE match == {i \in DOMAIN list : list[i].synthetic /\ list[i].type = type}
           more == State!AddSubagent(list, Hired(type))
<1>0. /\ DOMAIN list = 1 .. Len(list) /\ Len(list) \in Nat
      /\ Hired(type) \in Entries /\ ~Hired(type).synthetic /\ Hired(type).type = type
      /\ \A t \in CliTypes : (Hired(type) = Hired(t) <=> type = t) /\ Tally(list, Hired(t), 1) \in Nat
  <2>1. \A t \in CliTypes : Hired(t).type = t
    BY DEF Hired
  <2>2. \A t \in CliTypes : Tally(list, Hired(t), 1) \in Nat
    BY Counted
  <2>3. Hired(type) \in Entries /\ ~Hired(type).synthetic
    BY DEF Hired, Entries
  <2>4. \A t \in CliTypes : Hired(type) = Hired(t) <=> type = t
    BY <2>1
  <2> QED BY <2>1, <2>2, <2>3, <2>4
<1>1. CASE match = {}
  <2>1. more = Append(list, Hired(type))
    BY <1>0, <1>1 DEF State!AddSubagent
  <2>2. \A i \in 1 .. Len(list) : ~list[i].synthetic
    BY <1>0, <1>1
  <2> HIDE DEF more, match
  <2>3. more \in Seq(Entries) /\ \A i \in DOMAIN more : ~more[i].synthetic
    BY <1>0, <2>1, <2>2
  <2>4. ASSUME NEW t \in CliTypes
        PROVE  Tally(more, Hired(t), 1) = Tally(list, Hired(t), 1) + One(type = t)
    <3>1. 1 <= Len(list) + 1 /\ 1 \in Nat
      BY <1>0
    <3>2. Tally(Append(list, Hired(type)), Hired(t), 1) =
            Tally(list, Hired(t), 1) + One(Hired(type) = Hired(t) /\ 1 <= Len(list) + 1)
      BY <1>0, <3>1, TallyAppend
    <3> QED BY <1>0, <2>1, <3>1, <3>2 DEF One
  <2> QED BY <2>3, <2>4 DEF more
<1>2. CASE match # {}
  <2>1. PICK i \in 1 .. Len(list) : match = {i} /\ list[i].synthetic /\ list[i].type = type
    BY <1>0, <1>2
  <2>2. (CHOOSE k \in match : \A m \in match : k <= m) = i
    BY <2>1
  <2>3. more = [list EXCEPT ![i].synthetic = FALSE]
    BY <1>0, <1>2, <2>2 DEF State!AddSubagent
  <2> HIDE DEF match
  <2>4. [list[i] EXCEPT !.synthetic = FALSE] = Hired(type)
    <3>1. list[i] \in Entries
      OBVIOUS
    <3>2. list[i] \in [type : {type}, synthetic : BOOLEAN]
      BY <2>1, <3>1 DEF Entries
    <3>3. ASSUME NEW z, z = [list[i] EXCEPT !.synthetic = FALSE]
          PROVE  z = [type |-> type, synthetic |-> FALSE]
      <4>1. z \in [type : {type}, synthetic : BOOLEAN] /\ z.synthetic = FALSE
        BY <3>2, <3>3
      <4> QED BY <4>1
    <3> QED BY <3>3 DEF Hired
  <2>5. more = [list EXCEPT ![i] = Hired(type)]
    BY <2>3, <2>4
  <2> HIDE DEF more
  <2>6. more \in Seq(Entries) /\ Len(more) = Len(list)
    BY <1>0, <2>5
  <2>7. ASSUME NEW k \in DOMAIN more PROVE ~more[k].synthetic
    <3>1. k \in 1 .. Len(list) /\ more[k] = IF k = i THEN Hired(type) ELSE list[k]
      BY <2>5, <2>6
    <3> QED BY <1>0, <2>1, <3>1
  <2>8. ASSUME NEW t \in CliTypes
        PROVE  Tally(more, Hired(t), 1) = Tally(list, Hired(t), 1) + One(type = t)
    <3>1. list[i] # Hired(t)
      BY <2>1 DEF Hired
    <3>2. Tally([list EXCEPT ![i] = Hired(type)], Hired(t), 1) =
            Tally(list, Hired(t), 1) - One(list[i] = Hired(t)) + One(Hired(type) = Hired(t))
      <4>1. Hired(type) \in Entries
        BY <1>0
      <4> HIDE <1>0
      <4> QED BY <4>1, TallyUpdate
    <3>3. One(list[i] = Hired(t)) = 0 /\ One(Hired(type) = Hired(t)) = One(type = t)
          /\ One(type = t) \in Nat
      BY <1>0, <3>1 DEF One
    <3> QED BY <1>0, <2>5, <3>2, <3>3
  <2> QED BY <2>6, <2>7, <2>8 DEF more
<1> QED BY <1>1, <1>2


\* A list without an entry that waits, of which each has its subagent.
LEMMA Settled ==
  ASSUME events' \in Seq(Events), working' \in Seq(CliTypes), Paired', Levels',
         listed' \in Seq(Entries), \A i \in DOMAIN listed' : ~listed'[i].synthetic,
         \A t \in CliTypes : Tally(listed', Hired(t), 1) <= Level(t, 1)'
  PROVE  Ledger'
<1>1. Waiting(listed)'
  BY DEF Waiting
<1>2. Covered(listed)'
  BY DEF Covered, Hired, Tally, Places
<1> QED BY <1>1, <1>2 DEF Ledger

LEMMA Emptied ==
  ASSUME events' \in Seq(Events), working' \in Seq(CliTypes), Paired', Levels', listed' = <<>>
  PROVE  Ledger'
<1>1. listed' \in Seq(Entries) /\ Len(listed') = 0 /\ DOMAIN listed' = {}
  OBVIOUS
<1>2. ASSUME NEW t \in CliTypes PROVE Tally(listed', Hired(t), 1) <= Level(t, 1)'
  <2>1. Tally(listed', Hired(t), 1) = 0
    <3>1. 1 > Len(listed') /\ 1 \in Nat
      BY <1>1
    <3> QED BY <1>1, <3>1, Counted
  <2> QED BY <2>1 DEF Levels
<1> QED BY <1>1, <1>2, Settled

LEMMA TracksSecond ==
  ASSUME Overtaking, Ledger, State!Deliver(2), 2 \in DOMAIN events
  PROVE  Ledger'
<1>1. events' = State!RemoveAt(events, 2) /\ UNCHANGED working
  BY DEF State!Deliver
<1>2. \/ events[1].name = "PostToolUse" /\ events[2].name = "Stop"
      \/ events[1].name = "PreToolUse" /\ events[2].name = "PermissionRequest"
  BY DEF State!Deliver, Overtaking
<1>3. /\ events' \in Seq(Events) /\ Paired' /\ Levels' /\ working' \in Seq(CliTypes)
      /\ \A t \in CliTypes : Level(t, 1)' = Level(t, 1)
  BY <1>1, <1>2, Second DEF Ledger
<1>4. listed' = <<>> \/ listed' = listed
  BY <1>2 DEF State!Deliver, State!Tracked
<1>5. CASE listed' = <<>>
  BY <1>3, <1>5, Emptied
<1>6. CASE listed' = listed
  <2>1. \A i \in DOMAIN listed' : ~listed'[i].synthetic
    <3>1. \A i \in DOMAIN listed : listed[i].synthetic => events[1].name = "SubagentStart"
      <4>1. \A t : Started(t).name = "SubagentStart"
        BY DEF Started
      <4>2. \A i \in DOMAIN listed : listed[i].synthetic => events[1] = Started(listed[i].type)
        BY DEF Ledger, Waiting
      <4> QED BY <4>1, <4>2
    <3> QED BY <1>2, <1>6, <3>1
  <2> QED BY <1>3, <1>6, <2>1, Settled DEF Ledger, Covered
<1> QED BY <1>4, <1>5, <1>6

LEMMA TracksFirst ==
  ASSUME Ledger, State!Deliver(1), 1 \in DOMAIN events
  PROVE  Ledger'
<1> DEFINE e == events[1]
<1>1. events' = State!RemoveAt(events, 1) /\ UNCHANGED working /\ events # <<>>
  BY DEF State!Deliver
<1>2. /\ events' \in Seq(Events) /\ Paired' /\ Levels' /\ working' \in Seq(CliTypes)
      /\ \A t \in CliTypes : Level(t, 1)' = Level(t, 1) - One(e = Ended(t)) + One(e = Started(t))
  BY <1>1, First DEF Ledger
<1>3. listed' = <<>> \/ listed' = State!Tracked(e)
  BY DEF State!Deliver
<1>4. /\ e \in Events /\ listed \in Seq(Entries) /\ DOMAIN listed = 1 .. Len(listed)
      /\ e.name \in {"SubagentStart", "SubagentStop"} => e.type \in CliTypes
      /\ e.type # "none" => e.type \in CliTypes
  <2>1. e \in Events
    BY DEF Ledger
  <2>2. listed \in Seq(Entries) /\ (e.name \in {"SubagentStart", "SubagentStop"} => e.type \in CliTypes)
    BY DEF Ledger, Paired
  <2> QED BY <2>1, <2>2 DEF Events
<1>5. \A t \in CliTypes : /\ Level(t, 1) \in Nat /\ Level(t, 1)' >= 0 /\ Tally(listed, Hired(t), 1) \in Nat
                          /\ Tally(listed, Hired(t), 1) <= Level(t, 1)
  <2>1. \A t \in CliTypes : Level(t, 1)' >= 0
    BY <1>2 DEF Levels
  <2>2. \A t \in CliTypes : Level(t, 1) \in Nat /\ Tally(listed, Hired(t), 1) \in Nat
    BY LevelInt
  <2> QED BY <2>1, <2>2 DEF Ledger, Covered
\* Unless the event is a subagent's start, no entry waits.
<1>6. e.name # "SubagentStart" => \A i \in 1 .. Len(listed) : ~listed[i].synthetic
  BY <1>4 DEF Ledger, Waiting, Started
<1>7. e.name \notin {"SubagentStart", "SubagentStop"} => \A t \in CliTypes : Level(t, 1)' = Level(t, 1)
  <2> SUFFICES ASSUME e.name \notin {"SubagentStart", "SubagentStop"}, NEW t \in CliTypes
               PROVE  Level(t, 1)' = Level(t, 1)
    OBVIOUS
  <2>1. e # Ended(t) /\ e # Started(t)
    BY DEF Ended, Started
  <2>2. One(e = Ended(t)) = 0 /\ One(e = Started(t)) = 0
    BY <2>1 DEF One
  <2> QED BY <1>2, <1>5, <2>2
<1> HIDE DEF e
<1>8. CASE listed' = <<>>
  BY <1>2, <1>8, Emptied
<1>9. CASE e.name = "SubagentStart" /\ listed' = State!Tracked(e)
  <2>1. e = Started(e.type) /\ e.type \in CliTypes
    BY <1>4, <1>9 DEF Events, Started
  <2>2. listed' = State!AddSubagent(listed, Hired(e.type))
    BY <1>9 DEF State!Tracked, Hired
  <2>3. /\ \A i \in 1 .. Len(listed) : listed[i].synthetic => listed[i].type = e.type
        /\ \A i, k \in 1 .. Len(listed) : listed[i].synthetic /\ listed[k].synthetic => i = k
    <3>1. \A i \in 1 .. Len(listed) : listed[i].synthetic => e = Started(listed[i].type)
      BY <1>4 DEF Ledger, Waiting, e
    <3>2. \A t : Started(t).type = t
      BY DEF Started
    <3> QED BY <1>4, <3>1, <3>2 DEF Ledger, Waiting
  <2>4. /\ listed' \in Seq(Entries) /\ \A i \in DOMAIN listed' : ~listed'[i].synthetic
        /\ \A t \in CliTypes : Tally(listed', Hired(t), 1) = Tally(listed, Hired(t), 1) + One(e.type = t)
    BY <1>4, <2>1, <2>2, <2>3, TakesOver
  <2>5. ASSUME NEW t \in CliTypes PROVE Tally(listed', Hired(t), 1) <= Level(t, 1)'
    <3>1. e # Ended(t) /\ (e = Started(t) <=> e.type = t)
      BY <2>1 DEF Ended, Started
    <3>2. One(e = Ended(t)) = 0 /\ One(e = Started(t)) = One(e.type = t) /\ One(e.type = t) \in Nat
      BY <3>1 DEF One
    <3> QED BY <1>2, <1>5, <2>4, <3>2
  <2> QED BY <1>2, <2>4, <2>5, Settled
<1>10. CASE e.name = "SubagentStop" /\ listed' = State!Tracked(e)
  <2>1. e = Ended(e.type) /\ e.type \in CliTypes
    BY <1>4, <1>10 DEF Events, Ended
  <2>2. listed' = State!RemoveSubagent(listed, e.type)
    BY <1>10 DEF State!Tracked
  <2>3. \A t \in CliTypes :
          /\ listed' \in Seq(Entries) /\ \A i \in DOMAIN listed' : ~listed'[i].synthetic
          /\ Tally(listed', Hired(t), 1) <= Tally(listed, Hired(t), 1)
          /\ \/ Tally(listed', Hired(e.type), 1) = 0
             \/ Tally(listed', Hired(e.type), 1) = Tally(listed, Hired(e.type), 1) - 1
    BY <1>4, <1>6, <1>10, <2>1, <2>2, TakesOff
  <2>4. ASSUME NEW t \in CliTypes PROVE Tally(listed', Hired(t), 1) <= Level(t, 1)'
    <3>1. e # Started(t) /\ (e = Ended(t) <=> e.type = t)
      BY <2>1 DEF Ended, Started
    <3>2. One(e = Started(t)) = 0 /\ One(e = Ended(t)) = IF e.type = t THEN 1 ELSE 0
      BY <3>1 DEF One
    <3>3. Level(t, 1)' = Level(t, 1) - (IF e.type = t THEN 1 ELSE 0)
      BY <1>2, <1>5, <3>2
    <3>4. Tally(listed', Hired(t), 1) \in Nat
      BY <2>3, Counted
    <3> QED BY <1>5, <2>3, <3>3, <3>4
  <2> QED BY <1>2, <2>1, <2>3, <2>4, Settled
<1>11. CASE e.name = "PostToolUse" /\ e.type # "none" /\ listed' = State!Tracked(e)
  <2>1. listed' = State!RemoveSubagent(listed, e.type) /\ e.type \in CliTypes
    BY <1>4, <1>11 DEF State!Tracked
  <2>2. \A t \in CliTypes :
          /\ listed' \in Seq(Entries) /\ \A i \in DOMAIN listed' : ~listed'[i].synthetic
          /\ Tally(listed', Hired(t), 1) <= Tally(listed, Hired(t), 1)
    BY <1>4, <1>6, <1>11, <2>1, TakesOff
  <2>3. ASSUME NEW t \in CliTypes PROVE Tally(listed', Hired(t), 1) <= Level(t, 1)'
    <3>1. Tally(listed', Hired(t), 1) \in Nat /\ Level(t, 1)' = Level(t, 1)
      BY <1>7, <1>11, <2>2, Counted
    <3> QED BY <1>5, <2>2, <3>1
  <2> QED BY <1>2, <2>1, <2>2, <2>3, Settled
<1>12. CASE e.name = "PreToolUse" /\ e.type # "none" /\ listed' = State!Tracked(e)
  <2>1. e.type \in CliTypes /\ events'[1] = Started(e.type) /\ events' # <<>>
    <3>1. 1 < Len(events) /\ events[1 + 1] = Started(e.type) /\ events \in Seq(Events) /\ Len(events) \in Nat
      BY <1>12 DEF Ledger, Paired, e
    <3>2. /\ Len(events') = Len(events) - 1
          /\ \A j \in 1 .. Len(events) - 1 : events'[j] = IF j < 1 THEN events[j] ELSE events[j + 1]
      <4>1. 1 \in 1 .. Len(events)
        BY <3>1
      <4> QED BY <1>1, <3>1, <4>1, Removed
    <3>3. 1 \in 1 .. Len(events) - 1
      BY <3>1
    <3>4. events'[1] = events[1 + 1] /\ Len(events') # 0
      BY <3>1, <3>2, <3>3
    <3>5. events' # <<>>
      BY <3>4
    <3> QED BY <1>4, <1>12, <3>1, <3>4, <3>5
  <2>2. listed' = Append(listed, Waits(e.type))
    BY <1>12 DEF State!Tracked, State!AddSubagent, Waits
  <2>3. Waits(e.type) \in Entries /\ Waits(e.type).synthetic /\ Waits(e.type).type = e.type
    BY <2>1 DEF Waits, Entries
  <2>4. /\ listed' \in Seq(Entries) /\ Len(listed') = Len(listed) + 1 /\ Len(listed) \in Nat
        /\ DOMAIN listed' = 1 .. Len(listed) + 1 /\ listed'[Len(listed) + 1] = Waits(e.type)
        /\ \A i \in 1 .. Len(listed) : listed'[i] = listed[i]
    BY <1>4, <2>2, <2>3
  <2>5. \A i \in DOMAIN listed' : listed'[i].synthetic => i = Len(listed) + 1
    BY <1>6, <1>12, <2>4
  <2>6. Waiting(listed)'
    BY <2>1, <2>3, <2>4, <2>5 DEF Waiting, Started
  <2>7. ASSUME NEW t \in CliTypes PROVE Tally(listed', Hired(t), 1) <= Level(t, 1)'
    <3>1. Waits(e.type) # Hired(t) /\ 1 \in Nat
      BY <2>3 DEF Hired
    <3>2. Tally(Append(listed, Waits(e.type)), Hired(t), 1) =
            Tally(listed, Hired(t), 1) + One(Waits(e.type) = Hired(t) /\ 1 <= Len(listed) + 1)
      BY <1>4, <2>3, <3>1, TallyAppend
    <3>3. One(Waits(e.type) = Hired(t) /\ 1 <= Len(listed) + 1) = 0
      BY <3>1 DEF One
    <3> QED BY <1>5, <1>7, <1>12, <2>2, <3>2, <3>3
  <2>8. Covered(listed)'
    BY <2>7 DEF Covered, Hired, Tally, Places
  <2> QED BY <1>2, <2>4, <2>6, <2>8 DEF Ledger
<1>13. CASE listed' = listed /\ e.name \notin {"SubagentStart", "SubagentStop"}
  BY <1>2, <1>4, <1>5, <1>6, <1>7, <1>13, Settled
<1>14. \/ listed' = <<>>
       \/ e.name \in {"SubagentStart", "SubagentStop"} /\ listed' = State!Tracked(e)
       \/ e.name \in {"PreToolUse", "PostToolUse"} /\ e.type # "none" /\ listed' = State!Tracked(e)
       \/ listed' = listed /\ e.name \notin {"SubagentStart", "SubagentStop"}
  BY <1>3 DEF State!Tracked
<1> QED BY <1>8, <1>9, <1>10, <1>11, <1>12, <1>13, <1>14

-----------------------------------------------------------------------------
LEMMA InitLedger ==
  ASSUME State!Init
  PROVE  Ledger
<1>1. /\ events = <<>> /\ working = <<>> /\ listed = <<>>
      /\ events \in Seq(Events) /\ working \in Seq(CliTypes) /\ listed \in Seq(Entries)
      /\ Len(events) = 0 /\ Len(working) = 0 /\ Len(listed) = 0
      /\ DOMAIN events = {} /\ DOMAIN listed = {}
  BY DEF State!Init
<1>2. ASSUME NEW t \in CliTypes, NEW j \in Nat \ {0}
      PROVE  Level(t, j) = 0 /\ Tally(listed, Hired(t), 1) = 0
  <2>1. /\ Tally(working, t, 1) = 0 /\ Tally(listed, Hired(t), 1) = 0
        /\ Tally(events, Ended(t), j) = 0 /\ Tally(events, Started(t), j) = 0
    <3>1. j \in Nat /\ j > 0 /\ 1 \in Nat /\ 1 > 0
      OBVIOUS
    <3>2. Tally(events, Ended(t), j) = 0 /\ Tally(events, Started(t), j) = 0
      BY <1>1, <3>1, Counted
    <3>3. Tally(working, t, 1) = 0
      BY <1>1, <3>1, Counted
    <3>4. Tally(listed, Hired(t), 1) = 0
      BY <1>1, <3>1, Counted
    <3> QED BY <3>2, <3>3, <3>4
  <2> QED BY <2>1 DEF Level
<1> QED BY <1>1, <1>2 DEF Ledger, Paired, Levels, Waiting, Covered

LEMMA StepLedger ==
  ASSUME Overtaking, Ledger, [State!Next]_(State!vars)
  PROVE  Ledger'
<1> DEFINE Quiet == /\ UNCHANGED <<working, listed>>
                    /\ UNCHANGED events \/ \E evs \in Plain : events' = events \o evs
<1>1. ASSUME NEW a \in Names \ {"SubagentStart", "SubagentStop"}, State!Sends(<<State!Ev(a)>>)
      PROVE  \E evs \in Plain : events' = events \o evs
  BY <1>1, Plainly DEF State!Sends
<1>2. ASSUME NEW a \in Names \ {"SubagentStart", "SubagentStop"},
             NEW b \in Names \ {"SubagentStart", "SubagentStop"}, State!Sends(<<State!Ev(a), State!Ev(b)>>)
      PROVE  \E evs \in Plain : events' = events \o evs
  BY <1>2, Plainly DEF State!Sends
<1>3. /\ {"SessionStart", "UserPromptSubmit", "PreToolUse", "PostToolUse", "PermissionRequest",
          "ask_permission", "AskUserQuestion", "ExitPlanMode", "PostInvocation", "Stop"}
            \subseteq Names \ {"SubagentStart", "SubagentStop"}
  BY DEF Names, Closing, Busy
<1>4. CASE State!StartCLI
  <2>1. Quiet
    BY <1>1, <1>3, <1>4 DEF State!StartCLI
  <2> QED BY <2>1, Tells
<1>5. CASE State!Prompt
  <2>1. Quiet
    BY <1>1, <1>3, <1>5 DEF State!Prompt
  <2> QED BY <2>1, Tells
<1>6. CASE State!ToolStarts
  <2>1. Quiet
    BY <1>1, <1>3, <1>6 DEF State!ToolStarts, State!Daemon
  <2> QED BY <2>1, Tells
<1>7. CASE State!ToolEnds
  <2>1. Quiet
    BY <1>1, <1>3, <1>7 DEF State!ToolEnds, State!Daemon
  <2> QED BY <2>1, Tells
<1>8. CASE State!AsksPermission
  <2>1. Quiet
    BY <1>1, <1>3, <1>8 DEF State!AsksPermission, State!Daemon
  <2> QED BY <2>1, Tells
<1>9. CASE State!Asks("question", "AskUserQuestion") \/ State!Asks("plan", "ExitPlanMode")
  <2>1. Quiet
    BY <1>1, <1>3, <1>9 DEF State!Asks
  <2> QED BY <2>1, Tells
<1>10. CASE \E type \in CliTypes : State!SubagentStarts(type)
  BY <1>10, Spawned
<1>11. CASE \E i \in 1 .. 2 : State!SubagentEnds(i)
  <2>1. PICK i \in 1 .. 2 : State!SubagentEnds(i)
    BY <1>11
  <2>2. i \in DOMAIN working
    BY <2>1 DEF State!SubagentEnds
  <2> QED BY <2>1, <2>2, Over
<1>12. CASE State!Compacts
  <2>1. Quiet
    BY <1>2, <1>3, <1>12 DEF State!Compacts, State!Daemon
  <2> QED BY <2>1, Tells
<1>13. CASE State!Finishes
  <2>1. State!Sends(<<State!Ev("PostInvocation"), State!Ev("Stop")>>) \/ State!Sends(<<State!Ev("Stop")>>)
    BY <1>13 DEF State!Finishes
  <2>2. Quiet
    BY <1>1, <1>2, <1>3, <1>13, <2>1 DEF State!Finishes
  <2> QED BY <2>2, Tells
<1>14. CASE State!AnswersInPane
  <2>1. Quiet
    BY <1>1, <1>3, <1>14 DEF State!AnswersInPane, State!Daemon
  <2> QED BY <2>1, Tells
<1>15. CASE State!Responds
  <2>1. Quiet
    BY <1>1, <1>3, <1>15 DEF State!Responds
  <2> QED BY <2>1, Tells
<1>16. CASE \E i \in 1 .. 2 : State!Deliver(i)
  <2>1. PICK i \in 1 .. 2 : State!Deliver(i)
    BY <1>16
  <2>2. i \in DOMAIN events /\ (i = 1 \/ i = 2)
    BY <2>1 DEF State!Deliver
  <2> QED BY <2>1, <2>2, TracksFirst, TracksSecond
<1>17. CASE State!TwoSecondsPass \/ State!MarkRead \/ UNCHANGED State!vars
  <2>1. Quiet
    BY <1>17 DEF State!TwoSecondsPass, State!MarkRead, State!vars
  <2> QED BY <2>1, Tells
<1> QED BY <1>4, <1>5, <1>6, <1>7, <1>8, <1>9, <1>10, <1>11, <1>12, <1>13, <1>14, <1>15,
           <1>16, <1>17 DEF State!Next

\* No subagent stays on the list after its end, though that end and the end of
\* its tool each take an entry off (active_subagents of the daemon): for any
\* types, of which several may run at once, and any burst of events.
THEOREM NoGhosts ==
  ASSUME Overtaking
  PROVE  State!Spec => []State!NoGhostSubagent
<1>1. State!Init => Ledger
  BY InitLedger
<1>2. Ledger /\ [State!Next]_(State!vars) => Ledger'
  BY StepLedger
<1>3. Ledger => State!NoGhostSubagent
  <2> SUFFICES ASSUME Ledger, events = <<>>, NEW i \in DOMAIN listed
               PROVE  \E k \in DOMAIN working : listed[i].type = working[k]
    BY DEF State!NoGhostSubagent
  <2> DEFINE t == listed[i].type
  <2>1. /\ listed \in Seq(Entries) /\ working \in Seq(CliTypes) /\ events \in Seq(Events)
        /\ i \in 1 .. Len(listed) /\ i >= 1 /\ Len(events) = 0 /\ DOMAIN working = 1 .. Len(working)
    BY DEF Ledger
  <2>2. listed[i] \in Entries /\ ~listed[i].synthetic
    BY <2>1 DEF Ledger, Waiting
  <2>3. t \in CliTypes /\ listed[i] = Hired(t)
    BY <2>2 DEF Entries, Hired
  <2> HIDE DEF t
  <2>4. Tally(listed, Hired(t), 1) # 0
    <3>1. Tally(listed, Hired(t), 1) = 0 <=>
            \A k \in 1 .. Len(listed) : k >= 1 => listed[k] # Hired(t)
      BY <2>1, Counted
    <3> QED BY <2>1, <2>3, <3>1
  <2>5. Level(t, 1) = Tally(working, t, 1)
    <3>1. Tally(events, Ended(t), 1) = 0 /\ Tally(events, Started(t), 1) = 0
      <4>1. 1 \in Nat /\ 1 > Len(events)
        BY <2>1
      <4> QED BY <2>1, <4>1, Counted
    <3>2. Tally(working, t, 1) \in Nat
      BY <2>3, LevelInt
    <3> QED BY <3>1, <3>2 DEF Level
  <2>6. Tally(working, t, 1) # 0
    <3>1. /\ Tally(listed, Hired(t), 1) <= Level(t, 1) /\ Tally(listed, Hired(t), 1) \in Nat
          /\ Tally(working, t, 1) \in Nat
      BY <2>3, LevelInt DEF Ledger, Covered
    <3> QED BY <2>4, <2>5, <3>1
  <2>7. PICK k \in 1 .. Len(working) : working[k] = t
    <3>1. Tally(working, t, 1) = 0 <=> \A k \in 1 .. Len(working) : k >= 1 => working[k] # t
      BY <2>1, Counted
    <3> QED BY <2>6, <3>1
  <2> QED BY <2>1, <2>7 DEF t
<1> QED BY <1>1, <1>2, <1>3, PTL DEF State!Spec

-----------------------------------------------------------------------------
(***************************************************************************)
(* Subagents and their questions.                                          *)
(***************************************************************************)

Said == {"idle", "working", "blocked"}
Doing == {"none", "rest", "thinking", "asking", "done"}
LogSteps == {"answer", "tool", "ask", "plain"}

BlockTypes ==
  /\ family \in Families
  /\ art \in [Blocks!Convs -> Blocks!Artifact]
  /\ doing \in [Blocks!Convs -> Doing]
  /\ log \in [Blocks!Convs -> Seq(LogSteps)]
  /\ wire \in [Blocks!Convs -> Seq(Said)]
  /\ row \in [state : Said, of : Blocks!Convs \cup {NoOne}, unread : BOOLEAN]
  /\ blocker \in Subs \cup {NoOne}

Known(s) == Blocks!IsSubagent(art[s]) /\ Blocks!ParentOf(art[s]) # NoOne

\* What a conversation says last, and writes last, tells what it does.
Speaks(w, d) == \A i \in DOMAIN w : w[i] = "blocked" <=> (i = Len(w) /\ d = "asking")
Wrote(l, d) ==
  /\ d = "none" => l = <<>>
  /\ d = "thinking" /\ l # <<>> => l[Len(l)] \in {"answer", "tool"}
  /\ d = "asking" => l # <<>> /\ l[Len(l)] = "ask"
  /\ d = "done" => l # <<>> /\ l[Len(l)] = "plain"

Truthful ==
  /\ \A c \in Blocks!Convs : Speaks(wire[c], doing[c])
  /\ \A s \in Subs :
       /\ doing[s] # "rest" /\ Wrote(log[s], doing[s])
       /\ doing[s] # "none" => s \in family.subs /\ art[s] \in family.arts
       /\ doing[s] = "none" => wire[s] = <<>>

InTurn ==
  /\ doing[Parent] \in {"rest", "thinking", "asking"}
  /\ doing[Parent] # "thinking" => \A s \in Subs : ~Blocks!Live(s) /\ wire[s] = <<>>
  /\ wire[Parent] # <<>> => \A s \in Subs : doing[s] # "asking"

\* Whoever is noted asks, or will be heard of again; whoever asks and was
\* heard is shown, or another is.
Noted ==
  /\ blocker # NoOne => Known(blocker) /\ (doing[blocker] = "asking" \/ wire[blocker] # <<>>)
  /\ row.state = "blocked" /\ blocker # NoOne => row.of = blocker
  /\ row.state = "blocked" /\ blocker = NoOne =>
       row.of = Parent /\ (doing[Parent] = "asking" \/ wire[Parent] # <<>>)
  /\ doing[Parent] = "asking" /\ wire[Parent] = <<>> => row.state = "blocked" /\ row.of = Parent
  /\ \A s \in Subs : doing[s] = "asking" /\ wire[s] = <<>> /\ Known(s) =>
       row.state = "blocked" /\ blocker # NoOne

BlocksIInv == BlockTypes /\ Truthful /\ InTurn /\ Noted

-----------------------------------------------------------------------------
LEMMA Longer ==
  ASSUME NEW S, NEW w \in Seq(S), NEW x \in S
  PROVE  /\ Append(w, x) \in Seq(S) /\ Append(w, x) # <<>> /\ Len(w) \in Nat
         /\ Len(Append(w, x)) = Len(w) + 1 /\ DOMAIN Append(w, x) = 1 .. Len(w) + 1
         /\ DOMAIN w = 1 .. Len(w)
         /\ \A i \in 1 .. Len(w) : Append(w, x)[i] = w[i]
         /\ Append(w, x)[Len(w) + 1] = x
<1>1. Len(w) \in Nat /\ DOMAIN w = 1 .. Len(w)
  OBVIOUS
<1>2. Append(w, x) \in Seq(S) /\ Len(Append(w, x)) = Len(w) + 1
  OBVIOUS
<1>3. (\A i \in 1 .. Len(w) : Append(w, x)[i] = w[i]) /\ Append(w, x)[Len(w) + 1] = x
  BY <1>1
<1>4. DOMAIN Append(w, x) = 1 .. Len(w) + 1
  BY <1>1, <1>2
<1>5. Append(w, x) # <<>>
  BY <1>1, <1>2
<1> QED BY <1>1, <1>2, <1>3, <1>4, <1>5

LEMMA Shorter ==
  ASSUME NEW S, NEW w \in Seq(S), w # <<>>
  PROVE  /\ Tail(w) \in Seq(S) /\ Len(w) \in Nat \ {0} /\ Len(Tail(w)) = Len(w) - 1
         /\ DOMAIN Tail(w) = 1 .. Len(w) - 1 /\ DOMAIN w = 1 .. Len(w)
         /\ \A i \in 1 .. Len(w) - 1 : Tail(w)[i] = w[i + 1]
         /\ Head(w) = w[1] /\ Head(w) \in S
         /\ Tail(w) = <<>> <=> Len(w) = 1
<1>1. Len(w) \in Nat \ {0} /\ DOMAIN w = 1 .. Len(w)
  OBVIOUS
<1>2. Tail(w) \in Seq(S) /\ Len(Tail(w)) = Len(w) - 1
  BY <1>1
<1>3. \A i \in 1 .. Len(w) - 1 : Tail(w)[i] = w[i + 1]
  BY <1>1
<1>4. DOMAIN Tail(w) = 1 .. Len(w) - 1
  <2>1. \A t \in Seq(S) : DOMAIN t = 1 .. Len(t)
    OBVIOUS
  <2>2. DOMAIN Tail(w) = 1 .. Len(Tail(w))
    BY <1>2, <2>1, Zenon
  <2> QED BY <1>2, <2>2, Zenon
<1>5. Tail(w) = <<>> <=> Len(w) = 1
  <2>1. \A t \in Seq(S) : t = <<>> <=> Len(t) = 0
    OBVIOUS
  <2>2. Tail(w) = <<>> <=> Len(Tail(w)) = 0
    BY <1>2, <2>1, Zenon
  <2>3. Len(w) - 1 = 0 <=> Len(w) = 1
    BY <1>1
  <2> QED BY <1>2, <2>2, <2>3, Zenon
<1>6. Head(w) = w[1] /\ Head(w) \in S
  BY <1>1
<1> QED BY <1>1, <1>2, <1>3, <1>4, <1>5, <1>6

LEMMA Members ==
  ASSUME Herd
  PROVE  /\ Parent \in Blocks!Convs /\ Parent # NoOne /\ Parent \notin Subs
         /\ \A s \in Subs : s \in Blocks!Convs /\ s # NoOne /\ s # Parent
         /\ \A c \in Blocks!Convs : c = Parent \/ c \in Subs
         /\ NoOne \notin Subs
BY DEF Herd, Blocks!Convs

\* A sequence that grows at its end keeps what it says.
LEMMA SpeaksOn ==
  ASSUME NEW w \in Seq(Said), NEW d, NEW e, NEW x \in Said, Speaks(w, d),
         d # "asking" \/ w = <<>>, x = "blocked" <=> e = "asking"
  PROVE  Speaks(Append(w, x), e)
<1>1. \A i \in DOMAIN w : w[i] # "blocked"
  BY DEF Speaks
<1> QED BY <1>1, Longer DEF Speaks

LEMMA SpeaksLess ==
  ASSUME NEW w \in Seq(Said), NEW d, Speaks(w, d), w # <<>>
  PROVE  /\ Speaks(Tail(w), d)
         /\ Head(w) = "blocked" => d = "asking" /\ Tail(w) = <<>>
         /\ d = "asking" /\ Tail(w) = <<>> => Head(w) = "blocked"
<1>1. /\ Len(w) \in Nat \ {0} /\ Len(Tail(w)) = Len(w) - 1
      /\ DOMAIN Tail(w) = 1 .. Len(w) - 1 /\ DOMAIN w = 1 .. Len(w)
      /\ \A i \in 1 .. Len(w) - 1 : Tail(w)[i] = w[i + 1]
      /\ Head(w) = w[1]
      /\ Tail(w) = <<>> <=> Len(w) = 1
  BY Shorter
<1> QED BY <1>1 DEF Speaks

LEMMA WritesEnd ==
  ASSUME NEW c \in Blocks!Convs, NEW x \in LogSteps, log \in [Blocks!Convs -> Seq(LogSteps)],
         Blocks!Writes(c, x)
  PROVE  /\ log' \in [Blocks!Convs -> Seq(LogSteps)] /\ log'[c] # <<>> /\ log'[c][Len(log'[c])] = x
         /\ \A k \in Blocks!Convs \ {c} : log'[k] = log[k]
<1> DEFINE l == log[c]
<1>1. l \in Seq(LogSteps)
  OBVIOUS
<1>2. CASE Len(l) = 2
  <2>1. l[2] \in LogSteps
    <3>1. 2 \in DOMAIN l /\ DOMAIN l = 1 .. Len(l)
      BY <1>1, <1>2
    <3> HIDE DEF l
    <3> QED BY <1>1, <3>1
  <2>2. log' = [log EXCEPT ![c] = <<l[2], x>>]
    BY <1>2 DEF Blocks!Writes
  <2>3. <<l[2], x>> \in Seq(LogSteps) /\ <<l[2], x>> # <<>> /\ <<l[2], x>>[Len(<<l[2], x>>)] = x
    BY <2>1
  <2> HIDE DEF l
  <2> QED BY <2>2, <2>3
<1>3. CASE Len(l) # 2
  <2>1. log' = [log EXCEPT ![c] = Append(l, x)]
    BY <1>3 DEF Blocks!Writes
  <2> QED BY <1>1, <2>1, Longer
<1> QED BY <1>2, <1>3

-----------------------------------------------------------------------------
\* A step of a conversation that says and writes something.
LEMMA Acts ==
  ASSUME Herd, BlocksIInv, NEW c \in Blocks!Convs, NEW to \in Doing, NEW x \in LogSteps,
         NEW said \in Said,
         doing' = [doing EXCEPT ![c] = to], Blocks!Writes(c, x), Blocks!Says(c, said),
         UNCHANGED <<family, art, row, blocker>>,
         doing[c] # "asking" \/ wire[c] = <<>>, said = "blocked" <=> to = "asking",
         doing[c] # "none" /\ to # "none",
         c # Parent => to # "rest" /\ (to = "thinking" => x \in {"answer", "tool"})
                       /\ (to = "asking" => x = "ask") /\ (to = "done" => x = "plain"),
         InTurn'
  PROVE  BlocksIInv'
<1>1. /\ wire \in [Blocks!Convs -> Seq(Said)] /\ log \in [Blocks!Convs -> Seq(LogSteps)]
      /\ doing \in [Blocks!Convs -> Doing]
      /\ wire' = [wire EXCEPT ![c] = Append(wire[c], said)]
  BY DEF BlocksIInv, BlockTypes, Blocks!Says
<1>2. /\ wire' \in [Blocks!Convs -> Seq(Said)] /\ wire'[c] = Append(wire[c], said) /\ wire'[c] # <<>>
      /\ \A k \in Blocks!Convs \ {c} : wire'[k] = wire[k]
  BY <1>1, Longer
<1>3. /\ log' \in [Blocks!Convs -> Seq(LogSteps)] /\ log'[c] # <<>> /\ log'[c][Len(log'[c])] = x
      /\ \A k \in Blocks!Convs \ {c} : log'[k] = log[k]
  BY <1>1, WritesEnd
<1>4. doing' \in [Blocks!Convs -> Doing] /\ doing'[c] = to /\ \A k \in Blocks!Convs \ {c} : doing'[k] = doing[k]
  BY <1>1
<1>5. BlockTypes'
  BY <1>2, <1>3, <1>4 DEF BlocksIInv, BlockTypes
<1>6. Truthful'
  <2>1. Speaks(wire'[c], to)
    BY <1>1, <1>2, SpeaksOn DEF BlocksIInv, Truthful
  <2>2. \A k \in Blocks!Convs : Speaks(wire'[k], doing'[k])
    BY <1>2, <1>4, <2>1 DEF BlocksIInv, Truthful
  <2>3. ASSUME NEW s \in Subs
        PROVE  /\ doing'[s] # "rest" /\ Wrote(log'[s], doing'[s])
               /\ doing'[s] # "none" => s \in family.subs /\ art[s] \in family.arts
               /\ doing'[s] = "none" => wire'[s] = <<>>
    <3>1. s \in Blocks!Convs /\ s # Parent
      BY Members
    <3>2. CASE s = c
      BY <1>3, <1>4, <3>1, <3>2 DEF BlocksIInv, Truthful, Wrote
    <3>3. CASE s # c
      BY <1>2, <1>3, <1>4, <3>1, <3>3 DEF BlocksIInv, Truthful
    <3> QED BY <3>2, <3>3
  <2> QED BY <2>2, <2>3 DEF Truthful
<1>7. Noted'
  <2>1. \A k \in Blocks!Convs : wire'[k] # <<>> \/ (wire'[k] = wire[k] /\ doing'[k] = doing[k])
    BY <1>2, <1>4
  <2>2. \A k \in Blocks!Convs : doing[k] = "asking" \/ wire[k] # <<>> => doing'[k] = "asking" \/ wire'[k] # <<>>
    BY <2>1
  <2>3. blocker # NoOne => blocker \in Blocks!Convs
    BY Members DEF BlocksIInv, BlockTypes
  <2> QED BY <2>1, <2>2, <2>3, Members DEF BlocksIInv, Noted, Known
<1> QED BY <1>5, <1>6, <1>7 DEF BlocksIInv

LEMMA StepParent ==
  ASSUME Herd, BlocksIInv,
         Blocks!ParentPrompted \/ Blocks!Asks(Parent) \/ Blocks!Answered(Parent) \/ Blocks!UsesTool(Parent) \/ Blocks!Finishes(Parent)
  PROVE  BlocksIInv'
<1>1. PICK to \in {"rest", "thinking", "asking"}, x \in LogSteps, said \in Said :
        /\ doing' = [doing EXCEPT ![Parent] = to] /\ Blocks!Writes(Parent, x)
        /\ Blocks!Says(Parent, said)
        /\ UNCHANGED <<family, art, row, blocker>>
        /\ doing[Parent] # "asking" \/ wire[Parent] = <<>>
        /\ said = "blocked" <=> to = "asking"
        /\ doing[Parent] # "none"
        /\ doing[Parent] \in {"rest", "asking"} \/ Blocks!Waited(Parent)
        /\ to = "thinking" \/ Blocks!Waited(Parent)
  <2> DEFINE P(to, x, said) ==
        /\ doing' = [doing EXCEPT ![Parent] = to] /\ Blocks!Writes(Parent, x)
        /\ Blocks!Says(Parent, said)
        /\ UNCHANGED <<family, art, row, blocker>>
        /\ doing[Parent] # "asking" \/ wire[Parent] = <<>>
        /\ said = "blocked" <=> to = "asking"
        /\ doing[Parent] # "none"
        /\ doing[Parent] \in {"rest", "asking"} \/ Blocks!Waited(Parent)
        /\ to = "thinking" \/ Blocks!Waited(Parent)
  <2>0. doing \in [Blocks!Convs -> Doing] /\ Parent \in Blocks!Convs
    BY Members DEF BlocksIInv, BlockTypes
  <2>1. CASE Blocks!ParentPrompted
    <3>1. P("thinking", "answer", "working")
      BY <2>1 DEF Blocks!ParentPrompted, Blocks!Turns, Blocks!Daemon
    <3> QED BY <3>1 DEF LogSteps, Said
  <2>2. CASE Blocks!Asks(Parent)
    <3>1. P("asking", "ask", "blocked")
      BY <2>2 DEF Blocks!Asks, Blocks!Turns, Blocks!Daemon
    <3> QED BY <3>1 DEF LogSteps, Said
  <2>3. CASE Blocks!Answered(Parent)
    <3>1. P("thinking", "answer", "working")
      BY <2>3 DEF Blocks!Answered, Blocks!Turns, Blocks!Daemon
    <3> QED BY <3>1 DEF LogSteps, Said
  <2>4. CASE Blocks!UsesTool(Parent)
    <3>1. doing' = [doing EXCEPT ![Parent] = "thinking"]
      BY <2>0, <2>4 DEF Blocks!UsesTool
    <3>2. P("thinking", "tool", "working")
      BY <2>4, <3>1 DEF Blocks!UsesTool, Blocks!Daemon
    <3> QED BY <3>2 DEF LogSteps, Said
  <2>5. CASE Blocks!Finishes(Parent)
    <3>1. P("rest", "plain", "idle")
      BY <2>5 DEF Blocks!Finishes, Blocks!Turns, Blocks!Daemon
    <3> QED BY <3>1 DEF LogSteps, Said
  <2> QED BY <2>1, <2>2, <2>3, <2>4, <2>5
<1>2. /\ wire \in [Blocks!Convs -> Seq(Said)] /\ doing \in [Blocks!Convs -> Doing]
      /\ Parent \in Blocks!Convs
      /\ \A s \in Subs : s \in Blocks!Convs /\ s # Parent
  BY Members DEF BlocksIInv, BlockTypes
<1>3. \A s \in Subs : doing[s] # "asking" /\ ~Blocks!Live(s)
  BY <1>1, <1>2 DEF BlocksIInv, InTurn, Blocks!Waited, Blocks!Live
<1>4. \A s \in Subs : wire'[s] = wire[s] /\ doing'[s] = doing[s]
  BY <1>1, <1>2 DEF Blocks!Says
<1>5. to # "thinking" => \A s \in Subs : wire[s] = <<>>
  BY <1>1 DEF Blocks!Waited
<1>6. InTurn'
  <2>1. doing'[Parent] = to
    BY <1>1, <1>2
  <2> QED BY <1>1, <1>3, <1>4, <1>5, <2>1 DEF InTurn, Blocks!Live
<1>7. to \in Doing /\ to # "none"
  BY <1>1 DEF Doing
<1> QED BY <1>1, <1>2, <1>6, <1>7, Acts

LEMMA StepSub ==
  ASSUME Herd, BlocksIInv, NEW s \in Subs,
         Blocks!Asks(s) \/ Blocks!Answered(s) \/ Blocks!UsesTool(s) \/ Blocks!Finishes(s)
  PROVE  BlocksIInv'
<1>1. PICK to \in {"done", "thinking", "asking"}, x \in LogSteps, said \in Said :
        /\ doing' = [doing EXCEPT ![s] = to] /\ Blocks!Writes(s, x) /\ Blocks!Says(s, said)
        /\ UNCHANGED <<family, art, row, blocker>>
        /\ doing[s] # "asking" \/ wire[s] = <<>>
        /\ said = "blocked" <=> to = "asking"
        /\ doing[s] \in {"thinking", "asking"}
        /\ to = "thinking" => x \in {"answer", "tool"}
        /\ to = "asking" => x = "ask" /\ wire[Parent] = <<>>
        /\ to = "done" => x = "plain"
  <2> DEFINE P(to, x, said) ==
        /\ doing' = [doing EXCEPT ![s] = to] /\ Blocks!Writes(s, x) /\ Blocks!Says(s, said)
        /\ UNCHANGED <<family, art, row, blocker>>
        /\ doing[s] # "asking" \/ wire[s] = <<>>
        /\ said = "blocked" <=> to = "asking"
        /\ doing[s] \in {"thinking", "asking"}
        /\ to = "thinking" => x \in {"answer", "tool"}
        /\ to = "asking" => x = "ask" /\ wire[Parent] = <<>>
        /\ to = "done" => x = "plain"
  <2>0. doing \in [Blocks!Convs -> Doing] /\ s \in Blocks!Convs /\ s # Parent
    BY Members DEF BlocksIInv, BlockTypes
  <2>1. CASE Blocks!Asks(s)
    <3>1. P("asking", "ask", "blocked")
      BY <2>0, <2>1 DEF Blocks!Asks, Blocks!Turns, Blocks!Daemon, Blocks!Waited
    <3> QED BY <3>1 DEF LogSteps, Said
  <2>2. CASE Blocks!Answered(s)
    <3>1. P("thinking", "answer", "working")
      BY <2>2 DEF Blocks!Answered, Blocks!Turns, Blocks!Daemon
    <3> QED BY <3>1 DEF LogSteps, Said
  <2>3. CASE Blocks!UsesTool(s)
    <3>1. doing' = [doing EXCEPT ![s] = "thinking"]
      BY <2>0, <2>3 DEF Blocks!UsesTool
    <3>2. P("thinking", "tool", "working")
      BY <2>3, <3>1 DEF Blocks!UsesTool, Blocks!Daemon
    <3> QED BY <3>2 DEF LogSteps, Said
  <2>4. CASE Blocks!Finishes(s)
    <3>1. P("done", "plain", "idle")
      BY <2>0, <2>4 DEF Blocks!Finishes, Blocks!Turns, Blocks!Daemon
    <3> QED BY <3>1 DEF LogSteps, Said
  <2> QED BY <2>1, <2>2, <2>3, <2>4
<1>2. /\ wire \in [Blocks!Convs -> Seq(Said)] /\ doing \in [Blocks!Convs -> Doing]
      /\ s \in Blocks!Convs /\ s # Parent
      /\ Parent \in Blocks!Convs /\ \A k \in Subs : k \in Blocks!Convs /\ k # Parent
  BY Members DEF BlocksIInv, BlockTypes
<1>3. doing[Parent] = "thinking"
  BY <1>1 DEF BlocksIInv, InTurn, Blocks!Live
<1>4. /\ wire'[Parent] = wire[Parent] /\ doing'[Parent] = doing[Parent] /\ doing'[s] = to
      /\ \A k \in Subs \ {s} : doing'[k] = doing[k]
  BY <1>1, <1>2 DEF Blocks!Says
<1>5. InTurn'
  BY <1>1, <1>3, <1>4 DEF BlocksIInv, InTurn
<1>6. to \in Doing /\ to # "none"
  BY <1>1 DEF Doing
<1> QED BY <1>1, <1>2, <1>5, <1>6, Acts

LEMMA StepSpawns ==
  ASSUME Herd, BlocksIInv, NEW s \in family.subs, Blocks!Spawns(s)
  PROVE  BlocksIInv'
<1>1. /\ s \in Subs /\ s \in Blocks!Convs /\ s # Parent /\ Parent \in Blocks!Convs
      /\ family.background = FALSE
      /\ family.arts \subseteq Blocks!Artifact
      /\ \A k \in Subs : k \in Blocks!Convs /\ k # Parent /\ k # NoOne
  BY Members DEF Herd, BlocksIInv, BlockTypes
<1>2. PICK a \in family.arts : art' = [art EXCEPT ![s] = a]
  BY DEF Blocks!Spawns
<1>3. /\ doing[Parent] = "thinking" /\ doing[s] = "none" /\ doing' = [doing EXCEPT ![s] = "thinking"]
      /\ \A k \in Subs : doing[k] # "asking"
      /\ wire' = [wire EXCEPT ![Parent] = Append(@, "working"), ![s] = Append(@, "working")]
      /\ UNCHANGED <<family, log, row, blocker>>
  BY <1>1 DEF Blocks!Spawns, Blocks!Turns, Blocks!Daemon
<1>4. /\ wire \in [Blocks!Convs -> Seq(Said)] /\ log \in [Blocks!Convs -> Seq(LogSteps)]
      /\ doing \in [Blocks!Convs -> Doing]
      /\ art \in [Blocks!Convs -> Blocks!Artifact] /\ "working" \in Said
  BY DEF BlocksIInv, BlockTypes, Said
<1>5. /\ wire' \in [Blocks!Convs -> Seq(Said)] /\ wire'[Parent] = Append(wire[Parent], "working")
      /\ wire'[s] = Append(wire[s], "working") /\ wire'[s] # <<>> /\ wire'[Parent] # <<>>
      /\ \A k \in Blocks!Convs \ {s, Parent} : wire'[k] = wire[k]
  <2> DEFINE v == Append(wire[Parent], "working")
             w == Append(wire[s], "working")
  <2>1. v \in Seq(Said) /\ v # <<>> /\ w \in Seq(Said) /\ w # <<>>
    BY <1>1, <1>4, Longer
  <2>2. wire' = [wire EXCEPT ![Parent] = v, ![s] = w]
    BY <1>1, <1>3, <1>4
  <2> HIDE DEF v, w
  <2>3. wire' \in [Blocks!Convs -> Seq(Said)] /\ wire'[Parent] = v /\ wire'[s] = w
        /\ \A k \in Blocks!Convs \ {s, Parent} : wire'[k] = wire[k]
    BY <1>1, <1>4, <2>1, <2>2
  <2> QED BY <2>1, <2>3 DEF v, w
<1>6. /\ doing' \in [Blocks!Convs -> Doing] /\ doing'[s] = "thinking" /\ doing'[Parent] = "thinking"
      /\ \A k \in Blocks!Convs \ {s} : doing'[k] = doing[k]
  BY <1>1, <1>3, <1>4 DEF Doing
<1>7. art' \in [Blocks!Convs -> Blocks!Artifact] /\ art'[s] \in family.arts /\ \A k \in Blocks!Convs \ {s} : art'[k] = art[k]
  BY <1>1, <1>2, <1>4
<1>8. BlockTypes'
  BY <1>3, <1>5, <1>6, <1>7 DEF BlocksIInv, BlockTypes
<1>9. Truthful'
  <2>1. Speaks(wire'[s], "thinking") /\ Speaks(wire'[Parent], "thinking")
    <3>1. Speaks(wire[s], "none") /\ Speaks(wire[Parent], "thinking")
      BY <1>1, <1>3 DEF BlocksIInv, Truthful
    <3>2. \A w \in Seq(Said), d \in {"none", "thinking"} :
            Speaks(w, d) => Speaks(Append(w, "working"), "thinking")
      BY <1>4, SpeaksOn
    <3> QED BY <1>1, <1>4, <1>5, <3>1, <3>2
  <2>2. \A c \in Blocks!Convs : Speaks(wire'[c], doing'[c])
    BY <1>5, <1>6, <2>1 DEF BlocksIInv, Truthful
  <2>3. Wrote(log[s], "thinking")
    BY <1>1, <1>3 DEF BlocksIInv, Truthful, Wrote
  <2> QED BY <1>1, <1>3, <1>5, <1>6, <1>7, <2>2, <2>3 DEF BlocksIInv, Truthful
<1>10. InTurn'
  BY <1>1, <1>3, <1>6 DEF InTurn
<1>11. Noted'
  <2>1. blocker # s
    BY <1>1, <1>3 DEF BlocksIInv, Noted, Truthful
  <2>2. blocker # NoOne => blocker \in Blocks!Convs \ {s, Parent}
    BY <1>1, <2>1 DEF BlocksIInv, BlockTypes
  <2> QED BY <1>1, <1>3, <1>5, <1>6, <1>7, <2>2 DEF BlocksIInv, Noted, Known
<1> QED BY <1>8, <1>9, <1>10, <1>11 DEF BlocksIInv

-----------------------------------------------------------------------------
\* A hook is in.
LEMMA HookIn ==
  ASSUME Herd, BlocksIInv, NEW c \in Blocks!Convs, wire[c] # <<>>, wire' = [wire EXCEPT ![c] = Tail(@)],
         UNCHANGED <<family, art, doing, log>>,
         row' \in [state : Said, of : Blocks!Convs \cup {NoOne}, unread : BOOLEAN],
         blocker' \in Subs \cup {NoOne}
  PROVE  /\ BlockTypes' /\ Truthful' /\ InTurn'
         /\ wire'[c] = Tail(wire[c]) /\ \A k \in Blocks!Convs \ {c} : wire'[k] = wire[k]
         /\ Head(wire[c]) \in Said
         /\ Head(wire[c]) = "blocked" => doing[c] = "asking" /\ wire'[c] = <<>>
         /\ doing[c] = "asking" /\ wire'[c] = <<>> => Head(wire[c]) = "blocked"
<1>1. wire \in [Blocks!Convs -> Seq(Said)] /\ Speaks(wire[c], doing[c])
  BY DEF BlocksIInv, BlockTypes, Truthful
<1>2. wire' \in [Blocks!Convs -> Seq(Said)] /\ wire'[c] = Tail(wire[c])
      /\ (\A k \in Blocks!Convs \ {c} : wire'[k] = wire[k]) /\ Head(wire[c]) \in Said
  BY <1>1, Shorter
<1>3. /\ Speaks(wire'[c], doing[c])
      /\ Head(wire[c]) = "blocked" => doing[c] = "asking" /\ wire'[c] = <<>>
      /\ doing[c] = "asking" /\ wire'[c] = <<>> => Head(wire[c]) = "blocked"
  BY <1>1, <1>2, SpeaksLess
<1>4. \A k \in Blocks!Convs : wire[k] = <<>> => wire'[k] = <<>>
  BY <1>2
<1>5. BlockTypes'
  BY <1>2 DEF BlocksIInv, BlockTypes
<1>6. Truthful'
  BY <1>2, <1>3, <1>4, Members DEF BlocksIInv, Truthful
<1>7. InTurn'
  BY <1>4, Members DEF BlocksIInv, InTurn, Blocks!Live
<1> QED BY <1>2, <1>3, <1>5, <1>6, <1>7

LEMMA StepOwnEvent ==
  ASSUME Herd, BlocksIInv, Blocks!OwnEvent
  PROVE  BlocksIInv'
<1> DEFINE said == Head(wire[Parent])
<1>1. /\ wire[Parent] # <<>> /\ wire' = [wire EXCEPT ![Parent] = Tail(@)]
      /\ row' = [state |-> said, of |-> IF said = "blocked" THEN Parent ELSE NoOne,
                 unread |-> IF said = row.state THEN row.unread ELSE said # "working"]
      /\ UNCHANGED <<family, art, doing, log, blocker>>
  BY DEF Blocks!OwnEvent, Blocks!Shows
<1>2. said \in Said
  BY <1>1, Shorter, Members DEF BlocksIInv, BlockTypes
<1>3. row' \in [state : Said, of : Blocks!Convs \cup {NoOne}, unread : BOOLEAN]
  BY <1>1, <1>2, Members DEF BlocksIInv, BlockTypes
<1>4. blocker' \in Subs \cup {NoOne}
  BY <1>1 DEF BlocksIInv, BlockTypes
<1>5. /\ BlockTypes' /\ Truthful' /\ InTurn' /\ \A k \in Blocks!Convs \ {Parent} : wire'[k] = wire[k]
      /\ said = "blocked" => doing[Parent] = "asking" /\ wire'[Parent] = <<>>
      /\ doing[Parent] = "asking" /\ wire'[Parent] = <<>> => said = "blocked"
  BY <1>1, <1>3, <1>4, HookIn, Members
<1>6. \A s \in Subs : doing[s] # "asking"
  BY <1>1 DEF BlocksIInv, InTurn
<1>7. said = "blocked" => blocker = NoOne
  BY <1>5, <1>6 DEF BlocksIInv, InTurn, Noted, BlockTypes
<1>8. blocker # NoOne => blocker \in Blocks!Convs \ {Parent}
  BY Members DEF BlocksIInv, BlockTypes
<1>9. Noted'
  <2> HIDE DEF said
  <2>1. row'.state = said /\ (said = "blocked" => row'.of = Parent)
    BY <1>1
  <2>2. blocker # NoOne => Known(blocker) /\ (doing[blocker] = "asking" \/ wire'[blocker] # <<>>)
    BY <1>5, <1>8 DEF BlocksIInv, Noted
  <2> QED BY <1>1, <1>5, <1>6, <1>7, <2>1, <2>2 DEF Noted, Known
<1> QED BY <1>5, <1>9 DEF BlocksIInv

\* The hooks of a conversation that is not told to be a subagent.
LEMMA StepUnheard ==
  ASSUME Herd, BlocksIInv, NEW s \in Subs, wire[s] # <<>>, wire' = [wire EXCEPT ![s] = Tail(@)],
         UNCHANGED <<family, art, doing, log, row, blocker>>, ~Known(s)
  PROVE  BlocksIInv'
<1>1. /\ row' \in [state : Said, of : Blocks!Convs \cup {NoOne}, unread : BOOLEAN]
      /\ blocker' \in Subs \cup {NoOne} /\ s \in Blocks!Convs /\ s # Parent /\ Parent \in Blocks!Convs
  BY Members DEF BlocksIInv, BlockTypes
<1>2. BlockTypes' /\ Truthful' /\ InTurn' /\ \A k \in Blocks!Convs \ {s} : wire'[k] = wire[k]
  BY <1>1, HookIn
<1>3. blocker # NoOne => blocker \in Blocks!Convs \ {s}
  BY Members DEF BlocksIInv, Noted, BlockTypes
<1>4. Noted'
  BY <1>1, <1>2, <1>3, Members DEF BlocksIInv, Noted, Known
<1> QED BY <1>2, <1>4 DEF BlocksIInv

\* On disk, who runs and whose transcript ends with a request, asks.
LEMMA OnDisk ==
  ASSUME Herd, BlocksIInv, NEW s \in Subs, NEW t \in family.subs, s # t, s \in family.subs
  PROVE  /\ Known(s) /\ doing[s] = "asking" => s \in Blocks!AskingSiblings(t)
         /\ s \in Blocks!AskingSiblings(t) => Known(s) /\ doing[s] = "asking"
<1>1. \A a \in family.arts : ~a.annotated /\ a.record = "RUNNING"
  <2>1. family \in Families
    BY DEF BlocksIInv, BlockTypes
  <2>2. \/ \A a \in family.arts : ~a.annotated /\ a.record = "RUNNING"
        \/ \E k : family.subs = {k}
    BY <2>1 DEF Herd
  <2>3. ~\E k : family.subs = {k}
    OBVIOUS
  <2> QED BY <2>2, <2>3
<1>2. doing[s] # "none" => art[s] \in family.arts
  BY DEF BlocksIInv, Truthful
<1>3. doing[s] # "none" => Known(s) /\ art[s].record = "RUNNING"
  BY <1>1, <1>2, Members DEF Known, Blocks!IsSubagent, Blocks!ParentOf
<1>4. /\ log[s] \in Seq(LogSteps) /\ Wrote(log[s], doing[s]) /\ doing[s] \in Doing /\ doing[s] # "rest"
  BY Members DEF BlocksIInv, BlockTypes, Truthful
<1>5. doing[s] = "asking" => Blocks!AsksIn(log[s]) /\ Blocks!RunsOnDisk(s)
  <2> SUFFICES ASSUME doing[s] = "asking" PROVE Blocks!AsksIn(log[s]) /\ Blocks!RunsOnDisk(s)
    OBVIOUS
  <2>1. log[s] # <<>> /\ log[s][Len(log[s])] = "ask" /\ Len(log[s]) \in DOMAIN log[s]
        /\ \A k \in DOMAIN log[s] : k <= Len(log[s])
    BY <1>4 DEF Wrote
  <2> QED BY <1>3, <2>1 DEF Blocks!AsksIn, Blocks!RunsOnDisk
<1>6. Blocks!AsksIn(log[s]) /\ Blocks!RunsOnDisk(s) => doing[s] = "asking"
  <2> SUFFICES ASSUME Blocks!AsksIn(log[s]), Blocks!RunsOnDisk(s), doing[s] # "asking" PROVE FALSE
    OBVIOUS
  <2> DEFINE n == Len(log[s])
  <2>1. PICK i \in DOMAIN log[s] : /\ log[s][i] \in {"ask", "artifact"}
                                   /\ \A k \in DOMAIN log[s] : log[s][k] # "plain" => k <= i
    BY DEF Blocks!AsksIn
  <2>2. n \in DOMAIN log[s] /\ \A k \in DOMAIN log[s] : k \in Nat /\ k <= n
    BY <1>4, <2>1
  <2>3. log[s][n] \in {"answer", "tool"}
    BY <1>4, <2>1, <2>2 DEF Wrote, Blocks!RunsOnDisk, Doing
  <2>4. i = n
    BY <2>1, <2>2, <2>3
  <2> QED BY <2>1, <2>3, <2>4
<1>7. s \in Blocks!AskingSiblings(t) <=> Blocks!RunsOnDisk(s) /\ Blocks!AsksIn(log[s])
  BY DEF Blocks!AskingSiblings, Blocks!DiskRunning
<1> QED BY <1>3, <1>5, <1>6, <1>7 DEF Blocks!RunsOnDisk

LEMMA StepSubagentEvent ==
  ASSUME Herd, BlocksIInv, NEW t \in Subs, Blocks!SubagentEvent(t)
  PROVE  BlocksIInv'
<1> DEFINE said == Head(wire[t])
<1>1. /\ wire[t] # <<>> /\ Blocks!IsSubagent(art[t]) /\ wire' = [wire EXCEPT ![t] = Tail(@)]
      /\ UNCHANGED <<family, art, doing, log>>
  BY DEF Blocks!SubagentEvent
<1>2. CASE Blocks!ParentOf(art[t]) = NoOne
  <2>1. UNCHANGED <<row, blocker>>
    BY <1>2 DEF Blocks!SubagentEvent
  <2> QED BY <1>1, <1>2, <2>1, StepUnheard DEF Known
<1>3. CASE Blocks!ParentOf(art[t]) # NoOne
  <2>0. /\ Known(t) /\ t \in Blocks!Convs /\ t # Parent /\ t # NoOne /\ Parent \in Blocks!Convs
        /\ Parent # NoOne
        /\ \A s \in Subs : s \in Blocks!Convs /\ s # NoOne /\ s # Parent
        /\ t \in family.subs /\ doing[Parent] = "thinking" /\ row.unread \in BOOLEAN
        /\ blocker \in Subs \cup {NoOne}
    BY <1>1, <1>3, Members DEF Known, BlocksIInv, Truthful, InTurn, BlockTypes
  <2>1. ASSUME row' \in [state : Said, of : Blocks!Convs \cup {NoOne}, unread : BOOLEAN],
               blocker' \in Subs \cup {NoOne},
               blocker' # NoOne =>
                 /\ Known(blocker')
                 /\ blocker' # t \/ said = "blocked"
                 /\ doing[blocker'] = "asking" \/ wire[blocker'] # <<>>,
               row'.state = "blocked" => blocker' # NoOne /\ row'.of = blocker',
               \A s \in Subs : doing[s] = "asking" /\ wire'[s] = <<>> /\ Known(s) =>
                 row'.state = "blocked" /\ blocker' # NoOne
        PROVE  BlocksIInv'
    <3>1. /\ BlockTypes' /\ Truthful' /\ InTurn' /\ \A k \in Blocks!Convs \ {t} : wire'[k] = wire[k]
          /\ said = "blocked" => doing[t] = "asking"
      BY <1>1, <2>0, <2>1, HookIn
    <3>2. Noted'
      <4> HIDE DEF said
      <4>1. blocker' # NoOne => doing[blocker'] = "asking" \/ wire'[blocker'] # <<>>
        BY <2>0, <2>1, <3>1
      <4> QED BY <1>1, <2>0, <2>1, <4>1 DEF Noted, Known
    <3> QED BY <3>1, <3>2 DEF BlocksIInv
  <2>2. /\ wire'[t] = Tail(wire[t]) /\ (\A k \in Blocks!Convs \ {t} : wire'[k] = wire[k])
        /\ doing[t] = "asking" /\ wire'[t] = <<>> => said = "blocked"
        /\ said = "blocked" => doing[t] = "asking"
    <3>1. wire \in [Blocks!Convs -> Seq(Said)] /\ Speaks(wire[t], doing[t])
      BY <2>0 DEF BlocksIInv, BlockTypes, Truthful
    <3> QED BY <1>1, <2>0, <3>1, SpeaksLess
  <2> HIDE DEF said
  <2>3. CASE said = "blocked"
    <3>1. row' = [state |-> "blocked", of |-> t, unread |-> row.unread \/ row.state # "blocked"]
          /\ blocker' = t
      BY <1>3, <2>3 DEF Blocks!SubagentEvent, Blocks!Shows, said
    <3>2. row' \in [state : Said, of : Blocks!Convs \cup {NoOne}, unread : BOOLEAN]
          /\ row'.state = "blocked" /\ row'.of = t
      BY <2>0, <3>1 DEF Said
    <3> QED BY <2>0, <2>1, <2>2, <2>3, <3>1, <3>2
  <2>4. CASE said # "blocked" /\ Blocks!StillNoted(t)
    <3>1. UNCHANGED <<row, blocker>>
      BY <1>3, <2>4 DEF Blocks!SubagentEvent, said
    <3>2. row.state = "blocked" /\ blocker # NoOne /\ blocker # t
      BY <2>4 DEF Blocks!StillNoted
    <3>3. Known(blocker) /\ (doing[blocker] = "asking" \/ wire[blocker] # <<>>) /\ row.of = blocker
          /\ row \in [state : Said, of : Blocks!Convs \cup {NoOne}, unread : BOOLEAN]
      BY <3>2 DEF BlocksIInv, Noted, BlockTypes
    <3> QED BY <2>0, <2>1, <3>1, <3>2, <3>3
  <2>5. CASE said # "blocked" /\ ~Blocks!StillNoted(t) /\ Blocks!AskingSiblings(t) # {}
    <3>1. PICK k \in Blocks!AskingSiblings(t) :
            row' = [state |-> "blocked", of |-> k, unread |-> row.unread] /\ blocker' = k
      BY <1>3, <2>5 DEF Blocks!SubagentEvent, Blocks!Shows, said
    <3>2. k \in family.subs /\ k \in Subs /\ k # t
      BY <3>1 DEF Blocks!AskingSiblings, Blocks!DiskRunning, BlocksIInv, BlockTypes, Herd
    <3>3. Known(k) /\ doing[k] = "asking"
      BY <2>0, <3>1, <3>2, OnDisk
    <3>4. row' \in [state : Said, of : Blocks!Convs \cup {NoOne}, unread : BOOLEAN]
          /\ row'.state = "blocked" /\ row'.of = k
      BY <2>0, <3>1, <3>2 DEF Said
    <3> QED BY <2>0, <2>1, <3>1, <3>2, <3>3, <3>4
  <2>6. CASE said # "blocked" /\ ~Blocks!StillNoted(t) /\ Blocks!AskingSiblings(t) = {}
    <3>1. /\ blocker' = NoOne
          /\ \/ row' = [state |-> "working", of |-> NoOne, unread |-> FALSE]
             \/ row' = row /\ row.state # "blocked"
      BY <1>3, <2>6 DEF Blocks!SubagentEvent, Blocks!Shows, said
    <3>2. row' \in [state : Said, of : Blocks!Convs \cup {NoOne}, unread : BOOLEAN]
          /\ row'.state # "blocked"
      <4>1. row \in [state : Said, of : Blocks!Convs \cup {NoOne}, unread : BOOLEAN]
        BY DEF BlocksIInv, BlockTypes
      <4>2. [state |-> "working", of |-> NoOne, unread |-> FALSE]
              \in [state : Said, of : Blocks!Convs \cup {NoOne}, unread : BOOLEAN]
        BY DEF Said
      <4>3. CASE row' = [state |-> "working", of |-> NoOne, unread |-> FALSE]
        BY <4>2, <4>3
      <4>4. CASE row' = row /\ row.state # "blocked"
        BY <4>1, <4>4
      <4> QED BY <3>1, <4>3, <4>4
    <3>3. \A s \in Subs : ~(doing[s] = "asking" /\ wire'[s] = <<>> /\ Known(s))
      <4> SUFFICES ASSUME NEW s \in Subs, doing[s] = "asking", wire'[s] = <<>>, Known(s) PROVE FALSE
        OBVIOUS
      <4>1. s # t
        BY <2>2, <2>6
      <4>2. s \in family.subs
        BY DEF BlocksIInv, Truthful
      <4> QED BY <2>0, <2>6, <4>1, <4>2, OnDisk
    <3> QED BY <2>1, <3>1, <3>2, <3>3
  <2> QED BY <2>3, <2>4, <2>5, <2>6
<1> QED BY <1>2, <1>3

-----------------------------------------------------------------------------
LEMMA BlocksInitially ==
  ASSUME Herd, Blocks!Init
  PROVE  BlocksIInv
<1>1. BlockTypes
  BY Members DEF Blocks!Init, BlockTypes, Doing, Said, Blocks!Artifact
<1>2. Truthful
  BY Members DEF Blocks!Init, Truthful, Speaks, Wrote
<1>3. InTurn
  BY Members DEF Blocks!Init, InTurn, Blocks!Live
<1>4. Noted
  BY Members DEF Blocks!Init, Noted
<1> QED BY <1>1, <1>2, <1>3, <1>4 DEF BlocksIInv

LEMMA BlocksInductive ==
  ASSUME Herd, BlocksIInv, [Blocks!Next]_(Blocks!vars)
  PROVE  BlocksIInv'
<1>1. CASE UNCHANGED Blocks!vars
  BY <1>1 DEF Blocks!vars, BlocksIInv, BlockTypes, Truthful, InTurn, Noted, Known, Blocks!Live
<1>2. CASE Blocks!ParentPrompted \/ Blocks!OwnEvent
  BY <1>2, StepParent, StepOwnEvent
<1>3. CASE \E s \in family.subs : Blocks!Spawns(s)
  BY <1>3, StepSpawns
<1>4. CASE \E c \in Blocks!Convs : Blocks!Asks(c) \/ Blocks!Answered(c) \/ Blocks!UsesTool(c) \/ Blocks!Finishes(c)
  BY <1>4, StepParent, StepSub, Members
<1>5. CASE \E s \in Subs : Blocks!SubagentEvent(s)
  BY <1>5, StepSubagentEvent
<1>6. CASE \E s \in Subs : Blocks!UnknownEvent(s)
  BY <1>6, StepUnheard DEF Blocks!UnknownEvent, Known, Blocks!Daemon
<1> QED BY <1>1, <1>2, <1>3, <1>4, <1>5, <1>6 DEF Blocks!Next

LEMMA BlocksAlways ==
  ASSUME Herd
  PROVE  Blocks!Spec => []BlocksIInv
<1>1. Blocks!Init => BlocksIInv
  BY BlocksInitially
<1>2. BlocksIInv /\ [Blocks!Next]_(Blocks!vars) => BlocksIInv'
  BY BlocksInductive
<1> QED BY <1>1, <1>2, PTL DEF Blocks!Spec

\* Rows name who asks, and only conversations there are.
THEOREM BlockTyping ==
  ASSUME Herd
  PROVE  Blocks!Spec => []Blocks!TypeOK
<1>1. BlocksIInv => Blocks!TypeOK
  BY DEF BlocksIInv, BlockTypes, Blocks!TypeOK, Said, Doing
<1> QED BY <1>1, BlocksAlways, PTL

\* When all that was said is handled, the row is blocked exactly if the
\* parent or a subagent it knows of waits for the user, however their hooks
\* overtake each other (processParsedHookEvent).
THEOREM Exact ==
  ASSUME Herd
  PROVE  Blocks!Spec => []Blocks!BlockExact
<1>1. BlocksIInv => Blocks!BlockExact
  <2> SUFFICES ASSUME BlocksIInv, Blocks!Quiet
               PROVE  IF Blocks!Waiting = {} THEN row.state # "blocked" /\ blocker = NoOne
                      ELSE row.state = "blocked" /\ row.of \in Blocks!Waiting
    BY DEF Blocks!BlockExact
  <2>1. /\ \A c \in Blocks!Convs : wire[c] = <<>>
        /\ \A c \in Blocks!Convs : c = Parent \/ c \in Subs
        /\ Parent \in Blocks!Convs /\ \A s \in Subs : s \in Blocks!Convs
    BY Members DEF Blocks!Quiet
  <2>2. \A c \in Blocks!Convs : c \in Blocks!Waiting <=> doing[c] = "asking" /\ (c = Parent \/ Known(c))
    BY DEF Blocks!Waiting, Known
  <2>3. blocker # NoOne => blocker \in Subs /\ blocker \in Blocks!Waiting
    BY <2>1, <2>2 DEF BlocksIInv, Noted, BlockTypes
  <2>4. row.state = "blocked" => row.of \in Blocks!Waiting
    BY <2>1, <2>2, <2>3 DEF BlocksIInv, Noted
  <2>5. Blocks!Waiting # {} => row.state = "blocked"
    BY <2>1, <2>2 DEF BlocksIInv, Noted, Blocks!Waiting
  <2> QED BY <2>3, <2>4, <2>5
<1> QED BY <1>1, BlocksAlways, PTL

-----------------------------------------------------------------------------
(***************************************************************************)
(* What an inspection of the pane finds.                                   *)
(***************************************************************************)

Verdicts == {Inspector!Keep} \cup {Inspector!To(state) : state \in {"working", "idle", "ended"}}
                   \cup {Inspector!BlockOn(kind) : kind \in Inspector!Waits}
Rules == [when : BOOLEAN, then : Verdicts]

\* A pane shows what the agent draws, below at most one line of older text.
Drawing(pane, old, live) ==
  /\ old \in {<<>>} \cup {<<q>> : q \in Quoted[program]} /\ live \in Inspector!Live(program, does)
  /\ pane = old \o live

Seen ==
  /\ program \in Programs /\ does \in Inspector!Doings(program)
  /\ \E old, live : Drawing(screen.pane, old, live)
  /\ screen.entry \in Inspector!Entries(program, does)
  /\ screen.after \in BOOLEAN /\ screen.answered \in BOOLEAN /\ screen.young \in BOOLEAN
  /\ screen.task = FALSE /\ screen.alive = (does # "gone")
  /\ screen.subs = IF does \in {"subagent asks", "subagent runs"} THEN "running" ELSE "none"

Row ==
  /\ shown.state \in {"working", "blocked", "idle", "ended"}
  /\ shown.block \in Inspector!Waits \cup {"none"} /\ shown.fresh \in BOOLEAN
  /\ (shown.block # "none") = (shown.state = "blocked")
  /\ shown.fresh => shown.state = "blocked"
  /\ shown = [state |-> shown.state, block |-> shown.block, fresh |-> shown.fresh]

-----------------------------------------------------------------------------

\* The first rule that applies decides.
LEMMA FirstRule ==
  ASSUME NEW s \in Seq(Rules), NEW i \in DOMAIN s, s[i].when, \A k \in 1 .. i - 1 : ~s[k].when
  PROVE  Inspector!Decide(s) = s[i].then
<1>1. DOMAIN s = 1 .. Len(s) /\ Len(s) \in Nat
  OBVIOUS
<1> DEFINE hits == {k \in DOMAIN s : s[k].when}
           c == CHOOSE k \in hits : \A m \in hits : k <= m
<1>2. i \in hits /\ \A m \in hits : i <= m
  BY <1>1
<1>3. c \in hits /\ \A m \in hits : c <= m
  BY <1>2
<1>4. c = i
  BY <1>1, <1>2, <1>3
<1> QED BY <1>2, <1>4 DEF Inspector!Decide

LEMMA NoRule ==
  ASSUME NEW s \in Seq(Rules), \A i \in DOMAIN s : ~s[i].when
  PROVE  Inspector!Decide(s) = Inspector!Keep
BY DEF Inspector!Decide

\* A table after another one.
Applies(s) == \E i \in DOMAIN s : s[i].when

LEMMA FirstThatApplies ==
  ASSUME NEW s \in Seq(Rules), Applies(s)
  PROVE  \E i \in DOMAIN s : /\ s[i].when /\ \A k \in 1 .. i - 1 : k \in DOMAIN s /\ ~s[k].when
                             /\ Inspector!Decide(s) = s[i].then
<1> DEFINE hits == {i \in DOMAIN s : s[i].when}
<1>1. DOMAIN s = 1 .. Len(s) /\ Len(s) \in Nat
  OBVIOUS
<1>2. hits \in SUBSET Nat /\ hits # {}
  BY <1>1 DEF Applies
<1>3. PICK i \in hits : \A k \in hits : i <= k
  BY <1>2, Least
<1>4. i \in DOMAIN s /\ s[i].when /\ \A k \in 1 .. i - 1 : k \in DOMAIN s /\ ~s[k].when
  BY <1>1, <1>3
<1>5. Inspector!Decide(s) = s[i].then
  BY <1>4, FirstRule
<1> QED BY <1>4, <1>5

LEMMA TwoTables ==
  ASSUME NEW a \in Seq(Rules), NEW b \in Seq(Rules)
  PROVE  /\ a \o b \in Seq(Rules)
         /\ Applies(a \o b) <=> Applies(a) \/ Applies(b)
         /\ Inspector!Decide(a \o b) = IF Applies(a) THEN Inspector!Decide(a) ELSE Inspector!Decide(b)
<1> DEFINE s == a \o b
<1>1. /\ s \in Seq(Rules) /\ Len(s) = Len(a) + Len(b) /\ Len(a) \in Nat /\ Len(b) \in Nat
      /\ DOMAIN s = 1 .. Len(s) /\ DOMAIN a = 1 .. Len(a) /\ DOMAIN b = 1 .. Len(b)
      /\ \A i \in DOMAIN a : s[i] = a[i]
      /\ \A i \in DOMAIN b : s[Len(a) + i] = b[i]
  OBVIOUS
<1> HIDE DEF s
<1>2. ASSUME NEW k \in DOMAIN s, k > Len(a)
      PROVE  k - Len(a) \in DOMAIN b /\ s[k] = b[k - Len(a)]
  <2>1. k - Len(a) \in DOMAIN b /\ k = Len(a) + (k - Len(a))
    BY <1>1, <1>2
  <2> QED BY <1>1, <2>1
<1>3. Applies(s) <=> Applies(a) \/ Applies(b)
  <2>1. ASSUME NEW i \in DOMAIN s, s[i].when PROVE Applies(a) \/ Applies(b)
    <3>1. CASE i <= Len(a)
      BY <1>1, <2>1, <3>1 DEF Applies
    <3>2. CASE i > Len(a)
      BY <1>2, <2>1, <3>2 DEF Applies
    <3> QED BY <1>1, <3>1, <3>2
  <2>2. ASSUME NEW i \in DOMAIN a, a[i].when PROVE Applies(s)
    BY <1>1, <2>2 DEF Applies
  <2>3. ASSUME NEW i \in DOMAIN b, b[i].when PROVE Applies(s)
    <3>1. Len(a) + i \in DOMAIN s /\ s[Len(a) + i] = b[i]
      BY <1>1
    <3> QED BY <2>3, <3>1 DEF Applies
  <2> QED BY <2>1, <2>2, <2>3 DEF Applies
<1>4. ASSUME Applies(a) PROVE Inspector!Decide(s) = Inspector!Decide(a)
  <2>1. PICK i \in DOMAIN a : /\ a[i].when /\ \A k \in 1 .. i - 1 : k \in DOMAIN a /\ ~a[k].when
                              /\ Inspector!Decide(a) = a[i].then
    BY <1>4, FirstThatApplies
  <2>2. i \in DOMAIN a /\ i \in DOMAIN s /\ s[i] = a[i]
    BY <1>1, <2>1
  <2>3. \A k \in 1 .. i - 1 : s[k] = a[k] /\ ~s[k].when
    BY <1>1, <2>1
  <2>4. i \in DOMAIN s /\ s[i].when /\ (\A k \in 1 .. i - 1 : ~s[k].when)
    BY <2>1, <2>2, <2>3
  <2> QED BY <1>1, <2>1, <2>2, <2>4, FirstRule
<1>5. ASSUME ~Applies(a), Applies(b) PROVE Inspector!Decide(s) = Inspector!Decide(b)
  <2>1. PICK i \in DOMAIN b : /\ b[i].when /\ \A k \in 1 .. i - 1 : k \in DOMAIN b /\ ~b[k].when
                              /\ Inspector!Decide(b) = b[i].then
    BY <1>5, FirstThatApplies
  <2>2. Len(a) + i \in DOMAIN s /\ s[Len(a) + i] = b[i]
    <3>1. i \in DOMAIN b
      BY <2>1
    <3> QED BY <1>1, <3>1
  <2>3. ASSUME NEW k \in 1 .. (Len(a) + i) - 1 PROVE ~s[k].when
    <3>1. CASE k <= Len(a)
      BY <1>1, <1>5, <3>1 DEF Applies
    <3>2. CASE k > Len(a)
      <4>1. k \in DOMAIN s /\ k - Len(a) \in 1 .. i - 1
        BY <1>1, <3>2
      <4> QED BY <1>2, <2>1, <3>2, <4>1
    <3> QED BY <1>1, <3>1, <3>2
  <2>4. s[Len(a) + i].when /\ s[Len(a) + i].then = b[i].then
    BY <2>1, <2>2
  <2>5. Inspector!Decide(s) = s[Len(a) + i].then
    BY <1>1, <2>2, <2>3, <2>4, FirstRule
  <2> QED BY <2>1, <2>4, <2>5
<1>6. ASSUME ~Applies(a), ~Applies(b) PROVE Inspector!Decide(s) = Inspector!Decide(b)
  <2>1. Inspector!Decide(s) = Inspector!Keep /\ Inspector!Decide(b) = Inspector!Keep
    BY <1>1, <1>3, <1>6, NoRule DEF Applies
  <2> QED BY <2>1
<1> QED BY <1>1, <1>3, <1>4, <1>5, <1>6 DEF s

\* What a table of so many rules decides, and whether one of them applies.
LEMMA TableOf1 ==
  ASSUME NEW a \in Rules
  PROVE  /\ <<a>> \in Seq(Rules)
         /\ Applies(<<a>>) <=> a.when
         /\ Inspector!Decide(<<a>>) =
                IF a.when THEN a.then ELSE Inspector!Keep
<1> DEFINE s == <<a>>
<1>1. s \in Seq(Rules) /\ DOMAIN s = 1 .. 1 /\ s[1] = a
  OBVIOUS
<1> HIDE DEF s
<1>2. ASSUME a.when PROVE Applies(s) /\ Inspector!Decide(s) = a.then
  <2>1. 1 \in DOMAIN s /\ s[1].when /\ \A k \in 1 .. 1 - 1 : ~s[k].when
    BY <1>1, <1>2
  <2> QED BY <1>1, <2>1, FirstRule DEF Applies
<1>3. ASSUME ~a.when PROVE ~Applies(s) /\ Inspector!Decide(s) = Inspector!Keep
  <2>1. \A k \in DOMAIN s : ~s[k].when
    BY <1>1, <1>3
  <2> QED BY <1>1, <2>1, NoRule DEF Applies
<1> QED BY <1>1, <1>2, <1>3 DEF s

LEMMA TableOf2 ==
  ASSUME NEW a \in Rules, NEW b \in Rules
  PROVE  /\ <<a, b>> \in Seq(Rules)
         /\ Applies(<<a, b>>) <=> a.when \/ b.when
         /\ Inspector!Decide(<<a, b>>) =
                IF a.when THEN a.then
                ELSE IF b.when THEN b.then ELSE Inspector!Keep
<1> DEFINE s == <<a, b>>
<1>1. s \in Seq(Rules) /\ DOMAIN s = 1 .. 2 /\ s[1] = a /\ s[2] = b
  OBVIOUS
<1> HIDE DEF s
<1>2. ASSUME a.when PROVE Applies(s) /\ Inspector!Decide(s) = a.then
  <2>1. 1 \in DOMAIN s /\ s[1].when /\ \A k \in 1 .. 1 - 1 : ~s[k].when
    BY <1>1, <1>2
  <2> QED BY <1>1, <2>1, FirstRule DEF Applies
<1>3. ASSUME b.when, ~a.when PROVE Applies(s) /\ Inspector!Decide(s) = b.then
  <2>1. 2 \in DOMAIN s /\ s[2].when /\ \A k \in 1 .. 2 - 1 : ~s[k].when
    BY <1>1, <1>3
  <2> QED BY <1>1, <2>1, FirstRule DEF Applies
<1>4. ASSUME ~a.when, ~b.when PROVE ~Applies(s) /\ Inspector!Decide(s) = Inspector!Keep
  <2>1. \A k \in DOMAIN s : ~s[k].when
    BY <1>1, <1>4
  <2> QED BY <1>1, <2>1, NoRule DEF Applies
<1> QED BY <1>1, <1>2, <1>3, <1>4 DEF s

LEMMA TableOf3 ==
  ASSUME NEW a \in Rules, NEW b \in Rules, NEW c \in Rules
  PROVE  /\ <<a, b, c>> \in Seq(Rules)
         /\ Applies(<<a, b, c>>) <=> a.when \/ b.when \/ c.when
         /\ Inspector!Decide(<<a, b, c>>) =
                IF a.when THEN a.then
                ELSE IF b.when THEN b.then
                ELSE IF c.when THEN c.then ELSE Inspector!Keep
<1> DEFINE s == <<a, b, c>>
<1>1. s \in Seq(Rules) /\ DOMAIN s = 1 .. 3 /\ s[1] = a /\ s[2] = b /\ s[3] = c
  OBVIOUS
<1> HIDE DEF s
<1>2. ASSUME a.when PROVE Applies(s) /\ Inspector!Decide(s) = a.then
  <2>1. 1 \in DOMAIN s /\ s[1].when /\ \A k \in 1 .. 1 - 1 : ~s[k].when
    BY <1>1, <1>2
  <2> QED BY <1>1, <2>1, FirstRule DEF Applies
<1>3. ASSUME b.when, ~a.when PROVE Applies(s) /\ Inspector!Decide(s) = b.then
  <2>1. 2 \in DOMAIN s /\ s[2].when /\ \A k \in 1 .. 2 - 1 : ~s[k].when
    BY <1>1, <1>3
  <2> QED BY <1>1, <2>1, FirstRule DEF Applies
<1>4. ASSUME c.when, ~a.when, ~b.when PROVE Applies(s) /\ Inspector!Decide(s) = c.then
  <2>1. 3 \in DOMAIN s /\ s[3].when /\ \A k \in 1 .. 3 - 1 : ~s[k].when
    BY <1>1, <1>4
  <2> QED BY <1>1, <2>1, FirstRule DEF Applies
<1>5. ASSUME ~a.when, ~b.when, ~c.when PROVE ~Applies(s) /\ Inspector!Decide(s) = Inspector!Keep
  <2>1. \A k \in DOMAIN s : ~s[k].when
    BY <1>1, <1>5
  <2> QED BY <1>1, <2>1, NoRule DEF Applies
<1> QED BY <1>1, <1>2, <1>3, <1>4, <1>5 DEF s

LEMMA TableOf5 ==
  ASSUME NEW a \in Rules, NEW b \in Rules, NEW c \in Rules, NEW d \in Rules, NEW e \in Rules
  PROVE  /\ <<a, b, c, d, e>> \in Seq(Rules)
         /\ Applies(<<a, b, c, d, e>>) <=> a.when \/ b.when \/ c.when \/ d.when \/ e.when
         /\ Inspector!Decide(<<a, b, c, d, e>>) =
                IF a.when THEN a.then
                ELSE IF b.when THEN b.then
                ELSE IF c.when THEN c.then
                ELSE IF d.when THEN d.then
                ELSE IF e.when THEN e.then ELSE Inspector!Keep
<1> DEFINE s == <<a, b, c, d, e>>
<1>1. s \in Seq(Rules) /\ DOMAIN s = 1 .. 5 /\ s[1] = a /\ s[2] = b /\ s[3] = c /\ s[4] = d /\ s[5] = e
  OBVIOUS
<1> HIDE DEF s
<1>2. ASSUME a.when PROVE Applies(s) /\ Inspector!Decide(s) = a.then
  <2>1. 1 \in DOMAIN s /\ s[1].when /\ \A k \in 1 .. 1 - 1 : ~s[k].when
    BY <1>1, <1>2
  <2> QED BY <1>1, <2>1, FirstRule DEF Applies
<1>3. ASSUME b.when, ~a.when PROVE Applies(s) /\ Inspector!Decide(s) = b.then
  <2>1. 2 \in DOMAIN s /\ s[2].when /\ \A k \in 1 .. 2 - 1 : ~s[k].when
    BY <1>1, <1>3
  <2> QED BY <1>1, <2>1, FirstRule DEF Applies
<1>4. ASSUME c.when, ~a.when, ~b.when PROVE Applies(s) /\ Inspector!Decide(s) = c.then
  <2>1. 3 \in DOMAIN s /\ s[3].when /\ \A k \in 1 .. 3 - 1 : ~s[k].when
    BY <1>1, <1>4
  <2> QED BY <1>1, <2>1, FirstRule DEF Applies
<1>5. ASSUME d.when, ~a.when, ~b.when, ~c.when PROVE Applies(s) /\ Inspector!Decide(s) = d.then
  <2>1. 4 \in DOMAIN s /\ s[4].when /\ \A k \in 1 .. 4 - 1 : ~s[k].when
    BY <1>1, <1>5
  <2> QED BY <1>1, <2>1, FirstRule DEF Applies
<1>6. ASSUME e.when, ~a.when, ~b.when, ~c.when, ~d.when PROVE Applies(s) /\ Inspector!Decide(s) = e.then
  <2>1. 5 \in DOMAIN s /\ s[5].when /\ \A k \in 1 .. 5 - 1 : ~s[k].when
    BY <1>1, <1>6
  <2> QED BY <1>1, <2>1, FirstRule DEF Applies
<1>7. ASSUME ~a.when, ~b.when, ~c.when, ~d.when, ~e.when PROVE ~Applies(s) /\ Inspector!Decide(s) = Inspector!Keep
  <2>1. \A k \in DOMAIN s : ~s[k].when
    BY <1>1, <1>7
  <2> QED BY <1>1, <2>1, NoRule DEF Applies
<1> QED BY <1>1, <1>2, <1>3, <1>4, <1>5, <1>6, <1>7 DEF s

LEMMA TableOf6 ==
  ASSUME NEW a \in Rules, NEW b \in Rules, NEW c \in Rules, NEW d \in Rules, NEW e \in Rules,
         NEW f \in Rules
  PROVE  /\ <<a, b, c, d, e, f>> \in Seq(Rules)
         /\ Applies(<<a, b, c, d, e, f>>) <=> a.when \/ b.when \/ c.when \/ d.when \/ e.when \/ f.when
         /\ Inspector!Decide(<<a, b, c, d, e, f>>) =
                IF a.when THEN a.then
                ELSE IF b.when THEN b.then
                ELSE IF c.when THEN c.then
                ELSE IF d.when THEN d.then
                ELSE IF e.when THEN e.then
                ELSE IF f.when THEN f.then ELSE Inspector!Keep
<1> DEFINE s == <<a, b, c, d, e, f>>
<1>1. s \in Seq(Rules) /\ DOMAIN s = 1 .. 6 /\ s[1] = a /\ s[2] = b /\ s[3] = c /\ s[4] = d /\ s[5] = e /\ s[6] = f
  OBVIOUS
<1> HIDE DEF s
<1>2. ASSUME a.when PROVE Applies(s) /\ Inspector!Decide(s) = a.then
  <2>1. 1 \in DOMAIN s /\ s[1].when /\ \A k \in 1 .. 1 - 1 : ~s[k].when
    BY <1>1, <1>2
  <2> QED BY <1>1, <2>1, FirstRule DEF Applies
<1>3. ASSUME b.when, ~a.when PROVE Applies(s) /\ Inspector!Decide(s) = b.then
  <2>1. 2 \in DOMAIN s /\ s[2].when /\ \A k \in 1 .. 2 - 1 : ~s[k].when
    BY <1>1, <1>3
  <2> QED BY <1>1, <2>1, FirstRule DEF Applies
<1>4. ASSUME c.when, ~a.when, ~b.when PROVE Applies(s) /\ Inspector!Decide(s) = c.then
  <2>1. 3 \in DOMAIN s /\ s[3].when /\ \A k \in 1 .. 3 - 1 : ~s[k].when
    BY <1>1, <1>4
  <2> QED BY <1>1, <2>1, FirstRule DEF Applies
<1>5. ASSUME d.when, ~a.when, ~b.when, ~c.when PROVE Applies(s) /\ Inspector!Decide(s) = d.then
  <2>1. 4 \in DOMAIN s /\ s[4].when /\ \A k \in 1 .. 4 - 1 : ~s[k].when
    BY <1>1, <1>5
  <2> QED BY <1>1, <2>1, FirstRule DEF Applies
<1>6. ASSUME e.when, ~a.when, ~b.when, ~c.when, ~d.when PROVE Applies(s) /\ Inspector!Decide(s) = e.then
  <2>1. 5 \in DOMAIN s /\ s[5].when /\ \A k \in 1 .. 5 - 1 : ~s[k].when
    BY <1>1, <1>6
  <2> QED BY <1>1, <2>1, FirstRule DEF Applies
<1>7. ASSUME f.when, ~a.when, ~b.when, ~c.when, ~d.when, ~e.when PROVE Applies(s) /\ Inspector!Decide(s) = f.then
  <2>1. 6 \in DOMAIN s /\ s[6].when /\ \A k \in 1 .. 6 - 1 : ~s[k].when
    BY <1>1, <1>7
  <2> QED BY <1>1, <2>1, FirstRule DEF Applies
<1>8. ASSUME ~a.when, ~b.when, ~c.when, ~d.when, ~e.when, ~f.when PROVE ~Applies(s) /\ Inspector!Decide(s) = Inspector!Keep
  <2>1. \A k \in DOMAIN s : ~s[k].when
    BY <1>1, <1>8
  <2> QED BY <1>1, <2>1, NoRule DEF Applies
<1> QED BY <1>1, <1>2, <1>3, <1>4, <1>5, <1>6, <1>7, <1>8 DEF s

LEMMA TableOf7 ==
  ASSUME NEW a \in Rules, NEW b \in Rules, NEW c \in Rules, NEW d \in Rules, NEW e \in Rules,
         NEW f \in Rules, NEW g \in Rules
  PROVE  /\ <<a, b, c, d, e, f, g>> \in Seq(Rules)
         /\ Applies(<<a, b, c, d, e, f, g>>) <=> a.when \/ b.when \/ c.when \/ d.when \/ e.when \/ f.when \/ g.when
         /\ Inspector!Decide(<<a, b, c, d, e, f, g>>) =
                IF a.when THEN a.then
                ELSE IF b.when THEN b.then
                ELSE IF c.when THEN c.then
                ELSE IF d.when THEN d.then
                ELSE IF e.when THEN e.then
                ELSE IF f.when THEN f.then
                ELSE IF g.when THEN g.then ELSE Inspector!Keep
<1> DEFINE s == <<a, b, c, d, e, f, g>>
<1>1. s \in Seq(Rules) /\ DOMAIN s = 1 .. 7 /\ s[1] = a /\ s[2] = b /\ s[3] = c /\ s[4] = d /\ s[5] = e /\ s[6] = f /\ s[7] = g
  OBVIOUS
<1> HIDE DEF s
<1>2. ASSUME a.when PROVE Applies(s) /\ Inspector!Decide(s) = a.then
  <2>1. 1 \in DOMAIN s /\ s[1].when /\ \A k \in 1 .. 1 - 1 : ~s[k].when
    BY <1>1, <1>2
  <2> QED BY <1>1, <2>1, FirstRule DEF Applies
<1>3. ASSUME b.when, ~a.when PROVE Applies(s) /\ Inspector!Decide(s) = b.then
  <2>1. 2 \in DOMAIN s /\ s[2].when /\ \A k \in 1 .. 2 - 1 : ~s[k].when
    BY <1>1, <1>3
  <2> QED BY <1>1, <2>1, FirstRule DEF Applies
<1>4. ASSUME c.when, ~a.when, ~b.when PROVE Applies(s) /\ Inspector!Decide(s) = c.then
  <2>1. 3 \in DOMAIN s /\ s[3].when /\ \A k \in 1 .. 3 - 1 : ~s[k].when
    BY <1>1, <1>4
  <2> QED BY <1>1, <2>1, FirstRule DEF Applies
<1>5. ASSUME d.when, ~a.when, ~b.when, ~c.when PROVE Applies(s) /\ Inspector!Decide(s) = d.then
  <2>1. 4 \in DOMAIN s /\ s[4].when /\ \A k \in 1 .. 4 - 1 : ~s[k].when
    BY <1>1, <1>5
  <2> QED BY <1>1, <2>1, FirstRule DEF Applies
<1>6. ASSUME e.when, ~a.when, ~b.when, ~c.when, ~d.when PROVE Applies(s) /\ Inspector!Decide(s) = e.then
  <2>1. 5 \in DOMAIN s /\ s[5].when /\ \A k \in 1 .. 5 - 1 : ~s[k].when
    BY <1>1, <1>6
  <2> QED BY <1>1, <2>1, FirstRule DEF Applies
<1>7. ASSUME f.when, ~a.when, ~b.when, ~c.when, ~d.when, ~e.when PROVE Applies(s) /\ Inspector!Decide(s) = f.then
  <2>1. 6 \in DOMAIN s /\ s[6].when /\ \A k \in 1 .. 6 - 1 : ~s[k].when
    BY <1>1, <1>7
  <2> QED BY <1>1, <2>1, FirstRule DEF Applies
<1>8. ASSUME g.when, ~a.when, ~b.when, ~c.when, ~d.when, ~e.when, ~f.when PROVE Applies(s) /\ Inspector!Decide(s) = g.then
  <2>1. 7 \in DOMAIN s /\ s[7].when /\ \A k \in 1 .. 7 - 1 : ~s[k].when
    BY <1>1, <1>8
  <2> QED BY <1>1, <2>1, FirstRule DEF Applies
<1>9. ASSUME ~a.when, ~b.when, ~c.when, ~d.when, ~e.when, ~f.when, ~g.when PROVE ~Applies(s) /\ Inspector!Decide(s) = Inspector!Keep
  <2>1. \A k \in DOMAIN s : ~s[k].when
    BY <1>1, <1>9
  <2> QED BY <1>1, <2>1, NoRule DEF Applies
<1> QED BY <1>1, <1>2, <1>3, <1>4, <1>5, <1>6, <1>7, <1>8, <1>9 DEF s

-----------------------------------------------------------------------------
\* The last of some lines that shows one of some marks.
LEMMA LastIs ==
  ASSUME NEW pane, NEW n \in Nat, DOMAIN pane = 1 .. n, NEW lines, lines \subseteq 1 .. n,
         NEW marks
  PROVE  /\ Inspector!LastOf(marks, pane, lines) \in 0 .. n
         /\ \A i \in lines : pane[i] \in marks => i <= Inspector!LastOf(marks, pane, lines)
         /\ Inspector!LastOf(marks, pane, lines) # 0 =>
              /\ Inspector!LastOf(marks, pane, lines) \in lines
              /\ pane[Inspector!LastOf(marks, pane, lines)] \in marks
<1> DEFINE hits == {i \in lines : pane[i] \in marks}
           c == CHOOSE i \in hits : \A k \in hits : k <= i
<1>1. CASE hits = {}
  BY <1>1 DEF Inspector!LastOf
<1>2. CASE hits # {}
  <2> DEFINE above == {m \in 0 .. n : \A i \in hits : i <= m}
  <2>1. above \in SUBSET Nat /\ n \in above
    OBVIOUS
  <2>2. PICK m \in above : \A k \in above : m <= k
    BY <2>1, Least
  <2>3. m \in hits
    <3>1. m > 0
      <4>1. PICK i \in hits : TRUE
        BY <1>2
      <4>2. i \in 1 .. n /\ i <= m
        BY <2>2, <4>1
      <4> QED BY <2>2, <4>2
    <3>2. m - 1 \in 0 .. n /\ m - 1 \notin above
      BY <3>1, <2>2
    <3>3. PICK i \in hits : ~(i <= m - 1)
      BY <3>2
    <3>4. i \in 1 .. n /\ i <= m /\ m \in 1 .. n
      BY <2>2, <3>1, <3>3
    <3>5. i = m
      BY <3>3, <3>4
    <3> QED BY <3>3, <3>5
  <2>4. \A k \in hits : k <= m
    BY <2>2
  <2>5. c \in hits /\ \A k \in hits : k <= c
    BY <2>3, <2>4
  <2>6. Inspector!LastOf(marks, pane, lines) = c
    BY <1>2 DEF Inspector!LastOf
  <2>7. c \in 1 .. n /\ c \in lines /\ pane[c] \in marks
    BY <2>5
  <2> HIDE DEF c
  <2> QED BY <2>5, <2>6, <2>7
<1> QED BY <1>1, <1>2

LEMMA OneLine ==
  ASSUME NEW S, NEW q \in S
  PROVE  <<q>> \in Seq(S) /\ Len(<<q>>) = 1 /\ <<q>>[1] = q
OBVIOUS

\* A drawing is at most one older line and then the lines that the agent draws.
Marks == {"prompt", "spinner", "text", "permission", "question", "header", "choice", "option",
          "hint", "confirm", "alert", "mention"}

LEMMA Drawn ==
  ASSUME NEW pane, NEW old, NEW live, Drawing(pane, old, live), does \in Inspector!Doings(program)
  PROVE  /\ Len(old) \in {0, 1} /\ Len(live) \in {1, 2}
         /\ Len(pane) = Len(old) + Len(live) /\ DOMAIN pane = 1 .. Len(pane)
         /\ Len(old) = 1 => pane[1] \in Quoted[program]
         /\ \A i \in 1 .. Len(live) : pane[Len(old) + i] = live[i]
<1>1. live \in Seq(Marks) /\ Len(live) \in {1, 2}
  <2>1. live \in Inspector!Live(program, does)
    BY DEF Drawing
  <2>2. \A m, k \in Marks : <<m>> \in Seq(Marks) /\ Len(<<m>>) = 1
                            /\ <<m, k>> \in Seq(Marks) /\ Len(<<m, k>>) = 2
    OBVIOUS
  <2>3. \E m, k \in Marks : live = <<m>> \/ live = <<m, k>>
    BY <2>1 DEF Inspector!Live, Inspector!Doings, Inspector!Waits, Marks
  <2> QED BY <2>2, <2>3
<1>2. old \in Seq(Quoted[program]) /\ Len(old) \in {0, 1} /\ (Len(old) = 1 => old[1] \in Quoted[program])
  <2>1. CASE old = <<>>
    BY <2>1
  <2>2. ASSUME NEW q \in Quoted[program], old = <<q>>
        PROVE  old \in Seq(Quoted[program]) /\ Len(old) = 1 /\ old[1] = q
    BY <2>2, OneLine
  <2> QED BY <2>1, <2>2 DEF Drawing
<1>3. pane = old \o live
  BY DEF Drawing
<1>4. old \in Seq(Quoted[program] \cup Marks) /\ live \in Seq(Quoted[program] \cup Marks)
  BY <1>1, <1>2
<1>5. Len(pane) = Len(old) + Len(live) /\ pane \in Seq(Quoted[program] \cup Marks)
  BY <1>3, <1>4, ConcatProperties
<1>6. \A i \in 1 .. Len(old) + Len(live) :
        pane[i] = IF i <= Len(old) THEN old[i] ELSE live[i - Len(old)]
  BY <1>3, <1>4, ConcatProperties
<1>7. \A i \in 1 .. Len(live) : pane[Len(old) + i] = live[i]
  BY <1>1, <1>2, <1>6
<1>8. Len(old) = 1 => pane[1] = old[1]
  BY <1>1, <1>6
<1> QED BY <1>1, <1>2, <1>5, <1>7, <1>8

\* What is not a request, above a line with mark d, and below it at most text.
Shows(pane, d) ==
  \E j \in {1, 2} : \E n \in {j, j + 1} :
    /\ DOMAIN pane = 1 .. n /\ Len(pane) = n /\ pane[j] = d
    /\ n = j + 1 => pane[n] = "text"
    /\ j = 2 => pane[1] \in Quoted[program]

LEMMA DrawnMark ==
  ASSUME does \in Inspector!Doings(program), NEW pane, NEW old, NEW live, Drawing(pane, old, live),
         NEW d \in Marks, live = <<d>> \/ live = <<d, "text">>
  PROVE  Shows(pane, d)
<1>3. /\ Len(old) \in {0, 1} /\ Len(live) \in {1, 2}
      /\ Len(pane) = Len(old) + Len(live) /\ DOMAIN pane = 1 .. Len(pane)
      /\ Len(old) = 1 => pane[1] \in Quoted[program]
      /\ \A i \in 1 .. Len(live) : pane[Len(old) + i] = live[i]
  BY Drawn
<1>4. live[1] = d /\ (Len(live) = 2 => live[2] = "text")
  OBVIOUS
<1>5. Len(live) \in {1, 2}
  BY <1>3
<1>9. 1 \in 1 .. Len(live) /\ (Len(live) = 2 => 2 \in 1 .. Len(live))
  BY <1>5
<1>6. pane[Len(old) + 1] = d /\ (Len(live) = 2 => pane[Len(old) + 2] = "text")
  BY <1>3, <1>4, <1>9
<1>7. Len(old) + 1 \in {1, 2} /\ Len(pane) \in {Len(old) + 1, (Len(old) + 1) + 1}
  <2>1. \A a \in {0, 1}, b \in {1, 2} : a + 1 \in {1, 2} /\ a + b \in {a + 1, (a + 1) + 1}
    OBVIOUS
  <2> QED BY <1>3, <2>1
<1> QED BY <1>3, <1>6, <1>7 DEF Shows

LEMMA ShowsMark ==
  ASSUME Seen, NEW d \in Marks, \A live \in Inspector!Live(program,
         does) : live = <<d>> \/ live = <<d, "text">>
  PROVE  Shows(screen.pane, d)
<1>1. PICK old, live : Drawing(screen.pane, old, live)
  BY DEF Seen
<1>2. live = <<d>> \/ live = <<d, "text">>
  BY <1>1 DEF Drawing
<1> QED BY <1>1, <1>2, DrawnMark DEF Seen

\* The lowest mark is the last one, also of the lines at the bottom.
LEMMA Lowest ==
  ASSUME NEW pane, NEW d \in Marks \ {"text"}, Shows(pane, d)
  PROVE  \E j \in {1, 2} : \A lines \in {DOMAIN pane, Inspector!NearLines(pane)} : \A marks :
           "text" \notin marks =>
             /\ Inspector!LastOf(marks, pane, lines) \in 0 .. j
             /\ Inspector!LastOf(marks, pane, lines) = j <=> d \in marks
<1>1. PICK j \in {1, 2}, n \in {1, 2, 3} :
        /\ n \in {j, j + 1}
        /\ DOMAIN pane = 1 .. n /\ Len(pane) = n /\ pane[j] = d
        /\ n = j + 1 => pane[n] = "text"
  BY DEF Shows
<1>2. \A i \in 1 .. n : i > j => pane[i] = "text"
  BY <1>1
<1>3. ASSUME NEW lines \in {DOMAIN pane, Inspector!NearLines(pane)}, NEW marks, "text" \notin marks
      PROVE  /\ Inspector!LastOf(marks, pane, lines) \in 0 .. j
             /\ Inspector!LastOf(marks, pane, lines) = j <=> d \in marks
  <2>1. n \in Nat /\ lines \subseteq 1 .. n /\ j \in lines
    BY <1>1 DEF Inspector!NearLines, Inspector!Window
  <2> DEFINE c == Inspector!LastOf(marks, pane, lines)
  <2>2. /\ c \in 0 .. n
        /\ \A i \in lines : pane[i] \in marks => i <= c
        /\ c # 0 => c \in lines /\ pane[c] \in marks
    BY <1>1, <2>1, LastIs
  <2> HIDE DEF c
  <2>3. c \in 0 .. j
    BY <1>1, <1>2, <1>3, <2>1, <2>2
  <2>4. c = j <=> d \in marks
    BY <1>1, <2>1, <2>2, <2>3
  <2> QED BY <2>3, <2>4 DEF c
<1> QED BY <1>3

LEMMA Lines ==
  ASSUME Seen, NEW marks, NEW lines \in {DOMAIN screen.pane, Inspector!NearLines(screen.pane)}
  PROVE  Inspector!LastOf(marks, screen.pane, lines) \in Nat
<1> DEFINE pane == screen.pane
<1>1. PICK old, live : Drawing(pane, old, live)
  BY DEF Seen
<1>2. does \in Inspector!Doings(program)
  BY DEF Seen
<1> HIDE DEF pane
<1>3. DOMAIN pane = 1 .. Len(pane) /\ Len(pane) \in {1, 2, 3}
  <2>1. /\ Len(old) \in {0, 1} /\ Len(live) \in {1, 2}
        /\ Len(pane) = Len(old) + Len(live) /\ DOMAIN pane = 1 .. Len(pane)
    BY <1>1, <1>2, Drawn
  <2>2. \A a \in {0, 1}, b \in {1, 2} : a + b \in {1, 2, 3}
    OBVIOUS
  <2> QED BY <2>1, <2>2
<1>4. Len(pane) \in Nat /\ \A i \in Inspector!NearLines(pane) : i \in DOMAIN pane
  BY <1>3 DEF Inspector!NearLines
<1>5. Inspector!LastOf(marks, pane, DOMAIN pane) \in 0 .. Len(pane)
  BY <1>3, <1>4, LastIs
<1>6. Inspector!LastOf(marks, pane, Inspector!NearLines(pane)) \in 0 .. Len(pane)
  BY <1>3, <1>4, LastIs
<1>7. lines \in {DOMAIN pane, Inspector!NearLines(pane)}
  BY DEF pane
<1>8. Inspector!LastOf(marks, pane, lines) \in Nat
  BY <1>4, <1>5, <1>6, <1>7
<1> QED BY <1>8 DEF pane

-----------------------------------------------------------------------------
(***************************************************************************)
(* Claude Code.                                                            *)
(***************************************************************************)
LEMMA ClaudeReads ==
  ASSUME NEW d \in {"prompt", "spinner", "permission", "question"}, Shows(screen.pane, d)
  PROVE  /\ d \in {"prompt", "spinner"} =>
              /\ ~(Inspector!ClaudeMarks.permission > Inspector!ClaudeMarks.active)
              /\ ~(Inspector!ClaudeMarks.question > Inspector!ClaudeMarks.active)
              /\ Inspector!ClaudeMarks.hasPrompt = (d = "prompt")
              /\ Inspector!ClaudeMarks.hasSpinner = (d = "spinner")
         /\ d \in {"permission", "question"} =>
              Inspector!ClaudeMarks.permission > Inspector!ClaudeMarks.active \/ Inspector!ClaudeMarks.question > Inspector!ClaudeMarks.active
<1> DEFINE pane == screen.pane
           all == DOMAIN pane
           near == Inspector!NearLines(pane)
<1>1. PICK j \in {1, 2} : \A lines \in {all, near} : \A marks : "text" \notin marks =>
             /\ Inspector!LastOf(marks, pane, lines) \in 0 .. j
             /\ Inspector!LastOf(marks, pane, lines) = j <=> d \in marks
  BY Lowest DEF Marks
<1> DEFINE active == Inspector!LastOf({"prompt", "spinner"}, pane, all)
           permission == Inspector!LastOf({"permission"}, pane, all)
           question == Inspector!LastOf({"question"}, pane, all)
           prompt == Inspector!LastOf({"prompt"}, pane, near)
           spinner == Inspector!LastOf({"spinner"}, pane, near)
<1>2. /\ active \in 0 .. j /\ (active = j <=> d \in {"prompt", "spinner"})
      /\ permission \in 0 .. j /\ (permission = j <=> d = "permission")
      /\ question \in 0 .. j /\ (question = j <=> d = "question")
      /\ prompt \in 0 .. j /\ (prompt = j <=> d = "prompt")
      /\ spinner \in 0 .. j /\ (spinner = j <=> d = "spinner")
  BY <1>1
<1>3. Inspector!ClaudeMarks = [active |-> active, permission |-> permission, question |-> question,
                     hasPrompt |-> prompt > spinner /\ prompt > permission /\ prompt > question,
                     hasSpinner |-> spinner > prompt]
  BY DEF Inspector!ClaudeMarks, Inspector!Last, Inspector!Near
<1> HIDE DEF active, permission, question, prompt, spinner
<1>4. /\ Inspector!ClaudeMarks.active = active /\ Inspector!ClaudeMarks.permission = permission
      /\ Inspector!ClaudeMarks.question = question
      /\ Inspector!ClaudeMarks.hasPrompt = (prompt > spinner /\ prompt > permission /\ prompt > question)
      /\ Inspector!ClaudeMarks.hasSpinner = (spinner > prompt)
  BY <1>3
<1> QED BY <1>2, <1>4

LEMMA Outcomes ==
  /\ Inspector!Keep \in Verdicts /\ Inspector!To("working") \in Verdicts
  /\ Inspector!To("idle") \in Verdicts
  /\ Inspector!To("ended") \in Verdicts /\ Inspector!BlockOn("permission") \in Verdicts
  /\ Inspector!BlockOn("question") \in Verdicts
  /\ Inspector!Keep # Inspector!To("working") /\ Inspector!Keep # Inspector!To("idle")
  /\ Inspector!Keep # Inspector!To("ended")
  /\ Inspector!Keep # Inspector!BlockOn("permission") /\ Inspector!Keep # Inspector!BlockOn("question")
  /\ \A state : Inspector!To(state).state = state /\ Inspector!To(state).block = "none"
  /\ \A kind : Inspector!BlockOn(kind).state = "blocked" /\ Inspector!BlockOn(kind).block = kind
BY DEF Verdicts, Inspector!Keep, Inspector!To, Inspector!BlockOn, Inspector!Waits

LEMMA RuleOf ==
  ASSUME NEW when \in BOOLEAN, NEW then \in Verdicts
  PROVE  Inspector!Rule(when, then) \in Rules /\ Inspector!Rule(when, then).when = when /\ Inspector!Rule(when, then).then = then
BY DEF Inspector!Rule, Rules

\* The verdict on a session whose agent is there follows what it does, or leaves
\* a block in its grace; a request on the pane or in the transcript decides
\* whatever the row says.
Judged(asking) ==
  /\ Inspector!Verdict \in Verdicts
  /\ Inspector!Verdict = Inspector!Keep => Inspector!Grace
  /\ Inspector!Verdict # Inspector!Keep => Inspector!Verdict.state = Inspector!Expected(does).state
  /\ Inspector!Expected(does).state = "blocked" => Inspector!Verdict = asking

LEMMA ClaudeTables ==
  ASSUME Row, Seen
  PROVE  /\ Inspector!ClaudeAsks \in Seq(Rules) /\ Inspector!ClaudeTranscript \in Seq(Rules)
         /\ Inspector!ClaudeBusy \in Seq(Rules) /\ Inspector!ClaudeAtRest \in Seq(Rules)
         /\ Applies(Inspector!ClaudeAsks) <=> \/ Inspector!ClaudeMarks.permission > Inspector!ClaudeMarks.active
                                              \/ Inspector!ClaudeMarks.question > Inspector!ClaudeMarks.active
         /\ Inspector!Decide(Inspector!ClaudeAsks) =
              IF Inspector!ClaudeMarks.permission > Inspector!ClaudeMarks.active THEN Inspector!BlockOn("permission")
              ELSE IF Inspector!ClaudeMarks.question > Inspector!ClaudeMarks.active THEN Inspector!BlockOn("question") ELSE Inspector!Keep
         /\ Applies(Inspector!ClaudeTranscript) <=>
              screen.entry = "ask" /\ ~Inspector!ClaudeMarks.hasPrompt /\ ~Inspector!ClaudeMarks.hasSpinner
         /\ Applies(Inspector!ClaudeBusy) <=> \/ screen.subs # "none"
                                              \/ ~Inspector!ClaudeMarks.hasPrompt /\ screen.task
                                              \/ Inspector!ClaudeMarks.hasSpinner
         /\ Applies(Inspector!ClaudeBusy) => Inspector!Decide(Inspector!ClaudeBusy) = Inspector!To("working")
         /\ Inspector!ClaudeMarks.hasPrompt =>
              Inspector!Decide(Inspector!ClaudeAtRest) = IF Inspector!Grace /\ ~Inspector!ClaudeAnswered THEN Inspector!Keep ELSE Inspector!To("idle")
<1>1. /\ Inspector!Grace \in BOOLEAN /\ Inspector!ClaudeAnswered \in BOOLEAN /\ screen.task \in BOOLEAN
      /\ (Inspector!ClaudeMarks.permission > Inspector!ClaudeMarks.active) \in BOOLEAN
      /\ (Inspector!ClaudeMarks.question > Inspector!ClaudeMarks.active) \in BOOLEAN
      /\ Inspector!ClaudeMarks.hasPrompt \in BOOLEAN /\ Inspector!ClaudeMarks.hasSpinner \in BOOLEAN
      /\ (Inspector!Last("no conversation", screen.pane) > 0) \in BOOLEAN
  <2> DEFINE pane == screen.pane
             all == DOMAIN pane
             near == Inspector!NearLines(pane)
             active == Inspector!LastOf({"prompt", "spinner"}, pane, all)
             permission == Inspector!LastOf({"permission"}, pane, all)
             question == Inspector!LastOf({"question"}, pane, all)
             prompt == Inspector!LastOf({"prompt"}, pane, near)
             spinner == Inspector!LastOf({"spinner"}, pane, near)
             none == Inspector!LastOf({"no conversation"}, pane, all)
  <2>1. /\ active \in Nat /\ permission \in Nat /\ question \in Nat /\ prompt \in Nat
        /\ spinner \in Nat /\ none \in Nat
    BY Lines
  <2>2. Inspector!ClaudeMarks = [active |-> active, permission |-> permission, question |-> question,
                       hasPrompt |-> prompt > spinner /\ prompt > permission /\ prompt > question,
                       hasSpinner |-> spinner > prompt]
    BY DEF Inspector!ClaudeMarks, Inspector!Last, Inspector!Near
  <2>3. Inspector!Last("no conversation", screen.pane) = none
    BY DEF Inspector!Last
  <2>4. Inspector!Grace \in BOOLEAN /\ Inspector!ClaudeAnswered \in BOOLEAN /\ screen.task \in BOOLEAN
    BY DEF Row, Seen, Inspector!Grace, Inspector!ClaudeAnswered
  <2> HIDE DEF active, permission, question, prompt, spinner, none
  <2>5. \A x, y \in Nat : (x > y) \in BOOLEAN /\ (x > 0) \in BOOLEAN
    OBVIOUS
  <2>6. /\ Inspector!ClaudeMarks.active = active /\ Inspector!ClaudeMarks.permission = permission
        /\ Inspector!ClaudeMarks.question = question
        /\ Inspector!ClaudeMarks.hasPrompt = (prompt > spinner /\ prompt > permission /\ prompt > question)
        /\ Inspector!ClaudeMarks.hasSpinner = (spinner > prompt)
    BY <2>2
  <2>7. Inspector!ClaudeMarks.hasPrompt \in BOOLEAN /\ Inspector!ClaudeMarks.hasSpinner \in BOOLEAN
    BY <2>6
  <2> QED BY <2>1, <2>3, <2>4, <2>5, <2>6, <2>7
<1>2. /\ Inspector!ClaudeAsks \in Seq(Rules)
      /\ Applies(Inspector!ClaudeAsks) <=> \/ Inspector!ClaudeMarks.permission > Inspector!ClaudeMarks.active
                                           \/ Inspector!ClaudeMarks.question > Inspector!ClaudeMarks.active
      /\ Inspector!Decide(Inspector!ClaudeAsks) =
           IF Inspector!ClaudeMarks.permission > Inspector!ClaudeMarks.active THEN Inspector!BlockOn("permission")
           ELSE IF Inspector!ClaudeMarks.question > Inspector!ClaudeMarks.active THEN Inspector!BlockOn("question") ELSE Inspector!Keep
  <2> DEFINE r1 == Inspector!Rule(Inspector!ClaudeMarks.permission > Inspector!ClaudeMarks.active, Inspector!BlockOn("permission"))
             r2 == Inspector!Rule(Inspector!ClaudeMarks.question > Inspector!ClaudeMarks.active, Inspector!BlockOn("question"))
  <2>1. r1 \in Rules /\ r1.when = (Inspector!ClaudeMarks.permission > Inspector!ClaudeMarks.active) /\ r1.then = Inspector!BlockOn("permission")
    BY <1>1, Outcomes, RuleOf
  <2>2. r2 \in Rules /\ r2.when = (Inspector!ClaudeMarks.question > Inspector!ClaudeMarks.active) /\ r2.then = Inspector!BlockOn("question")
    BY <1>1, Outcomes, RuleOf
  <2>3. Inspector!ClaudeAsks = <<r1, r2>>
    BY DEF Inspector!ClaudeAsks
  <2> HIDE DEF r1, r2
  <2> QED BY <2>1, <2>2, <2>3, TableOf2
<1>3. /\ Inspector!ClaudeTranscript \in Seq(Rules)
      /\ Applies(Inspector!ClaudeTranscript) <=>
           screen.entry = "ask" /\ ~Inspector!ClaudeMarks.hasPrompt /\ ~Inspector!ClaudeMarks.hasSpinner
  <2> DEFINE r1 == Inspector!Rule(screen.entry = "ask" /\ ~Inspector!ClaudeMarks.hasPrompt /\ ~Inspector!ClaudeMarks.hasSpinner, Inspector!BlockOn("question"))
  <2>1. r1 \in Rules /\ r1.when = (screen.entry = "ask" /\ ~Inspector!ClaudeMarks.hasPrompt /\ ~Inspector!ClaudeMarks.hasSpinner) /\ r1.then = Inspector!BlockOn("question")
    BY Outcomes, RuleOf
  <2>2. Inspector!ClaudeTranscript = <<r1>>
    BY DEF Inspector!ClaudeTranscript
  <2> HIDE DEF r1
  <2> QED BY <2>1, <2>2, TableOf1
<1>4. /\ Inspector!ClaudeBusy \in Seq(Rules)
      /\ Applies(Inspector!ClaudeBusy) <=> \/ screen.subs # "none"
                                           \/ ~Inspector!ClaudeMarks.hasPrompt /\ screen.task
                                           \/ Inspector!ClaudeMarks.hasSpinner
      /\ Applies(Inspector!ClaudeBusy) => Inspector!Decide(Inspector!ClaudeBusy) = Inspector!To("working")
  <2> DEFINE r1 == Inspector!Rule(screen.subs # "none", Inspector!To("working"))
             r2 == Inspector!Rule(~Inspector!ClaudeMarks.hasPrompt /\ screen.task, Inspector!To("working"))
             r3 == Inspector!Rule(Inspector!ClaudeMarks.hasSpinner, Inspector!To("working"))
  <2>1. r1 \in Rules /\ r1.when = (screen.subs # "none") /\ r1.then = Inspector!To("working")
    BY <1>1, Outcomes, RuleOf
  <2>2. r2 \in Rules /\ r2.when = (~Inspector!ClaudeMarks.hasPrompt /\ screen.task) /\ r2.then = Inspector!To("working")
    BY <1>1, Outcomes, RuleOf
  <2>3. r3 \in Rules /\ r3.when = (Inspector!ClaudeMarks.hasSpinner) /\ r3.then = Inspector!To("working")
    BY <1>1, Outcomes, RuleOf
  <2>4. Inspector!ClaudeBusy = <<r1, r2, r3>>
    BY DEF Inspector!ClaudeBusy
  <2> HIDE DEF r1, r2, r3
  <2> QED BY <2>1, <2>2, <2>3, <2>4, TableOf3
<1>5. /\ Inspector!ClaudeAtRest \in Seq(Rules)
      /\ Inspector!ClaudeMarks.hasPrompt =>
           Inspector!Decide(Inspector!ClaudeAtRest) = IF Inspector!Grace /\ ~Inspector!ClaudeAnswered THEN Inspector!Keep ELSE Inspector!To("idle")
  <2> DEFINE r1 == Inspector!Rule(Inspector!ClaudeMarks.hasPrompt /\ Inspector!Grace /\ ~Inspector!ClaudeAnswered, Inspector!Keep)
             r2 == Inspector!Rule(Inspector!ClaudeMarks.hasPrompt, Inspector!To("idle"))
             r3 == Inspector!Rule(Inspector!Last("no conversation", screen.pane) > 0, Inspector!To("ended"))
             r4 == Inspector!Rule(screen.entry = "end" /\ Inspector!Grace /\ ~Inspector!ClaudeAnswered, Inspector!Keep)
             r5 == Inspector!Rule(screen.entry = "end", Inspector!To("idle"))
             r6 == Inspector!Rule(shown.state = "blocked" /\ Inspector!Grace /\ ~Inspector!ClaudeAnswered, Inspector!Keep)
             r7 == Inspector!Rule(shown.state = "blocked", Inspector!To("idle"))
  <2>1. r1 \in Rules /\ r1.when = (Inspector!ClaudeMarks.hasPrompt /\ Inspector!Grace /\ ~Inspector!ClaudeAnswered) /\ r1.then = Inspector!Keep
    BY <1>1, Outcomes, RuleOf
  <2>2. r2 \in Rules /\ r2.when = (Inspector!ClaudeMarks.hasPrompt) /\ r2.then = Inspector!To("idle")
    BY <1>1, Outcomes, RuleOf
  <2>3. r3 \in Rules /\ r3.when = (Inspector!Last("no conversation", screen.pane) > 0) /\ r3.then = Inspector!To("ended")
    BY <1>1, Outcomes, RuleOf
  <2>4. r4 \in Rules /\ r4.when = (screen.entry = "end" /\ Inspector!Grace /\ ~Inspector!ClaudeAnswered) /\ r4.then = Inspector!Keep
    BY <1>1, Outcomes, RuleOf
  <2>5. r5 \in Rules /\ r5.when = (screen.entry = "end") /\ r5.then = Inspector!To("idle")
    BY <1>1, Outcomes, RuleOf
  <2>6. r6 \in Rules /\ r6.when = (shown.state = "blocked" /\ Inspector!Grace /\ ~Inspector!ClaudeAnswered) /\ r6.then = Inspector!Keep
    BY <1>1, Outcomes, RuleOf
  <2>7. r7 \in Rules /\ r7.when = (shown.state = "blocked") /\ r7.then = Inspector!To("idle")
    BY <1>1, Outcomes, RuleOf
  <2>8. Inspector!ClaudeAtRest = <<r1, r2, r3, r4, r5, r6, r7>>
    BY DEF Inspector!ClaudeAtRest
  <2> HIDE DEF r1, r2, r3, r4, r5, r6, r7
  <2>9. /\ r1 \in Rules /\ r2 \in Rules /\ r3 \in Rules /\ r4 \in Rules
        /\ r5 \in Rules /\ r6 \in Rules /\ r7 \in Rules
    BY <2>1, <2>2, <2>3, <2>4, <2>5, <2>6, <2>7
  <2>10. Inspector!ClaudeAtRest \in Seq(Rules)
    BY <2>8, <2>9, TableOf7
  <2>11. Inspector!Decide(Inspector!ClaudeAtRest) = IF r1.when THEN r1.then ELSE IF r2.when THEN r2.then
           ELSE IF r3.when THEN r3.then ELSE IF r4.when THEN r4.then ELSE IF r5.when THEN r5.then
           ELSE IF r6.when THEN r6.then ELSE IF r7.when THEN r7.then ELSE Inspector!Keep
    BY <2>8, <2>9, TableOf7, SMTT(40)
  <2> QED BY <2>1, <2>2, <2>10, <2>11
<1> QED BY <1>2, <1>3, <1>4, <1>5

LEMMA ClaudeJudged ==
  ASSUME Row, Seen, program = "claude-code", does # "gone"
  PROVE  Judged(Inspector!Decide(Inspector!ClaudeAsks))
<1>1. Inspector!Verdict = Inspector!Decide(Inspector!InspectClaudeStatus)
  BY DEF Inspector!Verdict, Seen
<1> DEFINE at == Inspector!ClaudeAsks \o Inspector!ClaudeTranscript
           atb == at \o Inspector!ClaudeBusy
<1>2. /\ Applies(at) <=> Applies(Inspector!ClaudeAsks) \/ Applies(Inspector!ClaudeTranscript)
      /\ Inspector!Decide(at) = IF Applies(Inspector!ClaudeAsks) THEN Inspector!Decide(Inspector!ClaudeAsks) ELSE Inspector!Decide(Inspector!ClaudeTranscript)
      /\ at \in Seq(Rules)
  BY ClaudeTables, TwoTables
<1> HIDE DEF at
<1>3. /\ Applies(atb) <=> Applies(at) \/ Applies(Inspector!ClaudeBusy)
      /\ Inspector!Decide(atb) = IF Applies(at) THEN Inspector!Decide(at) ELSE Inspector!Decide(Inspector!ClaudeBusy)
      /\ atb \in Seq(Rules)
  BY <1>2, ClaudeTables, TwoTables
<1> HIDE DEF atb
<1>4. Inspector!Decide(atb \o Inspector!ClaudeAtRest) = IF Applies(atb) THEN Inspector!Decide(atb) ELSE Inspector!Decide(Inspector!ClaudeAtRest)
  BY <1>3, ClaudeTables, TwoTables
<1>5. Inspector!InspectClaudeStatus = atb \o Inspector!ClaudeAtRest
  BY DEF Inspector!InspectClaudeStatus, at, atb
<1>6. /\ Applies(Inspector!ClaudeAsks) => Inspector!Verdict = Inspector!Decide(Inspector!ClaudeAsks)
      /\ ~Applies(Inspector!ClaudeAsks) /\ ~Applies(Inspector!ClaudeTranscript) =>
           /\ Applies(Inspector!ClaudeBusy) => Inspector!Verdict = Inspector!To("working")
           /\ ~Applies(Inspector!ClaudeBusy) => Inspector!Verdict = Inspector!Decide(Inspector!ClaudeAtRest)
  BY <1>1, <1>2, <1>3, <1>4, <1>5, ClaudeTables
<1>7. does \in {"thinking", "rest", "subagent runs"} \cup Inspector!Waits
  BY DEF Seen, Inspector!Doings
<1>8. screen.task = FALSE
  BY DEF Seen
<1>9. CASE does \in Inspector!Waits
  <2>1. Shows(screen.pane, does)
    BY <1>9, ShowsMark DEF Inspector!Live, Inspector!Waits, Marks
  <2>2. Applies(Inspector!ClaudeAsks)
    BY <1>9, <2>1, ClaudeReads, ClaudeTables DEF Inspector!Waits
  <2>3. Inspector!Verdict \in {Inspector!BlockOn("permission"), Inspector!BlockOn("question")} /\ Inspector!Verdict = Inspector!Decide(Inspector!ClaudeAsks)
    BY <1>6, <2>2, ClaudeTables
  <2>4. Inspector!Expected(does) = Inspector!BlockOn(does)
    BY <1>9 DEF Inspector!Expected, Inspector!Waits
  <2> QED BY <2>3, <2>4, Outcomes DEF Judged
<1>10. CASE does = "thinking"
  <2>1. Shows(screen.pane, "spinner")
    BY <1>10, ShowsMark DEF Inspector!Live, Marks
  <2>2. ~Applies(Inspector!ClaudeAsks) /\ ~Applies(Inspector!ClaudeTranscript) /\ Applies(Inspector!ClaudeBusy)
    BY <2>1, ClaudeReads, ClaudeTables
  <2>3. Inspector!Expected(does) = Inspector!To("working")
    BY <1>10 DEF Inspector!Expected
  <2> QED BY <1>6, <2>2, <2>3, Outcomes DEF Judged
<1>11. CASE does = "rest"
  <2>1. Shows(screen.pane, "prompt")
    BY <1>11, ShowsMark DEF Inspector!Live, Marks
  <2>2. screen.subs = "none" /\ Inspector!ClaudeMarks.hasPrompt
    BY <1>11, <2>1, ClaudeReads DEF Seen
  <2>3. ~Applies(Inspector!ClaudeAsks) /\ ~Applies(Inspector!ClaudeTranscript) /\ ~Applies(Inspector!ClaudeBusy)
    BY <1>8, <2>1, <2>2, ClaudeReads, ClaudeTables
  <2>4. Inspector!Verdict = IF Inspector!Grace /\ ~Inspector!ClaudeAnswered THEN Inspector!Keep ELSE Inspector!To("idle")
    BY <1>6, <2>2, <2>3, ClaudeTables
  <2>5. Inspector!Expected(does) = Inspector!To("idle")
    BY <1>11 DEF Inspector!Expected
  <2> QED BY <2>4, <2>5, Outcomes DEF Judged
<1>12. CASE does = "subagent runs"
  <2>1. \E d \in {"spinner", "prompt"} : Shows(screen.pane, d)
    <3>1. PICK old, live : Drawing(screen.pane, old, live)
      BY DEF Seen
    <3>2. live \in {<<"spinner">>, <<"prompt">>}
      BY <1>12, <3>1 DEF Drawing, Inspector!Live
    <3> QED BY <1>12, <3>1, <3>2, DrawnMark DEF Marks, Seen
  <2>2. screen.subs = "running" /\ screen.entry = "tool"
    BY <1>12 DEF Seen, Inspector!Entries
  <2>3. ~Applies(Inspector!ClaudeAsks) /\ ~Applies(Inspector!ClaudeTranscript) /\ Applies(Inspector!ClaudeBusy)
    BY <2>1, <2>2, ClaudeReads, ClaudeTables
  <2>4. Inspector!Expected(does) = Inspector!To("working")
    BY <1>12 DEF Inspector!Expected
  <2> QED BY <1>6, <2>3, <2>4, Outcomes DEF Judged
<1> QED BY <1>7, <1>9, <1>10, <1>11, <1>12

-----------------------------------------------------------------------------
(***************************************************************************)
(* Antigravity.                                                            *)
(***************************************************************************)
HasPrompt == Inspector!AntigravityMarks.hasPrompt
HasSpinner == Inspector!AntigravityMarks.hasSpinner

LEMMA AntigravityTables ==
  ASSUME Row, Seen, Inspector!AsksForApproval \in BOOLEAN, screen.subs \in {"none", "running"}
  PROVE  /\ Inspector!AntigravityAsks \in Seq(Rules) /\ Inspector!AntigravityTranscript \in Seq(Rules)
         /\ Inspector!AntigravitySubagents \in Seq(Rules)
         /\ Inspector!AntigravityLastStep \in Seq(Rules)
         /\ Inspector!AntigravityAtRest \in Seq(Rules)
         /\ HasPrompt \in BOOLEAN /\ HasSpinner \in BOOLEAN
         /\ Applies(Inspector!AntigravityAsks) <=> Inspector!AsksForApproval
         /\ Inspector!AsksForApproval => Inspector!Decide(Inspector!AntigravityAsks) = Inspector!BlockOn("permission")
         /\ Applies(Inspector!AntigravityTranscript) <=> screen.entry \in {"ask", "askPermission"}
         /\ screen.entry = "ask" => Inspector!Decide(Inspector!AntigravityTranscript) = Inspector!BlockOn("question")
         /\ Applies(Inspector!AntigravitySubagents) <=> screen.subs = "running"
         /\ screen.subs = "running" =>
              Inspector!Decide(Inspector!AntigravitySubagents) = IF Inspector!AntigravityHeld THEN Inspector!Keep ELSE Inspector!To("working")
         /\ screen.entry = "user" /\ ~HasPrompt =>
              /\ Applies(Inspector!AntigravityLastStep)
              /\ Inspector!Decide(Inspector!AntigravityLastStep) = IF Inspector!AntigravityHeld THEN Inspector!Keep ELSE Inspector!To("working")
         /\ screen.entry = "end" /\ ~HasSpinner =>
              /\ Applies(Inspector!AntigravityLastStep)
              /\ Inspector!Decide(Inspector!AntigravityLastStep) =
                   IF Inspector!AntigravityHeld /\ ~screen.after THEN Inspector!Keep ELSE Inspector!To("idle")
         /\ screen.entry = "tool" /\ Applies(Inspector!AntigravityLastStep) =>
              Inspector!Decide(Inspector!AntigravityLastStep) = Inspector!To("working")
         /\ HasSpinner => /\ Applies(Inspector!AntigravityAtRest)
                          /\ Inspector!Decide(Inspector!AntigravityAtRest) =
                               IF Inspector!Grace /\ Inspector!Last("thinking", screen.pane) = 0 THEN Inspector!Keep ELSE Inspector!To("working")
<1>1. /\ Inspector!Grace \in BOOLEAN /\ Inspector!AntigravityHeld \in BOOLEAN /\ Inspector!AntigravityHeld => Inspector!Grace
      /\ screen.after \in BOOLEAN /\ screen.answered \in BOOLEAN /\ screen.young \in BOOLEAN
  BY DEF Row, Seen, Inspector!Grace, Inspector!AntigravityHeld
<1>2. /\ HasPrompt \in BOOLEAN /\ HasSpinner \in BOOLEAN
      /\ (Inspector!Last("thinking", screen.pane) = 0) \in BOOLEAN
  <2> DEFINE prompt == Inspector!LastOf({"prompt"}, screen.pane, Inspector!NearLines(screen.pane))
             spinner == Inspector!LastOf({"spinner"}, screen.pane, Inspector!NearLines(screen.pane))
  <2>1. prompt \in Nat /\ spinner \in Nat
    BY Lines
  <2>2. Inspector!AntigravityMarks = [hasPrompt |-> prompt > 0, hasSpinner |-> ~(prompt > 0) /\ spinner > 0]
    BY DEF Inspector!AntigravityMarks, Inspector!Near
  <2> HIDE DEF prompt, spinner
  <2>3. \A x \in Nat : (x > 0) \in BOOLEAN
    OBVIOUS
  <2>4. Inspector!AntigravityMarks.hasPrompt = (prompt > 0)
        /\ Inspector!AntigravityMarks.hasSpinner = (~(prompt > 0) /\ spinner > 0)
    BY <2>2
  <2> QED BY <2>1, <2>3, <2>4 DEF HasPrompt, HasSpinner
<1>3. /\ Inspector!AntigravityAsks \in Seq(Rules)
      /\ Applies(Inspector!AntigravityAsks) <=> Inspector!AsksForApproval
      /\ Inspector!AsksForApproval => Inspector!Decide(Inspector!AntigravityAsks) = Inspector!BlockOn("permission")
  <2> DEFINE r1 == Inspector!Rule(Inspector!AsksForApproval, Inspector!BlockOn("permission"))
  <2>1. r1 \in Rules /\ r1.when = (Inspector!AsksForApproval) /\ r1.then = Inspector!BlockOn("permission")
    BY <1>1, Outcomes, RuleOf
  <2>2. Inspector!AntigravityAsks = <<r1>>
    BY DEF Inspector!AntigravityAsks, Inspector!AntigravityMarks
  <2> HIDE DEF r1
  <2>3. /\ Inspector!AntigravityAsks \in Seq(Rules)
        /\ Applies(Inspector!AntigravityAsks) <=> r1.when
        /\ Inspector!Decide(Inspector!AntigravityAsks) = IF r1.when THEN r1.then ELSE Inspector!Keep
    BY <2>1, <2>2, TableOf1
  <2> QED BY <2>1, <2>3
<1>4. /\ Inspector!AntigravityTranscript \in Seq(Rules)
      /\ Applies(Inspector!AntigravityTranscript) <=> screen.entry \in {"ask", "askPermission"}
      /\ screen.entry = "ask" => Inspector!Decide(Inspector!AntigravityTranscript) = Inspector!BlockOn("question")
  <2> DEFINE r1 == Inspector!Rule(screen.entry = "ask", Inspector!BlockOn("question"))
             r2 == Inspector!Rule(screen.entry = "askPermission", Inspector!BlockOn("permission"))
  <2>1. r1 \in Rules /\ r1.when = (screen.entry = "ask") /\ r1.then = Inspector!BlockOn("question")
    BY <1>1, Outcomes, RuleOf
  <2>2. r2 \in Rules /\ r2.when = (screen.entry = "askPermission") /\ r2.then = Inspector!BlockOn("permission")
    BY <1>1, Outcomes, RuleOf
  <2>3. Inspector!AntigravityTranscript = <<r1, r2>>
    BY DEF Inspector!AntigravityTranscript, Inspector!AntigravityMarks
  <2> HIDE DEF r1, r2
  <2>4. /\ Inspector!AntigravityTranscript \in Seq(Rules)
        /\ Applies(Inspector!AntigravityTranscript) <=> r1.when \/ r2.when
        /\ Inspector!Decide(Inspector!AntigravityTranscript) = IF r1.when THEN r1.then ELSE IF r2.when THEN r2.then ELSE Inspector!Keep
    BY <2>1, <2>2, <2>3, TableOf2
  <2> QED BY <2>1, <2>2, <2>4
<1>5. /\ Inspector!AntigravitySubagents \in Seq(Rules)
      /\ Applies(Inspector!AntigravitySubagents) <=> screen.subs = "running"
      /\ screen.subs = "running" =>
           Inspector!Decide(Inspector!AntigravitySubagents) = IF Inspector!AntigravityHeld THEN Inspector!Keep ELSE Inspector!To("working")
  <2> DEFINE r1 == Inspector!Rule(screen.subs = "asking", Inspector!BlockOn("question"))
             r2 == Inspector!Rule(screen.subs # "none" /\ Inspector!AntigravityHeld, Inspector!Keep)
             r3 == Inspector!Rule(screen.subs # "none", Inspector!To("working"))
  <2>1. r1 \in Rules /\ r1.when = (screen.subs = "asking") /\ r1.then = Inspector!BlockOn("question")
    BY <1>1, Outcomes, RuleOf
  <2>2. r2 \in Rules /\ r2.when = (screen.subs # "none" /\ Inspector!AntigravityHeld) /\ r2.then = Inspector!Keep
    BY <1>1, Outcomes, RuleOf
  <2>3. r3 \in Rules /\ r3.when = (screen.subs # "none") /\ r3.then = Inspector!To("working")
    BY <1>1, Outcomes, RuleOf
  <2>4. Inspector!AntigravitySubagents = <<r1, r2, r3>>
    BY DEF Inspector!AntigravitySubagents, Inspector!AntigravityMarks
  <2> HIDE DEF r1, r2, r3
  <2>5. /\ Inspector!AntigravitySubagents \in Seq(Rules)
        /\ Applies(Inspector!AntigravitySubagents) <=> r1.when \/ r2.when \/ r3.when
        /\ Inspector!Decide(Inspector!AntigravitySubagents) = IF r1.when THEN r1.then ELSE IF r2.when THEN r2.then ELSE IF r3.when THEN r3.then ELSE Inspector!Keep
    BY <2>1, <2>2, <2>3, <2>4, TableOf3
  <2> QED BY <2>1, <2>2, <2>3, <2>5
<1>6. /\ Inspector!AntigravityLastStep \in Seq(Rules)
      /\ screen.entry = "user" /\ ~HasPrompt =>
           /\ Applies(Inspector!AntigravityLastStep)
           /\ Inspector!Decide(Inspector!AntigravityLastStep) = IF Inspector!AntigravityHeld THEN Inspector!Keep ELSE Inspector!To("working")
      /\ screen.entry = "end" /\ ~HasSpinner =>
           /\ Applies(Inspector!AntigravityLastStep)
           /\ Inspector!Decide(Inspector!AntigravityLastStep) = IF Inspector!AntigravityHeld /\ ~screen.after THEN Inspector!Keep ELSE Inspector!To("idle")
      /\ screen.entry = "tool" /\ Applies(Inspector!AntigravityLastStep) =>
           Inspector!Decide(Inspector!AntigravityLastStep) = Inspector!To("working")
  <2> DEFINE r1 == Inspector!Rule((screen.entry = "user" /\ (~HasPrompt \/ screen.young)) /\ Inspector!AntigravityHeld, Inspector!Keep)
             r2 == Inspector!Rule((screen.entry = "user" /\ (~HasPrompt \/ screen.young)), Inspector!To("working"))
             r3 == Inspector!Rule(screen.entry = "end" /\ Inspector!AntigravityHeld /\ ~screen.after, Inspector!Keep)
             r4 == Inspector!Rule(screen.entry = "end" /\ ~HasSpinner, Inspector!To("idle"))
             r5 == Inspector!Rule(shown.state = "blocked" /\ screen.answered /\ screen.entry = "tool", Inspector!To("working"))
  <2>1. r1 \in Rules /\ r1.when = ((screen.entry = "user" /\ (~HasPrompt \/ screen.young)) /\ Inspector!AntigravityHeld) /\ r1.then = Inspector!Keep
    BY <1>1, <1>2, Outcomes, RuleOf
  <2>2. r2 \in Rules /\ r2.when = ((screen.entry = "user" /\ (~HasPrompt \/ screen.young))) /\ r2.then = Inspector!To("working")
    BY <1>1, <1>2, Outcomes, RuleOf
  <2>3. r3 \in Rules /\ r3.when = (screen.entry = "end" /\ Inspector!AntigravityHeld /\ ~screen.after) /\ r3.then = Inspector!Keep
    BY <1>1, <1>2, Outcomes, RuleOf
  <2>4. r4 \in Rules /\ r4.when = (screen.entry = "end" /\ ~HasSpinner) /\ r4.then = Inspector!To("idle")
    BY <1>1, <1>2, Outcomes, RuleOf
  <2>5. r5 \in Rules /\ r5.when = (shown.state = "blocked" /\ screen.answered /\ screen.entry = "tool") /\ r5.then = Inspector!To("working")
    BY <1>1, <1>2, Outcomes, RuleOf
  <2>6. Inspector!AntigravityLastStep = <<r1, r2, r3, r4, r5>>
    BY DEF Inspector!AntigravityLastStep, HasPrompt, HasSpinner
  <2> HIDE DEF r1, r2, r3, r4, r5
  <2>7. /\ Inspector!AntigravityLastStep \in Seq(Rules)
        /\ Applies(Inspector!AntigravityLastStep) <=> r1.when \/ r2.when \/ r3.when \/ r4.when \/ r5.when
        /\ Inspector!Decide(Inspector!AntigravityLastStep) = IF r1.when THEN r1.then ELSE IF r2.when THEN r2.then ELSE IF r3.when THEN r3.then ELSE IF r4.when THEN r4.then ELSE IF r5.when THEN r5.then ELSE Inspector!Keep
    BY <2>1, <2>2, <2>3, <2>4, <2>5, <2>6, TableOf5
  <2> QED BY <2>1, <2>2, <2>3, <2>4, <2>5, <2>7
<1>7. /\ Inspector!AntigravityAtRest \in Seq(Rules)
      /\ HasSpinner => /\ Applies(Inspector!AntigravityAtRest)
                       /\ Inspector!Decide(Inspector!AntigravityAtRest) =
                            IF Inspector!Grace /\ Inspector!Last("thinking", screen.pane) = 0 THEN Inspector!Keep ELSE Inspector!To("working")
  <2> DEFINE r1 == Inspector!Rule(HasSpinner /\ Inspector!Grace /\ Inspector!Last("thinking", screen.pane) = 0, Inspector!Keep)
             r2 == Inspector!Rule(HasSpinner, Inspector!To("working"))
             r3 == Inspector!Rule(HasPrompt /\ Inspector!AntigravityHeld, Inspector!Keep)
             r4 == Inspector!Rule(HasPrompt, Inspector!To("idle"))
             r5 == Inspector!Rule(shown.state = "blocked" /\ Inspector!AntigravityHeld /\ ~HasSpinner, Inspector!Keep)
             r6 == Inspector!Rule(shown.state = "blocked", Inspector!To("idle"))
  <2>1. r1 \in Rules /\ r1.when = (HasSpinner /\ Inspector!Grace /\ Inspector!Last("thinking", screen.pane) = 0) /\ r1.then = Inspector!Keep
    BY <1>1, <1>2, Outcomes, RuleOf
  <2>2. r2 \in Rules /\ r2.when = (HasSpinner) /\ r2.then = Inspector!To("working")
    BY <1>1, <1>2, Outcomes, RuleOf
  <2>3. r3 \in Rules /\ r3.when = (HasPrompt /\ Inspector!AntigravityHeld) /\ r3.then = Inspector!Keep
    BY <1>1, <1>2, Outcomes, RuleOf
  <2>4. r4 \in Rules /\ r4.when = (HasPrompt) /\ r4.then = Inspector!To("idle")
    BY <1>1, <1>2, Outcomes, RuleOf
  <2>5. r5 \in Rules /\ r5.when = (shown.state = "blocked" /\ Inspector!AntigravityHeld /\ ~HasSpinner) /\ r5.then = Inspector!Keep
    BY <1>1, <1>2, Outcomes, RuleOf
  <2>6. r6 \in Rules /\ r6.when = (shown.state = "blocked") /\ r6.then = Inspector!To("idle")
    BY <1>1, <1>2, Outcomes, RuleOf
  <2>7. Inspector!AntigravityAtRest = <<r1, r2, r3, r4, r5, r6>>
    BY DEF Inspector!AntigravityAtRest, HasPrompt, HasSpinner
  <2> HIDE DEF r1, r2, r3, r4, r5, r6
  <2>8. /\ Inspector!AntigravityAtRest \in Seq(Rules)
        /\ Applies(Inspector!AntigravityAtRest) <=> r1.when \/ r2.when \/ r3.when \/ r4.when \/ r5.when \/ r6.when
        /\ Inspector!Decide(Inspector!AntigravityAtRest) = IF r1.when THEN r1.then ELSE IF r2.when THEN r2.then ELSE IF r3.when THEN r3.then ELSE IF r4.when THEN r4.then ELSE IF r5.when THEN r5.then ELSE IF r6.when THEN r6.then ELSE Inspector!Keep
    BY <2>1, <2>2, <2>3, <2>4, <2>5, <2>6, <2>7, TableOf6
  <2> QED BY <2>1, <2>2, <2>3, <2>4, <2>5, <2>6, <2>8
<1> QED BY <1>2, <1>3, <1>4, <1>5, <1>6, <1>7

LEMMA NoRequest ==
  ASSUME NEW pane, NEW from, NEW strict \in BOOLEAN,
         \A i \in DOMAIN pane : pane[i] \notin {"header", "choice"},
         \A i, k \in DOMAIN pane : ~(pane[i] = "hint" /\ pane[k] = "option")
  PROVE  Inspector!Request(pane, from, strict) = FALSE
<1> DEFINE lines == {i \in DOMAIN pane : i >= from}
           header == {i \in lines : pane[i] = "header"}
           start == IF header = {} THEN from ELSE CHOOSE i \in header : \A k \in header : i <= k
           below == {pane[i] : i \in {k \in lines : k >= start}}
<1>1. header = {}
  OBVIOUS
<1>2. \A x \in below : \E i \in DOMAIN pane : x = pane[i]
  OBVIOUS
<1> HIDE DEF below
<1>3. "choice" \notin below /\ ~({"hint", "option"} \subseteq below)
  BY <1>2
<1> QED BY <1>1, <1>3 DEF Inspector!Request, below

\* The CLI's request, or that of a subagent, is seen; older text is not taken for one.
LEMMA Approval ==
  ASSUME Seen, Readable, program = "antigravity", does # "gone"
  PROVE  /\ Inspector!AsksForApproval \in BOOLEAN
         /\ does \in {"permission", "subagent asks"} => Inspector!AsksForApproval
         /\ does \in {"thinking", "rest", "subagent runs"} => ~Inspector!AsksForApproval
<1> DEFINE pane == screen.pane
           prompt == Inspector!Near("prompt", pane)
<1>1. prompt \in Nat /\ Inspector!Last("confirm", pane) \in Nat
  BY Lines DEF Inspector!Near, Inspector!Last
<1>2. \A q \in Quoted[program] : q \notin {"header", "choice", "alert", "mention", "confirm", "prompt"}
  BY DEF Seen, Readable, Misread
<1>3. PICK old, live : Drawing(pane, old, live)
  BY DEF Seen
<1>11. does \in Inspector!Doings(program)
  BY DEF Seen
<1> HIDE DEF pane
<1>4. /\ Len(old) \in {0, 1} /\ Len(live) \in {1, 2}
      /\ Len(pane) = Len(old) + Len(live) /\ DOMAIN pane = 1 .. Len(pane)
      /\ Len(old) = 1 => pane[1] \in Quoted[program]
      /\ \A i \in 1 .. Len(live) : pane[Len(old) + i] = live[i]
  BY <1>3, <1>11, Drawn
<1>5. \A i \in DOMAIN pane : \/ pane[i] \in Quoted[program] /\ i = 1
                             \/ \E k \in 1 .. Len(live) : i = Len(old) + k /\ pane[i] = live[k]
  <2> TAKE i \in DOMAIN pane
  <2>1. CASE i <= Len(old)
    <3>1. \A n \in {0, 1}, m \in Nat : m > 0 /\ m <= n => m = 1 /\ n = 1
      OBVIOUS
    <3>2. i \in Nat /\ i > 0
      BY <1>4
    <3>3. i = 1 /\ Len(old) = 1
      BY <1>4, <2>1, <3>1, <3>2
    <3> QED BY <1>4, <3>3
  <2>2. CASE i > Len(old)
    <3>1. i - Len(old) \in 1 .. Len(live) /\ i = Len(old) + (i - Len(old))
      BY <1>4, <2>2
    <3> QED BY <1>4, <3>1
  <2> QED BY <1>4, <2>1, <2>2
<1>6. \A k \in 1 .. Len(live) : Len(old) + k \in DOMAIN pane /\ Len(old) + k \in Nat /\ Len(old) + k > 0
  BY <1>4
<1>7. Inspector!AsksForApproval \in BOOLEAN
  BY <1>1 DEF Inspector!AsksForApproval, pane
<1>8. CASE does = "permission"
  <2>1. live \in {<<"header", "choice">>, <<"option", "hint">>, <<"confirm">>}
    BY <1>3, <1>8 DEF Drawing, Inspector!Live
  <2>2. \A k \in 1 .. Len(live) : live[k] \in {"header", "choice", "option", "hint", "confirm"}
    BY <2>1
  <2>3. \A i \in DOMAIN pane : pane[i] # "prompt"
    BY <1>2, <1>5, <2>2
  <2>4. prompt = 0
    <3>1. Len(pane) \in Nat /\ Inspector!NearLines(pane) \subseteq 1 .. Len(pane)
      BY <1>4 DEF Inspector!NearLines
    <3>2. prompt # 0 => prompt \in Inspector!NearLines(pane) /\ pane[prompt] \in {"prompt"}
      BY <1>4, <3>1, LastIs DEF Inspector!Near
    <3> QED BY <1>4, <2>3, <3>1, <3>2
  <2>5. ASSUME live = <<"confirm">> PROVE Inspector!AsksForApproval
    <3>1. pane[Len(old) + 1] = "confirm" /\ Len(old) + 1 \in DOMAIN pane
      BY <1>4, <1>6, <2>5
    <3>2. Len(pane) \in Nat
      BY <1>4
    <3>3. Len(old) + 1 <= Inspector!Last("confirm", pane)
      BY <1>4, <3>1, <3>2, LastIs DEF Inspector!Last
    <3>4. Inspector!Last("confirm", pane) > 0
      BY <1>1, <1>4, <3>3
    <3> QED BY <2>4, <3>4 DEF Inspector!AsksForApproval, pane
  <2>6. ASSUME live = <<"header", "choice">> PROVE Inspector!AsksForApproval
    <3>1. pane[Len(old) + 1] = "header" /\ Len(old) + 1 \in DOMAIN pane
      BY <1>4, <1>6, <2>6
    <3>2. Len(old) + 1 >= 0 + 1
      BY <1>4
    <3>3. Inspector!Request(pane, prompt + 1, FALSE)
      BY <2>4, <3>1, <3>2 DEF Inspector!Request
    <3> QED BY <3>3 DEF Inspector!AsksForApproval, pane
  <2>7. ASSUME live = <<"option", "hint">> PROVE Inspector!AsksForApproval
    <3>1. /\ pane[Len(old) + 1] = "option" /\ Len(old) + 1 \in DOMAIN pane
          /\ pane[Len(old) + 2] = "hint" /\ Len(old) + 2 \in DOMAIN pane
      <4>1. Len(live) = 2 /\ live[1] = "option" /\ live[2] = "hint"
        BY <2>7
      <4>2. 1 \in 1 .. Len(live) /\ 2 \in 1 .. Len(live)
        BY <4>1
      <4> QED BY <1>4, <1>6, <4>1, <4>2
    <3>2. Len(old) + 1 >= 0 + 1 /\ Len(old) + 2 >= 0 + 1
      BY <1>4
    <3> DEFINE lines == {i \in DOMAIN pane : i >= prompt + 1}
               header == {i \in lines : pane[i] = "header"}
               below(start) == {pane[i] : i \in {k \in lines : k >= start}}
    <3>3. Len(old) + 1 \in lines /\ Len(old) + 2 \in lines
      BY <2>4, <3>1, <3>2
    <3>4. {"hint", "option"} \subseteq below(prompt + 1)
      BY <2>4, <3>1, <3>2, <3>3
    <3>5. Inspector!Request(pane, prompt + 1, FALSE)
      <4>1. CASE header # {}
        BY <4>1 DEF Inspector!Request
      <4>2. CASE header = {}
        BY <3>4, <4>2 DEF Inspector!Request
      <4> QED BY <4>1, <4>2
    <3> QED BY <3>5 DEF Inspector!AsksForApproval, pane
  <2> QED BY <2>1, <2>5, <2>6, <2>7, <1>7, <1>8
<1>9. CASE does = "subagent asks"
  <2>1. live \in {<<"alert", "prompt">>, <<"mention", "prompt">>}
    BY <1>3, <1>9 DEF Drawing, Inspector!Live
  <2>2. Len(live) = 2 /\ live[1] \in {"alert", "mention"}
    BY <2>1
  <2>3. Len(old) + 1 \in DOMAIN pane /\ pane[Len(old) + 1] \in {"alert", "mention"}
    BY <1>4, <1>6, <2>2
  <2>4. screen.subs # "none"
    BY <1>9 DEF Seen
  <2>5. Inspector!AsksForApproval
    BY <2>3, <2>4 DEF Inspector!AsksForApproval, pane
  <2> QED BY <1>7, <1>9, <2>5
<1>10. CASE does \in {"thinking", "rest", "subagent runs"}
  <2>1. live \in {<<"spinner">>, <<"spinner", "text">>, <<"prompt">>, <<"prompt", "text">>}
    BY <1>3, <1>10 DEF Drawing, Inspector!Live
  <2>2. \A k \in 1 .. Len(live) : live[k] \in {"spinner", "prompt", "text"}
    BY <2>1
  <2>3. \A i \in DOMAIN pane : pane[i] \in Quoted[program] \cup {"spinner", "prompt", "text"}
                               /\ (i # 1 => pane[i] \in {"spinner", "prompt", "text"})
    BY <1>5, <2>2
  <2>4. \A i \in DOMAIN pane : pane[i] \notin {"header", "choice", "alert", "mention", "confirm"}
    BY <1>2, <2>3
  <2>5. \A i, k \in DOMAIN pane : ~(pane[i] = "hint" /\ pane[k] = "option")
    BY <2>3
  <2>6. ~Inspector!Request(pane, prompt + 1, FALSE) /\ ~Inspector!Request(pane, 1, TRUE)
    BY <2>4, <2>5, NoRequest
  <2>7. Inspector!Last("confirm", pane) = 0
    <3>1. Len(pane) \in Nat
      BY <1>4
    <3>2. Inspector!Last("confirm", pane) # 0 =>
            Inspector!Last("confirm", pane) \in DOMAIN pane /\ pane[Inspector!Last("confirm", pane)] \in {"confirm"}
      BY <1>4, <3>1, LastIs DEF Inspector!Last
    <3> QED BY <2>4, <3>2
  <2>8. ~(Inspector!Last("confirm", pane) > 0)
    BY <2>7
  <2>9. ~Inspector!AsksForApproval
    BY <2>4, <2>6, <2>8 DEF Inspector!AsksForApproval, pane
  <2> QED BY <1>7, <1>10, <2>9
<1> QED BY <1>7, <1>8, <1>9, <1>10

LEMMA AntigravityReads ==
  ASSUME Seen, Readable, program = "antigravity", NEW d \in {"prompt", "spinner"}, Shows(screen.pane, d)
  PROVE  (HasPrompt <=> d = "prompt") /\ (HasSpinner <=> d = "spinner")
<1> DEFINE near == Inspector!NearLines(screen.pane)
           prompt == Inspector!LastOf({"prompt"}, screen.pane, near)
           spinner == Inspector!LastOf({"spinner"}, screen.pane, near)
<1>1. PICK j \in {1, 2} : \A marks : "text" \notin marks =>
        /\ Inspector!LastOf(marks, screen.pane, near) \in 0 .. j
        /\ Inspector!LastOf(marks, screen.pane, near) = j <=> d \in marks
  BY Lowest DEF Marks
<1>2. prompt \in 0 .. j /\ (prompt = j <=> d = "prompt")
      /\ spinner \in 0 .. j /\ (spinner = j <=> d = "spinner")
  BY <1>1
<1>3. Inspector!AntigravityMarks = [hasPrompt |-> prompt > 0, hasSpinner |-> ~(prompt > 0) /\ spinner > 0]
  BY DEF Inspector!AntigravityMarks, Inspector!Near
<1>4. d = "spinner" => prompt = 0
  <2>1. "prompt" \notin Quoted[program]
    BY DEF Seen, Readable, Misread
  <2>2. PICK k \in {1, 2}, n \in {1, 2, 3} :
          /\ n \in {k, k + 1} /\ DOMAIN screen.pane = 1 .. n /\ screen.pane[k] = d
          /\ n = k + 1 => screen.pane[n] = "text"
          /\ k = 2 => screen.pane[1] \in Quoted[program]
    BY DEF Shows
  <2>3. d = "spinner" => \A i \in 1 .. n : screen.pane[i] # "prompt"
    BY <2>1, <2>2
  <2>4. n \in Nat /\ near \subseteq 1 .. n
    BY <2>2 DEF Inspector!NearLines
  <2>5. prompt # 0 => prompt \in near /\ screen.pane[prompt] \in {"prompt"}
    BY <2>2, <2>4, LastIs
  <2> QED BY <2>3, <2>4, <2>5
<1> HIDE DEF prompt, spinner
<1>5. Inspector!AntigravityMarks.hasPrompt = (prompt > 0)
      /\ Inspector!AntigravityMarks.hasSpinner = (~(prompt > 0) /\ spinner > 0)
  BY <1>3
<1>6. j \in Nat /\ j > 0
  BY <1>1
<1>7. CASE d = "prompt"
  <2>1. prompt > 0
    BY <1>2, <1>6, <1>7
  <2> QED BY <1>5, <1>7, <2>1 DEF HasPrompt, HasSpinner
<1>8. CASE d = "spinner"
  <2>1. ~(prompt > 0) /\ spinner > 0
    BY <1>2, <1>4, <1>6, <1>8
  <2> QED BY <1>5, <1>8, <2>1 DEF HasPrompt, HasSpinner
<1> QED BY <1>7, <1>8

LEMMA AntigravityJudged ==
  ASSUME Row, Seen, Readable, program = "antigravity", does # "gone"
  PROVE  Judged(Inspector!Decide(Inspector!AntigravityAsks \o Inspector!AntigravityTranscript))
<1>1. Inspector!Verdict = Inspector!Decide(Inspector!InspectAntigravityStatus)
  BY DEF Inspector!Verdict, Seen
<1>2. screen.subs = IF does \in {"subagent asks", "subagent runs"} THEN "running" ELSE "none"
  BY DEF Seen
<1>3. /\ Inspector!AsksForApproval \in BOOLEAN
      /\ does \in {"permission", "subagent asks"} => Inspector!AsksForApproval
      /\ does \in {"thinking", "rest", "subagent runs"} => ~Inspector!AsksForApproval
  BY Approval
<1>4. screen.subs \in {"none", "running"}
  BY <1>2
<1> DEFINE at == Inspector!AntigravityAsks \o Inspector!AntigravityTranscript
           ats == at \o Inspector!AntigravitySubagents
           atsl == ats \o Inspector!AntigravityLastStep
<1>5. /\ Applies(at) <=> Applies(Inspector!AntigravityAsks) \/ Applies(Inspector!AntigravityTranscript)
      /\ Inspector!Decide(at) = IF Applies(Inspector!AntigravityAsks) THEN Inspector!Decide(Inspector!AntigravityAsks)
                      ELSE Inspector!Decide(Inspector!AntigravityTranscript)
      /\ at \in Seq(Rules)
  BY <1>3, <1>4, AntigravityTables, TwoTables
<1> HIDE DEF at
<1>6. /\ Applies(ats) <=> Applies(at) \/ Applies(Inspector!AntigravitySubagents)
      /\ Inspector!Decide(ats) = IF Applies(at) THEN Inspector!Decide(at) ELSE Inspector!Decide(Inspector!AntigravitySubagents)
      /\ ats \in Seq(Rules)
  BY <1>3, <1>4, <1>5, AntigravityTables, TwoTables
<1> HIDE DEF ats
<1>7. /\ Applies(atsl) <=> Applies(ats) \/ Applies(Inspector!AntigravityLastStep)
      /\ Inspector!Decide(atsl) = IF Applies(ats) THEN Inspector!Decide(ats) ELSE Inspector!Decide(Inspector!AntigravityLastStep)
      /\ atsl \in Seq(Rules)
  BY <1>3, <1>4, <1>6, AntigravityTables, TwoTables
<1> HIDE DEF atsl
<1>8. Inspector!Decide(atsl \o Inspector!AntigravityAtRest) =
        IF Applies(atsl) THEN Inspector!Decide(atsl) ELSE Inspector!Decide(Inspector!AntigravityAtRest)
  BY <1>3, <1>4, <1>7, AntigravityTables, TwoTables
<1>9. Inspector!InspectAntigravityStatus = atsl \o Inspector!AntigravityAtRest
  BY DEF Inspector!InspectAntigravityStatus, at, ats, atsl
<1>10. /\ Applies(at) => Inspector!Verdict = Inspector!Decide(at)
       /\ ~Applies(at) /\ Applies(Inspector!AntigravitySubagents) => Inspector!Verdict = Inspector!Decide(Inspector!AntigravitySubagents)
       /\ ~Applies(at) /\ ~Applies(Inspector!AntigravitySubagents) =>
            /\ Applies(Inspector!AntigravityLastStep) => Inspector!Verdict = Inspector!Decide(Inspector!AntigravityLastStep)
            /\ ~Applies(Inspector!AntigravityLastStep) => Inspector!Verdict = Inspector!Decide(Inspector!AntigravityAtRest)
  BY <1>1, <1>5, <1>6, <1>7, <1>8, <1>9
<1>11. does \in {"thinking", "rest", "permission", "question", "subagent runs", "subagent asks"}
  BY DEF Seen, Inspector!Doings, Inspector!Waits
<1>12. /\ Applies(Inspector!AntigravityAsks) <=> Inspector!AsksForApproval
       /\ Inspector!AsksForApproval => Inspector!Decide(Inspector!AntigravityAsks) = Inspector!BlockOn("permission")
       /\ Applies(Inspector!AntigravityTranscript) <=> screen.entry \in {"ask", "askPermission"}
       /\ Applies(Inspector!AntigravitySubagents) <=> screen.subs = "running"
       /\ screen.subs = "running" =>
            Inspector!Decide(Inspector!AntigravitySubagents) = IF Inspector!AntigravityHeld THEN Inspector!Keep ELSE Inspector!To("working")
  BY <1>3, <1>4, AntigravityTables
<1>13. Inspector!AntigravityHeld => Inspector!Grace
  BY DEF Inspector!AntigravityHeld
<1>14. CASE does \in {"permission", "subagent asks"}
  <2>1. Inspector!Verdict = Inspector!Decide(at) /\ Inspector!Verdict = Inspector!BlockOn("permission")
    BY <1>3, <1>5, <1>10, <1>12, <1>14
  <2>2. Inspector!Expected(does).state = "blocked"
    BY <1>14, Outcomes DEF Inspector!Expected
  <2> QED BY <2>1, <2>2, Outcomes DEF Judged, at
<1>15. CASE does = "question"
  <2>1. screen.entry = "ask"
    BY <1>15 DEF Seen, Inspector!Entries
  <2>2. Inspector!Decide(Inspector!AntigravityTranscript) = Inspector!BlockOn("question")
    BY <1>3, <1>4, <2>1, AntigravityTables
  <2>3. Inspector!Verdict = Inspector!Decide(at) /\ Inspector!Verdict \in {Inspector!BlockOn("permission"), Inspector!BlockOn("question")}
    BY <1>3, <1>5, <1>10, <1>12, <2>1, <2>2
  <2>4. Inspector!Expected(does).state = "blocked"
    BY <1>15, Outcomes DEF Inspector!Expected
  <2> QED BY <2>3, <2>4, Outcomes DEF Judged, at
<1>16. CASE does = "subagent runs"
  <2>1. screen.entry = "tool" /\ screen.subs = "running"
    BY <1>2, <1>16 DEF Seen, Inspector!Entries
  <2>2. Inspector!Verdict = IF Inspector!AntigravityHeld THEN Inspector!Keep ELSE Inspector!To("working")
    BY <1>3, <1>5, <1>10, <1>12, <1>16, <2>1
  <2>3. Inspector!Expected(does) = Inspector!To("working")
    BY <1>16 DEF Inspector!Expected
  <2> QED BY <1>13, <2>2, <2>3, Outcomes DEF Judged
<1>17. CASE does \in {"thinking", "rest"}
  <2>1. screen.entry \in {"user", "tool", "end"} /\ screen.subs = "none"
        /\ (screen.entry = "end" <=> does = "rest")
    BY <1>2, <1>17 DEF Seen, Inspector!Entries
  <2>2. ~Applies(at) /\ ~Applies(Inspector!AntigravitySubagents)
    BY <1>3, <1>5, <1>12, <1>17, <2>1
  <2>3. CASE does = "rest"
    <3>1. Shows(screen.pane, "prompt")
      BY <2>3, ShowsMark DEF Inspector!Live, Marks
    <3>2. HasPrompt /\ ~HasSpinner
      BY <1>17, <3>1, AntigravityReads
    <3>3. Inspector!Verdict = IF Inspector!AntigravityHeld /\ ~screen.after THEN Inspector!Keep ELSE Inspector!To("idle")
      BY <1>3, <1>4, <1>10, <2>1, <2>2, <2>3, <3>2, AntigravityTables
    <3>4. Inspector!Expected(does) = Inspector!To("idle")
      BY <2>3 DEF Inspector!Expected
    <3> QED BY <1>13, <3>3, <3>4, Outcomes DEF Judged
  <2>4. CASE does = "thinking"
    <3>1. Shows(screen.pane, "spinner")
      BY <2>4, ShowsMark DEF Inspector!Live, Marks
    <3>2. HasSpinner /\ ~HasPrompt
      BY <1>17, <3>1, AntigravityReads
    <3>3. /\ Inspector!Verdict = Inspector!Keep => Inspector!Grace
          /\ Inspector!Verdict \in {Inspector!Keep, Inspector!To("working")}
      <4>1. CASE screen.entry = "user"
        <5>1. Inspector!Verdict = IF Inspector!AntigravityHeld THEN Inspector!Keep ELSE Inspector!To("working")
          BY <1>3, <1>4, <1>10, <2>2, <3>2, <4>1, AntigravityTables
        <5> QED BY <1>13, <5>1, Outcomes
      <4>2. CASE screen.entry = "tool"
        <5>1. \/ Inspector!Verdict = Inspector!To("working")
              \/ Inspector!Verdict = IF Inspector!Grace /\ Inspector!Last("thinking", screen.pane) = 0 THEN Inspector!Keep ELSE Inspector!To("working")
          BY <1>3, <1>4, <1>10, <2>2, <3>2, <4>2, AntigravityTables
        <5> QED BY <5>1, Outcomes
      <4> QED BY <2>1, <2>4, <4>1, <4>2
    <3>4. Inspector!Expected(does) = Inspector!To("working")
      BY <2>4 DEF Inspector!Expected
    <3> QED BY <3>3, <3>4, Outcomes DEF Judged
  <2> QED BY <1>17, <2>3, <2>4
<1> QED BY <1>11, <1>14, <1>15, <1>16, <1>17

-----------------------------------------------------------------------------
(***************************************************************************)
(* Every a.                                                            *)
(***************************************************************************)
Full == program \in {"claude-code", "antigravity"} \/ does = "gone"

\* What a session whose agent asks is blocked on, whatever its row says.
Asked ==
  IF program = "claude-code" THEN Inspector!Decide(Inspector!ClaudeAsks)
  ELSE IF program = "antigravity" THEN Inspector!Decide(Inspector!AntigravityAsks \o Inspector!AntigravityTranscript)
  ELSE IF Inspector!Last("permission", screen.pane) > 0 THEN Inspector!BlockOn("permission") ELSE Inspector!BlockOn("question")

LEMMA PlainJudged ==
  ASSUME Row, Seen, Readable, ~Full
  PROVE  /\ Inspector!Verdict \in Verdicts
         /\ does \in Inspector!Waits => Inspector!Verdict = Asked /\ Inspector!Verdict.state = "blocked"
         /\ does \notin Inspector!Waits => Inspector!Verdict = IF shown.state = "blocked" THEN Inspector!To("idle") ELSE Inspector!Keep
<1> DEFINE permission == Inspector!Last("permission", screen.pane)
           question == Inspector!Last("question", screen.pane)
<1>1. permission \in Nat /\ question \in Nat
  BY Lines DEF Inspector!Last
<1>2. Inspector!Verdict = Inspector!Decide(Inspector!PlainRules)
  BY DEF Inspector!Verdict, Seen, Full
<1>3. (permission > 0) \in BOOLEAN /\ (question > 0) \in BOOLEAN
  BY <1>1
<1> HIDE DEF permission, question
<1> DEFINE r1 == Inspector!Rule(permission > 0, Inspector!BlockOn("permission"))
           r2 == Inspector!Rule(question > 0, Inspector!BlockOn("question"))
           r3 == Inspector!Rule(shown.state = "blocked", Inspector!To("idle"))
<1>4. /\ r1 \in Rules /\ r1.when = (permission > 0) /\ r1.then = Inspector!BlockOn("permission")
      /\ r2 \in Rules /\ r2.when = (question > 0) /\ r2.then = Inspector!BlockOn("question")
      /\ r3 \in Rules /\ r3.when = (shown.state = "blocked") /\ r3.then = Inspector!To("idle")
  BY <1>3, Outcomes, RuleOf
<1>5. Inspector!PlainRules = <<r1, r2, r3>>
  BY DEF Inspector!PlainRules, permission, question
<1> HIDE DEF r1, r2, r3
<1>6. Inspector!Decide(<<r1, r2, r3>>) =
        IF r1.when THEN r1.then ELSE IF r2.when THEN r2.then ELSE IF r3.when THEN r3.then ELSE Inspector!Keep
  BY <1>4, TableOf3
<1>7. Inspector!Verdict = IF permission > 0 THEN Inspector!BlockOn("permission")
                ELSE IF question > 0 THEN Inspector!BlockOn("question")
                ELSE IF shown.state = "blocked" THEN Inspector!To("idle") ELSE Inspector!Keep
  BY <1>2, <1>4, <1>5, <1>6
<1>8. \A q \in Quoted[program] : q \notin {"permission", "question"}
  BY DEF Seen, Readable, Misread, Full
<1>9. does \in {"thinking", "rest", "permission", "question"}
  BY DEF Seen, Full, Inspector!Doings, Inspector!Waits
<1>10. CASE does \in Inspector!Waits
  <2>1. Shows(screen.pane, does)
    BY <1>10, ShowsMark DEF Inspector!Live, Inspector!Waits, Marks, Full
  <2>2. PICK j \in {1, 2} : \A marks : "text" \notin marks =>
          /\ Inspector!LastOf(marks, screen.pane, DOMAIN screen.pane) \in 0 .. j
          /\ Inspector!LastOf(marks, screen.pane, DOMAIN screen.pane) = j <=> does \in marks
    BY <1>10, <2>1, Lowest DEF Inspector!Waits, Marks
  <2>3. /\ does = "permission" => permission > 0
        /\ does = "question" => question > 0
    BY <2>2 DEF Inspector!Last, permission, question
  <2>4. Inspector!Verdict = IF permission > 0 THEN Inspector!BlockOn("permission") ELSE Inspector!BlockOn("question")
    BY <1>7, <1>10, <2>3 DEF Inspector!Waits
  <2> QED BY <1>10, <2>4, Outcomes DEF Asked, Full, permission
<1>11. CASE does \notin Inspector!Waits
  <2>1. PICK d \in {"spinner", "prompt"} : Shows(screen.pane, d)
    <3>1. does = "thinking" => Shows(screen.pane, "spinner")
      BY ShowsMark DEF Inspector!Live, Marks
    <3>2. does = "rest" => Shows(screen.pane, "prompt")
      BY ShowsMark DEF Inspector!Live, Marks
    <3> QED BY <1>9, <1>11, <3>1, <3>2 DEF Inspector!Waits
  <2>2. /\ \A i \in DOMAIN screen.pane : screen.pane[i] \notin {"permission", "question"}
        /\ \E n \in {1, 2, 3} : DOMAIN screen.pane = 1 .. n
    <3>1. PICK j \in {1, 2}, n \in {1, 2, 3} :
            /\ n \in {j, j + 1} /\ DOMAIN screen.pane = 1 .. n /\ screen.pane[j] = d
            /\ n = j + 1 => screen.pane[n] = "text"
            /\ j = 2 => screen.pane[1] \in Quoted[program]
      BY <2>1 DEF Shows
    <3> QED BY <1>8, <3>1
  <2>3. permission = 0 /\ question = 0
    <3>1. PICK n \in Nat : DOMAIN screen.pane = 1 .. n
      BY <2>2
    <3>2. /\ permission # 0 => permission \in DOMAIN screen.pane
                               /\ screen.pane[permission] \in {"permission"}
          /\ question # 0 => question \in DOMAIN screen.pane
                             /\ screen.pane[question] \in {"question"}
      BY <3>1, LastIs DEF Inspector!Last, permission, question
    <3> QED BY <2>2, <3>2
  <2>4. Inspector!Verdict = IF shown.state = "blocked" THEN Inspector!To("idle") ELSE Inspector!Keep
    BY <1>7, <2>3
  <2> QED BY <1>11, <2>4, Outcomes
<1> QED BY <1>10, <1>11

\* What an inspection finds.
Finding ==
  /\ Inspector!Verdict \in Verdicts
  /\ Full => (Inspector!Verdict = Inspector!Keep => Inspector!Grace) /\ (Inspector!Verdict # Inspector!Keep => Inspector!Verdict.state = Inspector!Expected(does).state)
  /\ ~Full => /\ does \in Inspector!Waits => Inspector!Verdict.state = "blocked"
              /\ does \notin Inspector!Waits => Inspector!Verdict = IF shown.state = "blocked" THEN Inspector!To("idle") ELSE Inspector!Keep
  /\ Inspector!Verdict.state = "blocked" => Inspector!Verdict = Asked

LEMMA InspectorSound == Row /\ Seen /\ Readable => Finding
<1> SUFFICES ASSUME Row, Seen, Readable PROVE Finding
  OBVIOUS
<1>1. CASE does = "gone"
  <2>1. Inspector!Verdict = Inspector!To("ended") /\ Inspector!Expected(does) = Inspector!To("ended")
    BY <1>1 DEF Inspector!Verdict, Seen, Inspector!Expected
  <2> QED BY <1>1, <2>1, Outcomes DEF Full, Finding
<1>2. CASE does # "gone" /\ program \in {"claude-code", "antigravity"}
  <2>1. Judged(Asked)
    BY <1>2, ClaudeJudged, AntigravityJudged DEF Asked
  <2>2. Inspector!Keep.state # "blocked"
    BY DEF Inspector!Keep
  <2> QED BY <1>2, <2>1, <2>2 DEF Judged, Full, Finding
<1>3. CASE ~Full
  <2>1. /\ Inspector!Verdict \in Verdicts
        /\ does \in Inspector!Waits => Inspector!Verdict = Asked /\ Inspector!Verdict.state = "blocked"
        /\ does \notin Inspector!Waits => Inspector!Verdict = IF shown.state = "blocked" THEN Inspector!To("idle") ELSE Inspector!Keep
    BY <1>3, PlainJudged
  <2>2. Inspector!Keep.state # "blocked" /\ Inspector!To("idle").state # "blocked"
    BY DEF Inspector!Keep, Inspector!To
  <2> QED BY <1>3, <2>1, <2>2 DEF Finding
<1> QED BY <1>1, <1>2, <1>3 DEF Full

InspectorIInv == Row /\ Seen /\ Inspector!Agrees /\ Inspector!Steady

LEMMA InspectorInitially == Inspector!Init => InspectorIInv
<1> SUFFICES ASSUME Inspector!Init PROVE InspectorIInv
  OBVIOUS
<1>1. Row /\ Inspector!Agrees /\ Inspector!Steady
  BY DEF Inspector!Init, Row, Inspector!Agrees, Inspector!Steady, Inspector!Waits
<1>2. Seen
  <2>1. Drawing(screen.pane, <<>>, <<"prompt">>)
    <3>1. <<>> \o <<"prompt">> = <<"prompt">>
      OBVIOUS
    <3> QED BY <3>1 DEF Inspector!Init, Drawing, Inspector!Live
  <2> QED BY <2>1 DEF Inspector!Init, Seen, Inspector!Entries, Inspector!Doings
<1> QED BY <1>1, <1>2 DEF InspectorIInv

LEMMA ActsKeeps ==
  ASSUME InspectorIInv, NEW next \in Inspector!Doings(program), Inspector!Acts(next)
  PROVE  InspectorIInv'
<1>1. program' = program /\ does' = next /\ checked' = FALSE
  BY DEF Inspector!Acts
<1>2. Row'
  <2>1. CASE shown' = shown
    BY <2>1 DEF InspectorIInv, Row
  <2>2. CASE shown' # shown
    <3>1. PICK e \in {Inspector!Expected(next)} \ {Inspector!To("ended")} :
            shown' = [state |-> e.state, block |-> e.block, fresh |-> e.state = "blocked"]
      BY <2>2 DEF Inspector!Acts
    <3>2. e \in {Inspector!To("working"), Inspector!To("idle")} \cup {Inspector!BlockOn(kind) : kind \in Inspector!Waits}
      BY <3>1 DEF Inspector!Expected, Inspector!Doings, Inspector!Waits
    <3>3. /\ e.state \in {"working", "blocked", "idle"} /\ e.block \in Inspector!Waits \cup {"none"}
          /\ (e.block # "none") = (e.state = "blocked")
      BY <3>2 DEF Inspector!To, Inspector!BlockOn, Inspector!Waits
    <3> QED BY <3>1, <3>3 DEF Row
  <2> QED BY <2>1, <2>2
<1>3. Seen'
  <2>1. PICK old \in {<<>>} \cup {<<q>> : q \in Quoted[program]}, live \in Inspector!Live(program, next),
             entry \in Inspector!Entries(program, next), after \in BOOLEAN,
             answered \in IF next \in {"thinking", "rest"} THEN BOOLEAN ELSE {FALSE} :
        screen' = [pane |-> old \o live, entry |-> entry, after |-> after, answered |-> answered,
                   task |-> FALSE, alive |-> next # "gone", young |-> next = "thinking",
                   subs |-> IF next \in {"subagent asks", "subagent runs"} THEN "running" ELSE "none"]
    <3> DEFINE Olds == {<<>>} \cup {<<q>> : q \in Quoted[program]}
               Lives == Inspector!Live(program, next)
               Ends == Inspector!Entries(program, next)
               answers == IF next \in {"thinking", "rest"} THEN BOOLEAN ELSE {FALSE}
               alive == next # "gone"
               young == next = "thinking"
               helpers == IF next \in {"subagent asks", "subagent runs"} THEN "running" ELSE "none"
    <3>1. Inspector!Screens(program, next) =
            {[pane |-> old \o live, entry |-> entry, after |-> after, answered |-> answered,
              task |-> FALSE, alive |-> alive, young |-> young, subs |-> helpers] :
                old \in Olds, live \in Lives, entry \in Ends, after \in BOOLEAN,
                answered \in answers}
      BY DEF Inspector!Screens
    <3>2. screen' \in Inspector!Screens(program, next)
      BY DEF Inspector!Acts
    <3>3. \E old \in Olds, live \in Lives, entry \in Ends, after \in BOOLEAN, answered \in answers :
            screen' = [pane |-> old \o live, entry |-> entry, after |-> after,
                       answered |-> answered, task |-> FALSE, alive |-> alive, young |-> young,
                       subs |-> helpers]
      <4> HIDE DEF Olds, Lives, Ends, answers, alive, young, helpers
      <4> QED BY <3>1, <3>2, SMT
    <3> QED BY <3>3
  <2>2. Drawing(screen.pane, old, live)'
    BY <1>1, <2>1 DEF Drawing
  <2>3. answered \in BOOLEAN
    BY <2>1
  <2>4. program' \in Programs /\ does' \in Inspector!Doings(program')
    BY <1>1 DEF InspectorIInv, Seen
  <2>5. (\E older, drawn : Drawing(screen.pane, older, drawn))'
    BY <2>2
  <2>6. /\ screen'.entry \in Inspector!Entries(program', does')
        /\ screen'.after \in BOOLEAN /\ screen'.answered \in BOOLEAN /\ screen'.young \in BOOLEAN
        /\ screen'.task = FALSE /\ screen'.alive = (does' # "gone")
        /\ screen'.subs = IF does' \in {"subagent asks", "subagent runs"} THEN "running" ELSE "none"
    BY <1>1, <2>1, <2>3
  <2> QED BY <2>4, <2>5, <2>6 DEF Seen
<1> QED BY <1>1, <1>2, <1>3 DEF InspectorIInv, Inspector!Agrees, Inspector!Steady

LEMMA AgesKeeps ==
  ASSUME InspectorIInv, Inspector!Ages
  PROVE  InspectorIInv'
<1>1. UNCHANGED <<program, does, screen>> /\ checked' = FALSE /\ shown' = [shown EXCEPT !.fresh = FALSE]
  BY DEF Inspector!Ages
<1>2. Row'
  BY <1>1 DEF InspectorIInv, Row
<1>3. Seen'
  BY <1>1 DEF InspectorIInv, Seen, Drawing
<1> QED BY <1>1, <1>2, <1>3 DEF InspectorIInv, Inspector!Agrees, Inspector!Steady

\* What is read decides, and the row as far as it is blocked.
LEMMA SameAsked ==
  ASSUME UNCHANGED <<program, does, screen>>
  PROVE  /\ Inspector!ClaudeMarks' = Inspector!ClaudeMarks /\ Inspector!ClaudeAsks' = Inspector!ClaudeAsks
         /\ Inspector!AntigravityAsks' = Inspector!AntigravityAsks
         /\ Inspector!AntigravityTranscript' = Inspector!AntigravityTranscript
         /\ Inspector!AntigravityMarks' = Inspector!AntigravityMarks
         /\ Asked' = Asked /\ Full' = Full
<1>1. program' = program /\ does' = does /\ screen' = screen
  OBVIOUS
<1>2. Inspector!ClaudeMarks' = Inspector!ClaudeMarks
  BY <1>1 DEF Inspector!ClaudeMarks
<1>3. Inspector!ClaudeAsks' = Inspector!ClaudeAsks
  BY <1>2 DEF Inspector!ClaudeAsks
<1>4. Inspector!AsksForApproval' = Inspector!AsksForApproval
  BY <1>1 DEF Inspector!AsksForApproval
<1>5. Inspector!AntigravityAsks' = Inspector!AntigravityAsks
  BY <1>4 DEF Inspector!AntigravityAsks
<1>6. Inspector!AntigravityTranscript' = Inspector!AntigravityTranscript
  BY <1>1 DEF Inspector!AntigravityTranscript
<1>7. Inspector!AntigravityMarks' = Inspector!AntigravityMarks
  BY <1>1 DEF Inspector!AntigravityMarks
<1>8. Asked' = Asked
  BY <1>1, <1>3, <1>5, <1>6 DEF Asked
<1>9. Full' = Full
  BY <1>1 DEF Full
<1> QED BY <1>2, <1>3, <1>5, <1>6, <1>7, <1>8, <1>9

LEMMA SameVerdict ==
  ASSUME UNCHANGED <<program, does, screen, shown>>
  PROVE  Inspector!Verdict' = Inspector!Verdict
<1>1. program' = program /\ does' = does /\ screen' = screen /\ shown' = shown
  OBVIOUS
<1>2. Inspector!Grace' = Inspector!Grace /\ Inspector!ClaudeAnswered' = Inspector!ClaudeAnswered
  BY <1>1 DEF Inspector!Grace, Inspector!ClaudeAnswered
<1>3. Inspector!AntigravityHeld' = Inspector!AntigravityHeld
  BY <1>1, <1>2 DEF Inspector!AntigravityHeld
<1>4. Inspector!InspectClaudeStatus' = Inspector!InspectClaudeStatus
  <2>1. Inspector!ClaudeTranscript' = Inspector!ClaudeTranscript /\ Inspector!ClaudeBusy' = Inspector!ClaudeBusy
    BY <1>1, SameAsked DEF Inspector!ClaudeTranscript, Inspector!ClaudeBusy
  <2>2. Inspector!ClaudeAtRest' = Inspector!ClaudeAtRest
    BY <1>1, <1>2, SameAsked DEF Inspector!ClaudeAtRest
  <2> QED BY <1>1, <2>1, <2>2, SameAsked DEF Inspector!InspectClaudeStatus
<1>5. Inspector!InspectAntigravityStatus' = Inspector!InspectAntigravityStatus
  <2>1. Inspector!AntigravitySubagents' = Inspector!AntigravitySubagents
    BY <1>1, <1>3 DEF Inspector!AntigravitySubagents
  <2>2. Inspector!AntigravityLastStep' = Inspector!AntigravityLastStep
    BY <1>1, <1>3, SameAsked DEF Inspector!AntigravityLastStep
  <2>3. Inspector!AntigravityAtRest' = Inspector!AntigravityAtRest
    BY <1>1, <1>2, <1>3, SameAsked DEF Inspector!AntigravityAtRest
  <2> QED BY <1>1, <2>1, <2>2, <2>3, SameAsked DEF Inspector!InspectAntigravityStatus
<1>6. Inspector!PlainRules' = Inspector!PlainRules
  BY <1>1 DEF Inspector!PlainRules
<1> QED BY <1>1, <1>4, <1>5, <1>6 DEF Inspector!Verdict

LEMMA InspectKeeps ==
  ASSUME InspectorIInv, Readable, Inspector!Inspect, (Row /\ Seen /\ Readable => Finding)'
  PROVE  InspectorIInv'
<1>1. UNCHANGED <<program, does, screen>> /\ shown' = Inspector!Corrected /\ Row /\ Seen
  BY DEF Inspector!Inspect, InspectorIInv
<1>2. Finding
  BY <1>1, InspectorSound
<1>3. \/ Inspector!Verdict = Inspector!Keep
      \/ /\ Inspector!Verdict # Inspector!Keep /\ Inspector!Verdict.state \in {"working", "idle", "ended", "blocked"}
         /\ Inspector!Verdict.block \in Inspector!Waits \cup {"none"}
         /\ (Inspector!Verdict.block # "none") = (Inspector!Verdict.state = "blocked")
         /\ Inspector!Verdict = [state |-> Inspector!Verdict.state, block |-> Inspector!Verdict.block]
  BY <1>2 DEF Finding, Verdicts, Inspector!Keep, Inspector!To, Inspector!BlockOn, Inspector!Waits
<1>4. Seen'
  BY <1>1 DEF Seen, Drawing
<1>5. Inspector!Expected(does)' = Inspector!Expected(does)
  BY <1>1
<1>6. Asked' = Asked /\ Full' = Full
  BY <1>1, SameAsked
<1>7. CASE shown' = shown
  <2>1. Row'
    BY <1>1, <1>7 DEF Row
  <2>2. Inspector!Corrected' = shown'
    <3>1. Inspector!Verdict' = Inspector!Verdict
      BY <1>1, <1>7, SameVerdict
    <3> QED BY <1>1, <1>7, <3>1 DEF Inspector!Corrected
  <2>3. Inspector!Verdict = Inspector!Keep \/ (shown.state = Inspector!Verdict.state /\ shown.block = Inspector!Verdict.block)
    BY <1>1, <1>3, <1>7 DEF Inspector!Corrected
  <2>4. Inspector!Agrees'
    <3> SUFFICES ASSUME ~shown.fresh
                 PROVE  IF program \in {"claude-code", "antigravity"} \/ does = "gone"
                        THEN shown.state = Inspector!Expected(does).state
                        ELSE (shown.state = "blocked") = (does \in Inspector!Waits)
      BY <1>1, <1>5, <1>7 DEF Inspector!Agrees
    <3>1. CASE Full
      BY <1>2, <2>3, <3>1 DEF Full, Finding, Inspector!Grace
    <3>2. CASE ~Full
      <4>1. Inspector!Keep.state # "blocked" /\ Inspector!To("idle").state # "blocked" /\ Inspector!To("idle") # Inspector!Keep
        BY DEF Inspector!Keep, Inspector!To
      <4> QED BY <1>2, <2>3, <3>2, <4>1 DEF Full, Finding
    <3> QED BY <3>1, <3>2
  <2> QED BY <1>4, <2>1, <2>2, <2>4 DEF InspectorIInv, Inspector!Steady
<1>8. CASE shown' # shown
  <2>1. /\ Inspector!Verdict # Inspector!Keep
        /\ shown' = [state |-> Inspector!Verdict.state, block |-> Inspector!Verdict.block,
                     fresh |-> Inspector!Verdict.state = "blocked"]
    BY <1>1, <1>8 DEF Inspector!Corrected
  <2>2. shown'.state = Inspector!Verdict.state /\ shown'.block = Inspector!Verdict.block
        /\ shown'.fresh = (Inspector!Verdict.state = "blocked")
    BY <2>1
  <2>3. Row'
    BY <1>3, <2>1, <2>2 DEF Row
  <2>4. Finding' /\ Inspector!Verdict' \in Verdicts
    BY <1>4, <2>3 DEF Readable, Finding
  <2>5. Inspector!Agrees'
    BY <1>1, <1>2, <1>5, <2>1, <2>2 DEF Inspector!Agrees, Finding, Full, Inspector!To
  <2>6. Inspector!Verdict' = Inspector!Keep \/ Inspector!Verdict' = Inspector!Verdict
    <3>1. CASE Inspector!Verdict.state = "blocked"
      <4>1. Full \/ does \in Inspector!Waits
        BY <1>2, <2>1, <3>1 DEF Finding, Inspector!To
      <4>2. Inspector!Verdict' = Inspector!Keep \/ Inspector!Verdict'.state = "blocked"
        BY <1>1, <1>2, <1>5, <1>6, <2>1, <2>4, <3>1, <4>1 DEF Finding
      <4> QED BY <1>2, <1>6, <2>4, <3>1, <4>2 DEF Finding
    <3>2. CASE Inspector!Verdict.state # "blocked" /\ Full
      <4>1. ~Inspector!Grace'
        BY <2>2, <3>2 DEF Inspector!Grace
      <4>2. Inspector!Verdict' # Inspector!Keep /\ Inspector!Verdict'.state = Inspector!Verdict.state
        BY <1>2, <1>5, <1>6, <2>1, <2>4, <3>2, <4>1 DEF Finding
      <4>3. \A v, w \in Verdicts \ {Inspector!Keep} : v.state = w.state /\ v.state # "blocked" => v = w
        BY DEF Verdicts, Inspector!Keep, Inspector!To, Inspector!BlockOn
      <4> QED BY <1>2, <2>1, <2>4, <3>2, <4>2, <4>3 DEF Finding
    <3>3. CASE Inspector!Verdict.state # "blocked" /\ ~Full
      <4>1. does \notin Inspector!Waits
        BY <1>2, <3>3 DEF Finding
      <4> QED BY <1>1, <1>6, <2>2, <2>4, <3>3, <4>1 DEF Finding
    <3> QED BY <3>1, <3>2, <3>3
  <2>7. Inspector!Corrected' = shown'
    <3>1. CASE Inspector!Verdict' = Inspector!Keep
      BY <3>1 DEF Inspector!Corrected
    <3>2. CASE Inspector!Verdict' = Inspector!Verdict
      BY <1>3, <2>1, <2>2, <3>2 DEF Inspector!Corrected
    <3> QED BY <2>6, <3>1, <3>2
  <2> QED BY <1>4, <2>3, <2>5, <2>7 DEF InspectorIInv, Inspector!Steady
<1> QED BY <1>7, <1>8

LEMMA InspectorInductive ==
  ASSUME InspectorIInv, Readable, [Inspector!Next]_(Inspector!vars),
         (Row /\ Seen /\ Readable => Finding)'
  PROVE  InspectorIInv'
<1>1. CASE UNCHANGED Inspector!vars
  <2>1. Inspector!Verdict' = Inspector!Verdict
    BY <1>1, SameVerdict DEF Inspector!vars
  <2>2. Row' /\ Seen' /\ Inspector!Agrees'
    BY <1>1 DEF InspectorIInv, Inspector!vars, Row, Seen, Drawing, Inspector!Agrees
  <2>3. Inspector!Steady'
    BY <1>1, <2>1 DEF InspectorIInv, Inspector!vars, Inspector!Steady, Inspector!Corrected
  <2> QED BY <2>2, <2>3 DEF InspectorIInv
<1>2. CASE Inspector!Next
  BY <1>2, ActsKeeps, AgesKeeps, InspectKeeps DEF Inspector!Next
<1> QED BY <1>1, <1>2

\* An inspection leaves the truth in the row, and a second one changes nothing.
THEOREM Inspected ==
  ASSUME Readable
  PROVE  Inspector!Spec => [](Inspector!TypeOK /\ Inspector!Agrees /\ Inspector!Steady)
<1>1. Inspector!Init => InspectorIInv
  BY InspectorInitially
<1>2. (Row /\ Seen /\ Readable => Finding)'
  BY InspectorSound, PTL
<1>3. InspectorIInv /\ [Inspector!Next]_(Inspector!vars) => InspectorIInv'
  BY <1>2, InspectorInductive
<1>4. InspectorIInv => Inspector!TypeOK /\ Inspector!Agrees /\ Inspector!Steady
  BY DEF InspectorIInv, Row, Inspector!TypeOK
<1> QED BY <1>1, <1>3, <1>4, PTL DEF Inspector!Spec

-----------------------------------------------------------------------------
(***************************************************************************)
(* A session that gets its ID.                                             *)
(***************************************************************************)

TurnWorking == Migration!Busy \cup {"launch"}
Turns == [at : Migration!Phases, orig : Migration!Ids \cup {NoId}, id : Migration!Ids \cup {NoId}]

(***************************************************************************)
(* The invariant.  A handler in flight has an ID; its prompt is new, and   *)
(* its listener on no list.  A turn at work has both its IDs.  A prompt    *)
(* that waits in a queue has not started, and one that a child is entered  *)
(* for has.                                                                *)
(***************************************************************************)
Handling ==
  /\ call # Migration!NoCall => call.id \in Migration!Ids /\ call.op # "idle"
  /\ call.op \in {"prompt", "enqueue"} =>
       call.for \in Prompts /\ turn[call.for].at = "new"
  /\ call.op = "subscribe" => call.for \in Tabs /\ \A k \in Migration!Ids : call.for \notin subs[k]

TurnStarted ==
  \A p \in Prompts :
    /\ turn[p].at \in TurnWorking => turn[p].orig \in Migration!Ids /\ turn[p].id \in Migration!Ids
    /\ turn[p].at \in {"move", "moved"} => turn[p].id \in Conversations

Queued ==
  \A k \in Migration!Ids : \A i \in DOMAIN queue[k] :
    /\ turn[queue[k][i]].at = "queued"
    /\ \A l \in Migration!Ids : \A j \in DOMAIN queue[l] :
         queue[k][i] = queue[l][j] => k = l /\ i = j

Entered ==
  \A k \in Migration!Ids : proc[k] # NoId =>
    /\ turn[proc[k]].at \notin {"new", "queued", "launch"}
    /\ \A l \in Migration!Ids : proc[k] = proc[l] => k = l

Listed == \A k, l \in Migration!Ids : subs[k] \cap subs[l] # {} => k = l

(***************************************************************************)
(* If nobody else holds an ID that changes: either the session stands      *)
(* under the ID of its one row, and so do the handler and every turn at    *)
(* work; or one turn moves it, which then is the only party there is.      *)
(***************************************************************************)
Under(id) == \A k \in Migration!Ids \ {id} : proc[k] = NoId /\ queue[k] = <<>> /\ subs[k] = {}

Stands(id) ==
  /\ rows = {id} /\ Under(id) /\ call.id \in {NoId, id}
  /\ \A p \in Prompts : turn[p].at \in TurnWorking =>
       turn[p].id = id /\ turn[p].at \notin {"move", "moved"}

Moves(p) ==
  /\ rows = {} /\ call = Migration!NoCall
  /\ \A q \in Prompts \ {p} : turn[q].at \notin TurnWorking
  /\ \/ turn[p].at = "move" /\ Under(Placeholder)
     \/ turn[p].at = "moved" /\ Under(turn[p].id)

KeyFollows ==
  ~straddling => (\E id \in Migration!Ids : Stands(id)) \/ (\E p \in Prompts : Moves(p))

MigrationIInv == Migration!TypeOK /\ Handling /\ TurnStarted /\ Queued /\ Entered /\ Listed /\ KeyFollows

LEMMA Implied ==
  ASSUME Apart, MigrationIInv
  PROVE  Migration!UnderOneKey /\ Migration!MapsFollowRow
<1>1. Migration!UnderOneKey
  BY DEF MigrationIInv, Queued, Entered, Listed, Migration!UnderOneKey
<1>2. Migration!MapsFollowRow
  <2> SUFFICES ASSUME ~straddling, ~Migration!Moving
               PROVE  \E id \in rows : rows = {id} /\ Under(id)
    BY DEF Migration!MapsFollowRow, Under
  <2>1. ~ \E p \in Prompts : Moves(p)
    BY DEF Migration!Moving, Moves
  <2> QED BY <2>1 DEF MigrationIInv, KeyFollows, Stands
<1> QED BY <1>1, <1>2

LEMMA Initially ==
  ASSUME Apart, Migration!Init
  PROVE  MigrationIInv
<1>1. Migration!TypeOK
  BY DEF Migration!Init, Migration!TypeOK, Apart, Migration!Ids, Migration!Phases, Migration!NoCall
<1>2. Handling /\ TurnStarted /\ Queued /\ Entered /\ Listed
  BY DEF Migration!Init, Handling, TurnStarted, Queued, Entered, Listed, Migration!NoCall,
      TurnWorking, Migration!Busy
<1>3. Stands(Placeholder)
  BY DEF Migration!Init, Stands, Under, Migration!NoCall, TurnWorking, Migration!Busy
<1> QED BY <1>1, <1>2, <1>3 DEF MigrationIInv, KeyFollows, Migration!Ids

-----------------------------------------------------------------------------
(***************************************************************************)
(* What a step does to the sequences and the records.                      *)
(***************************************************************************)
LEMMA Ends ==
  ASSUME NEW S, NEW s \in Seq(S), s # <<>>
  PROVE  /\ Head(s) = s[1] /\ Head(s) \in S /\ Tail(s) \in Seq(S)
         /\ 1 \in DOMAIN s
         /\ \A i \in DOMAIN Tail(s) : i + 1 \in DOMAIN s /\ i + 1 # 1 /\ Tail(s)[i] = s[i + 1]
  OBVIOUS

LEMMA Joined ==
  ASSUME NEW S, NEW s \in Seq(S), NEW t \in Seq(S), NEW i \in DOMAIN (s \o t)
  PROVE  \/ i \in DOMAIN s /\ (s \o t)[i] = s[i]
         \/ /\ i \in Nat /\ i - Len(s) \in DOMAIN t
            /\ (s \o t)[i] = t[i - Len(s)]
  OBVIOUS

LEMMA InQueue ==
  ASSUME Migration!TypeOK, NEW k \in Migration!Ids
  PROVE  queue[k] \in Seq(Prompts) /\ \A i \in DOMAIN queue[k] : queue[k][i] \in Prompts
<1>1. queue[k] \in Seq(Prompts)
  BY DEF Migration!TypeOK
<1> QED BY <1>1

LEMMA Going ==
  ASSUME Migration!TypeOK, NEW p \in Prompts, NEW phase \in Migration!Phases, Migration!Goto(p, phase)
  PROVE  /\ turn' \in [Prompts -> Turns]
         /\ turn'[p].at = phase /\ turn'[p].orig = turn[p].orig /\ turn'[p].id = turn[p].id
         /\ \A q \in Prompts \ {p} : turn'[q] = turn[q]
BY DEF Migration!Goto, Migration!TypeOK, Turns

LEMMA Entering ==
  ASSUME Migration!TypeOK, NEW p \in Prompts, NEW id \in Migration!Ids, Migration!Enter(p, "launch", id)
  PROVE  /\ turn' \in [Prompts -> Turns]
         /\ turn'[p] = [at |-> "launch", orig |-> id, id |-> id]
         /\ \A q \in Prompts \ {p} : turn'[q] = turn[q]
BY DEF Migration!Enter, Migration!TypeOK, Turns, Migration!Phases

(***************************************************************************)
(* The steps that leave the keys alone: those that pause, block or signal, *)
(* and those by which a turn at work goes on, or ends.                     *)
(***************************************************************************)
LEMMA Quiet ==
  ASSUME MigrationIInv, paused' \subseteq Migration!Ids, block' \subseteq Migration!Ids,
         child' \in [Prompts -> {"none", "running", "signalled", "exited", "gone"}],
         UNCHANGED <<straddling, rows, proc, queue, subs, turn, call, calls>>
  PROVE  MigrationIInv'
<1>1. Migration!TypeOK'
  BY DEF MigrationIInv, Migration!TypeOK
<1>2. Handling' /\ TurnStarted' /\ Queued' /\ Entered' /\ Listed'
  BY DEF MigrationIInv, Handling, TurnStarted, Queued, Entered, Listed
<1>3. KeyFollows'
  BY DEF MigrationIInv, KeyFollows, Stands, Moves, Under
<1> QED BY <1>1, <1>2, <1>3 DEF MigrationIInv

LEMMA TurnGoesOn ==
  ASSUME Apart, MigrationIInv, NEW p \in Prompts, NEW phase \in Migration!Busy \cup {"done"},
         Migration!Goto(p, phase),
         turn[p].at \in Migration!Busy \ {"move", "moved"}, phase \notin {"move", "moved"},
         rows' \in {rows, rows \cup {turn[p].id}},
         paused' \subseteq Migration!Ids, block' \subseteq Migration!Ids,
         child' \in [Prompts -> {"none", "running", "signalled", "exited", "gone"}],
         UNCHANGED <<straddling, proc, queue, subs, call, calls>>
  PROVE  MigrationIInv'
<1>1. /\ turn' \in [Prompts -> Turns]
      /\ turn'[p].at = phase /\ turn'[p].orig = turn[p].orig /\ turn'[p].id = turn[p].id
      /\ \A q \in Prompts \ {p} : turn'[q] = turn[q]
  BY Going DEF MigrationIInv, Migration!Phases
<1>2. turn[p].id \in Migration!Ids /\ turn[p].at \in TurnWorking
  BY DEF MigrationIInv, TurnStarted, TurnWorking
<1>3. Migration!TypeOK'
  BY <1>1, <1>2 DEF MigrationIInv, Migration!TypeOK, Turns
<1>4. Handling'
  BY <1>1 DEF MigrationIInv, Handling, Migration!Busy
<1>5. TurnStarted'
  BY <1>1, <1>2 DEF MigrationIInv, TurnStarted, TurnWorking, Migration!Busy
<1>6. Queued'
  <2>1. \A k \in Migration!Ids : \A i \in DOMAIN queue[k] : queue[k][i] \in Prompts
    BY InQueue DEF MigrationIInv
  <2> QED BY <1>1, <2>1 DEF MigrationIInv, Queued, Migration!Busy
<1>7. Entered'
  BY <1>1 DEF MigrationIInv, Migration!TypeOK, Entered, Migration!Busy
<1>8. Listed'
  BY DEF MigrationIInv, Listed
<1>9. KeyFollows'
  <2>1. ASSUME NEW id \in Migration!Ids, Stands(id) PROVE Stands(id)'
    BY <1>1, <1>2, <2>1 DEF Stands, Under, TurnWorking, Migration!Busy
  <2>2. ASSUME NEW q \in Prompts, Moves(q) PROVE FALSE
    BY <1>2, <2>2 DEF Moves, TurnWorking, Migration!Busy
  <2> QED BY <2>1, <2>2 DEF MigrationIInv, KeyFollows
<1> QED BY <1>3, <1>4, <1>5, <1>6, <1>7, <1>8, <1>9 DEF MigrationIInv

LEMMA Signalling ==
  ASSUME Migration!TypeOK, NEW p, Migration!Signal(p)
  PROVE  child' \in [Prompts -> {"none", "running", "signalled", "exited", "gone"}]
BY DEF Migration!Signal, Migration!TypeOK

LEMMA StepTurnGoesOn ==
  ASSUME Apart, MigrationIInv, NEW p \in Prompts,
         \/ Migration!SaveWorking(p) \/ Migration!Ask(p) \/ Migration!AskPause(p) \/ Migration!AskStop(p)
         \/ Migration!ChildExit(p) \/ Migration!SaveOutcome(p) \/ Migration!CheckPaused(p)
  PROVE  MigrationIInv'
<1>1. Migration!TypeOK
  BY DEF MigrationIInv
<1>2. turn[p].at \in TurnWorking => turn[p].orig \in Migration!Ids /\ turn[p].id \in Migration!Ids
  BY DEF MigrationIInv, TurnStarted
<1>3. CASE Migration!SaveWorking(p)
  BY <1>1, <1>3, TurnGoesOn DEF Migration!SaveWorking, Migration!TypeOK, Migration!Busy
<1>4. CASE Migration!Ask(p)
  BY <1>1, <1>2, <1>4, TurnGoesOn DEF Migration!Ask, Migration!TypeOK, Migration!Busy, TurnWorking
<1>5. CASE Migration!AskPause(p)
  BY <1>1, <1>2, <1>5, TurnGoesOn DEF Migration!AskPause, Migration!TypeOK, Migration!Busy, TurnWorking
<1>6. CASE Migration!AskStop(p)
  BY <1>1, <1>6, TurnGoesOn, Signalling DEF Migration!AskStop, Migration!TypeOK, Migration!Busy
<1>7. CASE Migration!ChildExit(p)
  BY <1>1, <1>7, Quiet DEF Migration!ChildExit, Migration!TypeOK
<1>8. CASE Migration!SaveOutcome(p)
  BY <1>1, <1>2, <1>8, TurnGoesOn DEF Migration!SaveOutcome, Migration!TypeOK, Migration!Busy,
      TurnWorking
<1>9. CASE Migration!CheckPaused(p)
  BY <1>1, <1>9, TurnGoesOn DEF Migration!CheckPaused, Migration!TypeOK, Migration!Busy
<1> QED BY <1>3, <1>4, <1>5, <1>6, <1>7, <1>8, <1>9

(***************************************************************************)
(* The handlers.  One that works stands, with the session, under its ID.   *)
(***************************************************************************)
LEMMA Busied ==
  ASSUME Apart, MigrationIInv, call # Migration!NoCall, ~straddling
  PROVE  Stands(call.id)
BY DEF MigrationIInv, Handling, KeyFollows, Stands, Moves, Apart

\* A step of a handler that only goes on, or gives up.
LEMMA Proceeds ==
  ASSUME Apart, MigrationIInv, call # Migration!NoCall, rows' \in {rows, rows \cup {call.id}},
         call'.id \in {NoId, call.id}, Migration!TypeOK', Handling',
         UNCHANGED <<straddling, proc, queue, subs, turn>>
  PROVE  MigrationIInv'
<1>1. TurnStarted' /\ Queued' /\ Entered' /\ Listed'
  BY DEF MigrationIInv, TurnStarted, Queued, Entered, Listed
<1>2. call.id \in Migration!Ids
  BY DEF MigrationIInv, Handling
<1>3. KeyFollows'
  BY <1>2, Busied DEF KeyFollows, Stands, Under
<1> QED BY <1>1, <1>3 DEF MigrationIInv

LEMMA Proceeding ==
  ASSUME Apart, MigrationIInv, call # Migration!NoCall, paused' \subseteq Migration!Ids,
         child' \in [Prompts -> {"none", "running", "signalled", "exited", "gone"}],
         rows' \in {rows, rows \cup {call.id}},
         \/ call' = Migration!NoCall
         \/ \E op \in {"resumeCheck", "resumeDequeue", "cancelPause", "cancelSave"} :
              call' = [call EXCEPT !.op = op],
         UNCHANGED <<straddling, proc, queue, block, subs, turn, calls>>
  PROVE  MigrationIInv'
<1>1. call.id \in Migration!Ids
  BY DEF MigrationIInv, Handling
<1>2. CASE call' = Migration!NoCall
  <2>1. Migration!TypeOK'
    BY <1>1, <1>2 DEF MigrationIInv, Migration!TypeOK, Migration!NoCall
  <2>2. Handling'
    BY <1>2 DEF Handling, Migration!NoCall
  <2> QED BY <1>2, <2>1, <2>2, Proceeds DEF Migration!NoCall
<1>3. ASSUME NEW op \in {"resumeCheck", "resumeDequeue", "cancelPause", "cancelSave"},
             call' = [call EXCEPT !.op = op]
      PROVE  MigrationIInv'
  <2>1. call'.op = op /\ call'.id = call.id /\ call' # Migration!NoCall
    BY <1>1, <1>3 DEF MigrationIInv, Migration!TypeOK, Migration!NoCall, Apart
  <2>2. Migration!TypeOK'
    BY <1>1, <1>3 DEF MigrationIInv, Migration!TypeOK
  <2>3. Handling'
    BY <1>1, <2>1 DEF Handling
  <2> QED BY <2>1, <2>2, <2>3, Proceeds
<1> QED BY <1>2, <1>3

LEMMA StepResolve ==
  ASSUME Apart, MigrationIInv, Migration!Client
  PROVE  MigrationIInv'
<1>1. PICK op \in {"cancel", "resume", "clear", "prompt", "subscribe"}, id \in Migration!Ids,
           for \in Prompts \cup Tabs \cup {NoId} : Migration!Resolve(op, id, for)
  BY DEF Migration!Client
<1>2. PICK k \in Migration!Target(id) : call' = [op |-> op, id |-> k, for |-> for]
  BY <1>1 DEF Migration!Resolve
<1>3. k \in Migration!Ids /\ k \in rows
  BY <1>2 DEF Migration!Target, MigrationIInv, Migration!TypeOK
<1>4. /\ call = Migration!NoCall /\ calls' \in 0 .. MaxCalls
      /\ UNCHANGED <<straddling, rows, proc, queue, paused, block, subs, turn, child>>
  BY <1>1 DEF Migration!Resolve, Apart, MigrationIInv, Migration!TypeOK
<1>5. Migration!TypeOK'
  BY <1>2, <1>3, <1>4 DEF MigrationIInv, Migration!TypeOK
<1>6. Handling'
  BY <1>1, <1>2, <1>3, <1>4 DEF MigrationIInv, Handling, Migration!NoCall, Migration!Resolve
<1>7. TurnStarted' /\ Queued' /\ Entered' /\ Listed'
  BY <1>4 DEF MigrationIInv, TurnStarted, Queued, Entered, Listed
<1>8. KeyFollows'
  <2>1. \A p \in Prompts : ~Moves(p)
    BY <1>3 DEF Moves
  <2> QED BY <1>2, <1>3, <1>4, <2>1 DEF MigrationIInv, KeyFollows, Stands, Under
<1> QED BY <1>5, <1>6, <1>7, <1>8 DEF MigrationIInv

LEMMA StepPrompt ==
  ASSUME Apart, MigrationIInv, Migration!Prompt
  PROVE  MigrationIInv'
<1> DEFINE p == call.for
<1>1. call # Migration!NoCall /\ call.id \in Migration!Ids /\ p \in Prompts /\ turn[p].at = "new" /\ Migration!TypeOK
  BY DEF Migration!Prompt, Migration!NoCall, MigrationIInv, Handling
<1>2. CASE Migration!IsRunning(call.id)
  <2>1. /\ call' = [call EXCEPT !.op = "enqueue"] /\ turn' = turn
        /\ UNCHANGED <<straddling, rows, proc, queue, paused, block, subs, child, calls>>
    BY <1>2 DEF Migration!Prompt
  <2>2. Migration!TypeOK'
    BY <2>1 DEF MigrationIInv, Migration!TypeOK
  <2>3. Handling'
    BY <1>1, <2>1 DEF MigrationIInv, Migration!TypeOK, Handling, Migration!NoCall
  <2>4. call'.id = call.id
    BY <2>1 DEF MigrationIInv, Migration!TypeOK
  <2> QED BY <1>1, <2>1, <2>2, <2>3, <2>4, Proceeds
<1>3. CASE ~Migration!IsRunning(call.id)
  <2>1. /\ call' = Migration!NoCall /\ Migration!Enter(p, "launch", call.id)
        /\ UNCHANGED <<straddling, rows, proc, queue, paused, block, subs, child, calls>>
    BY <1>3 DEF Migration!Prompt
  <2>2. /\ turn' \in [Prompts -> Turns]
        /\ turn'[p] = [at |-> "launch", orig |-> call.id, id |-> call.id]
        /\ \A q \in Prompts \ {p} : turn'[q] = turn[q]
    BY <1>1, <2>1, Entering
  <2> HIDE DEF p
  <2>3. Migration!TypeOK'
    BY <2>1, <2>2 DEF MigrationIInv, Migration!TypeOK, Migration!NoCall, Turns
  <2>4. Handling'
    BY <2>1 DEF Handling, Migration!NoCall
  <2>5. TurnStarted'
    BY <1>1, <2>2 DEF MigrationIInv, TurnStarted
  <2>6. Queued'
    <3>1. \A k \in Migration!Ids : \A i \in DOMAIN queue[k] : queue[k][i] \in Prompts \ {p}
      BY <1>1, InQueue DEF MigrationIInv, Queued
    <3> QED BY <2>1, <2>2, <3>1 DEF MigrationIInv, Queued
  <2>7. Entered'
    BY <1>1, <2>1, <2>2 DEF MigrationIInv, Migration!TypeOK, Entered
  <2>8. Listed'
    BY <2>1 DEF MigrationIInv, Listed
  <2>9. KeyFollows'
    BY <1>1, <2>1, <2>2, Busied DEF KeyFollows, Stands, Under, Migration!NoCall
  <2> QED BY <2>3, <2>4, <2>5, <2>6, <2>7, <2>8, <2>9 DEF MigrationIInv
<1> QED BY <1>2, <1>3

LEMMA StepProceeding ==
  ASSUME Apart, MigrationIInv,
         Migration!Resume \/ Migration!ResumeCheck \/ Migration!Cancel \/ Migration!CancelPause \/ Migration!CancelSave
  PROVE  MigrationIInv'
<1>1. Migration!TypeOK /\ paused \cup {call.id} \subseteq Migration!Ids \cup {NoId}
  BY DEF MigrationIInv, Migration!TypeOK
<1>2. call # Migration!NoCall => call.id \in Migration!Ids
  BY DEF MigrationIInv, Handling
<1>3. CASE Migration!Resume
  BY <1>1, <1>3, Proceeding DEF Migration!Resume, Migration!NoCall, Migration!TypeOK
<1>4. CASE Migration!ResumeCheck
  BY <1>1, <1>4, Proceeding DEF Migration!ResumeCheck, Migration!NoCall, Migration!TypeOK
<1>5. CASE Migration!Cancel
  <2>1. call' = [call EXCEPT !.op = "cancelPause"] \/ call' = [call EXCEPT !.op = "cancelSave"]
    BY <1>5 DEF Migration!Cancel
  <2> QED BY <1>1, <1>5, <2>1, Proceeding, Signalling DEF Migration!Cancel, Migration!NoCall,
             Migration!TypeOK
<1>6. CASE Migration!CancelPause
  BY <1>1, <1>2, <1>6, Proceeding DEF Migration!CancelPause, Migration!NoCall, Migration!TypeOK
<1>7. CASE Migration!CancelSave
  BY <1>1, <1>7, Proceeding DEF Migration!CancelSave, Migration!NoCall, Migration!TypeOK
<1> QED BY <1>3, <1>4, <1>5, <1>6, <1>7

LEMMA StepSubscribe ==
  ASSUME Apart, MigrationIInv, Migration!Subscribe
  PROVE  MigrationIInv'
<1> DEFINE id  == call.id
           tab == call.for
<1>1. /\ call # Migration!NoCall /\ id \in Migration!Ids /\ tab \in Tabs /\ \A k \in Migration!Ids : tab \notin subs[k]
      /\ call' = Migration!NoCall /\ subs' = [subs EXCEPT ![id] = @ \cup {tab}]
      /\ UNCHANGED <<straddling, rows, proc, queue, paused, block, turn, child, calls>>
  BY DEF Migration!Subscribe, Migration!NoCall, MigrationIInv, Handling
<1>2. ~straddling => Stands(id)
  BY <1>1, Busied
<1> HIDE DEF id, tab
<1>3. Migration!TypeOK'
  BY <1>1 DEF MigrationIInv, Migration!TypeOK, Migration!NoCall
<1>4. Handling' /\ TurnStarted' /\ Queued' /\ Entered'
  BY <1>1 DEF MigrationIInv, Handling, TurnStarted, Queued, Entered, Migration!NoCall
<1>5. subs'[id] = subs[id] \cup {tab} /\ \A k \in Migration!Ids \ {id} : subs'[k] = subs[k]
  BY <1>1 DEF MigrationIInv, Migration!TypeOK
<1>6. Listed'
  BY <1>1, <1>5 DEF MigrationIInv, Listed
<1>7. KeyFollows'
  BY <1>1, <1>2, <1>5 DEF KeyFollows, Stands, Under, Migration!NoCall
<1> QED BY <1>3, <1>4, <1>6, <1>7 DEF MigrationIInv

LEMMA StepUnsubscribe ==
  ASSUME Apart, MigrationIInv, NEW tab \in Tabs, Migration!Unsubscribe(tab)
  PROVE  MigrationIInv'
<1>1. /\ subs' = [id \in Migration!Ids |-> subs[id] \ {tab}]
      /\ UNCHANGED <<straddling, rows, proc, queue, paused, block, turn, child, call, calls>>
  BY DEF Migration!Unsubscribe
<1>2. Migration!TypeOK'
  BY <1>1 DEF MigrationIInv, Migration!TypeOK
<1>3. \A k \in Migration!Ids : subs'[k] \subseteq subs[k]
  BY <1>1
<1>4. Handling' /\ TurnStarted' /\ Queued' /\ Entered' /\ Listed'
  BY <1>1, <1>3 DEF MigrationIInv, Handling, TurnStarted, Queued, Entered, Listed
<1>5. KeyFollows'
  BY <1>1, <1>3, Apart DEF MigrationIInv, KeyFollows, Stands, Moves, Under, TurnStarted, Migration!Ids
<1> QED BY <1>2, <1>4, <1>5 DEF MigrationIInv

LEMMA StepEnqueue ==
  ASSUME Apart, MigrationIInv, Migration!Enqueue
  PROVE  MigrationIInv'
<1> DEFINE id == call.id
           p  == call.for
<1>1. /\ call # Migration!NoCall /\ id \in Migration!Ids /\ p \in Prompts /\ turn[p].at = "new"
      /\ Migration!TypeOK
      /\ call' = Migration!NoCall /\ queue' = [queue EXCEPT ![id] = Append(@, p)]
      /\ Migration!Goto(p, "queued")
      /\ UNCHANGED <<straddling, rows, proc, paused, block, subs, child, calls>>
  BY DEF Migration!Enqueue, Migration!NoCall, MigrationIInv, Handling
<1>2. ~straddling => Stands(id)
  BY <1>1, Busied
<1>3. /\ turn' \in [Prompts -> Turns]
      /\ turn'[p].at = "queued" /\ turn'[p].orig = turn[p].orig /\ turn'[p].id = turn[p].id
      /\ \A q \in Prompts \ {p} : turn'[q] = turn[q]
  BY <1>1, Going DEF Migration!Phases
<1> HIDE DEF id, p
<1>4. /\ queue[id] \in Seq(Prompts) /\ queue'[id] = Append(queue[id], p)
      /\ \A k \in Migration!Ids \ {id} : queue'[k] = queue[k]
  BY <1>1, InQueue DEF Migration!TypeOK
<1>5. \A k \in Migration!Ids : \A i \in DOMAIN queue'[k] :
        \/ i \in DOMAIN queue[k] /\ queue'[k][i] = queue[k][i]
        \/ k = id /\ i = Len(queue[id]) + 1 /\ queue'[k][i] = p
  BY <1>4
<1>6. \A k \in Migration!Ids : \A i \in DOMAIN queue[k] : queue[k][i] \in Prompts \ {p}
  BY <1>1, InQueue DEF MigrationIInv, Queued
<1>7. Queued'
  BY <1>3, <1>5, <1>6 DEF MigrationIInv, Queued
<1>8. Migration!TypeOK'
  BY <1>1, <1>3 DEF MigrationIInv, Migration!TypeOK, Migration!NoCall, Turns
<1>9. Handling' /\ Listed'
  BY <1>1 DEF MigrationIInv, Handling, Listed, Migration!NoCall
<1>10. TurnStarted'
  BY <1>3 DEF MigrationIInv, TurnStarted, TurnWorking, Migration!Busy
<1>11. Entered'
  BY <1>1, <1>3 DEF MigrationIInv, Migration!TypeOK, Entered
<1>12. KeyFollows'
  BY <1>1, <1>2, <1>3, <1>4 DEF KeyFollows, Stands, Under, Migration!NoCall, TurnWorking, Migration!Busy
<1> QED BY <1>7, <1>8, <1>9, <1>10, <1>11, <1>12 DEF MigrationIInv

LEMMA StepClearQueue ==
  ASSUME Apart, MigrationIInv, Migration!ClearQueue
  PROVE  MigrationIInv'
<1> DEFINE id == call.id
           out == Migration!Range(queue[id])
<1>1. /\ call # Migration!NoCall /\ id \in Migration!Ids /\ Migration!TypeOK
      /\ call' = Migration!NoCall /\ queue' = [queue EXCEPT ![id] = <<>>] /\ paused' = paused \ {id}
      /\ turn' = [p \in Prompts |-> IF p \in out THEN [turn[p] EXCEPT !.at = "removed"]
                                    ELSE turn[p]]
      /\ UNCHANGED <<straddling, rows, proc, block, subs, child, calls>>
  BY DEF Migration!ClearQueue, Migration!NoCall, MigrationIInv, Handling
<1>2. ~straddling => Stands(id)
  BY <1>1, Busied
<1>3. out = {queue[id][i] : i \in DOMAIN queue[id]}
  BY DEF Migration!Range
<1> HIDE DEF id, out
<1>4. queue'[id] = <<>> /\ \A k \in Migration!Ids \ {id} : queue'[k] = queue[k]
  BY <1>1 DEF Migration!TypeOK
<1>5. \A p \in out : turn[p].at = "queued"
  BY <1>1, <1>3 DEF MigrationIInv, Queued
<1>6. \A k \in Migration!Ids \ {id} : \A i \in DOMAIN queue[k] : queue[k][i] \in Prompts \ out
  BY <1>1, <1>3, InQueue DEF MigrationIInv, Queued
<1>7. /\ turn' \in [Prompts -> Turns]
      /\ \A p \in Prompts \ out : turn'[p] = turn[p]
      /\ \A p \in Prompts \cap out : turn'[p].at = "removed"
  BY ZenonT(40), <1>1 DEF Migration!TypeOK, Turns, Migration!Phases
<1>8. Queued'
  BY <1>4, <1>6, <1>7 DEF MigrationIInv, Queued
<1>9. Migration!TypeOK'
  BY <1>1, <1>7 DEF MigrationIInv, Migration!TypeOK, Migration!NoCall, Turns
<1>10. Handling' /\ Listed'
  BY <1>1 DEF MigrationIInv, Handling, Listed, Migration!NoCall
<1>11. TurnStarted'
  BY <1>7 DEF MigrationIInv, TurnStarted, TurnWorking, Migration!Busy
<1>12. Entered'
  BY <1>1, <1>5, <1>7 DEF MigrationIInv, Migration!TypeOK, Entered
<1>13. KeyFollows'
  BY <1>1, <1>2, <1>4, <1>7 DEF KeyFollows, Stands, Under, Migration!NoCall, TurnWorking, Migration!Busy
<1> QED BY <1>8, <1>9, <1>10, <1>11, <1>12, <1>13 DEF MigrationIInv

-----------------------------------------------------------------------------
(***************************************************************************)
(* The next prompt of a queue, for a handler or for a turn that ends.      *)
(***************************************************************************)
LEMMA Dequeuing ==
  ASSUME Apart, MigrationIInv, NEW id \in Migration!Ids, NEW next \in [Prompts -> Turns],
         Migration!Dequeue(id, next),
         \A q \in Prompts : \/ next[q] = turn[q]
                            \/ turn[q].at = "dequeue" /\ next[q].at = "done",
         ~straddling => Stands(id),
         call' \in {call, Migration!NoCall},
         UNCHANGED <<straddling, rows, proc, paused, block, subs, child, calls>>
  PROVE  MigrationIInv'
<1> DEFINE p == Head(queue[id])
<1>1. Migration!TypeOK /\ Handling /\ queue[id] \in Seq(Prompts)
  BY InQueue DEF MigrationIInv
<1>2. /\ turn' \in [Prompts -> Turns]
      /\ \A q \in Prompts :
           \/ turn'[q] = turn[q]
           \/ turn[q].at = "dequeue" /\ turn'[q].at = "done"
           \/ /\ queue[id] # <<>> /\ q = p /\ turn[q].at = "queued"
              /\ turn'[q] = [at |-> "launch", orig |-> id, id |-> id]
  <2>1. CASE queue[id] = <<>>
    BY <2>1 DEF Migration!Dequeue
  <2>2. CASE queue[id] # <<>>
    <3>1. p \in Prompts /\ turn' = [next EXCEPT ![p] = [at |-> "launch", orig |-> id, id |-> id]]
      BY <1>1, <2>2, Ends DEF Migration!Dequeue
    <3>2. turn[p].at = "queued"
      BY <1>1, <2>2, Ends DEF MigrationIInv, Queued
    <3> HIDE DEF p
    <3> QED BY <2>2, <3>1, <3>2 DEF Turns, Migration!Phases
  <2> QED BY <2>1, <2>2
<1>3. /\ queue' \in [Migration!Ids -> Seq(Prompts)]
      /\ \A k \in Migration!Ids \ {id} : queue'[k] = queue[k]
      /\ queue[id] = <<>> => queue'[id] = queue[id]
      /\ queue[id] # <<>> => queue'[id] = Tail(queue[id])
  <2>1. queue[id] # <<>> => Tail(queue[id]) \in Seq(Prompts)
    BY <1>1, Ends
  <2> QED BY <2>1 DEF Migration!Dequeue, MigrationIInv, Migration!TypeOK
<1>4. ASSUME NEW k \in Migration!Ids, NEW i \in DOMAIN queue'[k]
      PROVE  \E j \in DOMAIN queue[k] :
               /\ queue'[k][i] = queue[k][j] /\ (queue[id] # <<>> => queue[k][j] # p)
               /\ j = IF k = id /\ queue[id] # <<>> THEN i + 1 ELSE i
  <2>1. CASE k = id /\ queue[id] # <<>>
    <3>1. queue'[id] = Tail(queue[id]) /\ i \in DOMAIN Tail(queue[id])
      BY <1>3, <2>1
    <3>2. /\ i + 1 \in DOMAIN queue[id] /\ i + 1 # 1 /\ queue'[id][i] = queue[id][i + 1]
          /\ p = queue[id][1] /\ 1 \in DOMAIN queue[id]
      BY <1>1, <2>1, <3>1, Ends
    <3>3. queue[id][i + 1] # p
      BY <3>2 DEF MigrationIInv, Queued
    <3> HIDE DEF p
    <3> QED BY <2>1, <3>2, <3>3
  <2>2. CASE k # id
    BY <1>1, <1>3, <2>2, Ends DEF MigrationIInv, Queued
  <2>3. CASE queue[id] = <<>>
    BY <1>3, <2>3
  <2> QED BY <2>1, <2>2, <2>3
<1>5. Queued'
  <2>1. \A k \in Migration!Ids : queue'[k] \in Seq(Prompts)
    BY <1>3
  <2>2. \A k \in Migration!Ids : \A i \in DOMAIN queue'[k] :
          turn'[queue'[k][i]].at = "queued"
    BY <1>1, <1>2, <1>4, InQueue DEF MigrationIInv, Queued
  <2>3. ASSUME NEW k \in Migration!Ids, NEW i \in DOMAIN queue'[k],
               NEW l \in Migration!Ids, NEW j \in DOMAIN queue'[l], queue'[k][i] = queue'[l][j]
        PROVE  k = l /\ i = j
    <3>1. i \in Nat /\ j \in Nat
      BY <2>1
    <3> QED BY <1>4, <2>3, <3>1 DEF MigrationIInv, Queued
  <2> QED BY <2>2, <2>3 DEF Queued
<1> HIDE DEF p
<1>6. Migration!TypeOK'
  BY <1>2, <1>3 DEF MigrationIInv, Migration!TypeOK, Migration!NoCall, Turns
<1>7. Handling' /\ Listed'
  BY <1>1, <1>2 DEF MigrationIInv, Handling, Listed, Migration!NoCall
<1>8. TurnStarted'
  BY <1>2 DEF MigrationIInv, TurnStarted, TurnWorking, Migration!Busy
<1>9. Entered'
  BY <1>2 DEF MigrationIInv, Migration!TypeOK, Entered
<1>10. KeyFollows'
  <2>1. Under(id) => Under(id)'
    BY <1>3 DEF Under
  <2>2. ~straddling => Stands(id)'
    BY <1>2, <2>1 DEF Stands, Migration!NoCall, TurnWorking, Migration!Busy
  <2> QED BY <2>2 DEF KeyFollows
<1> QED BY <1>5, <1>6, <1>7, <1>8, <1>9, <1>10 DEF MigrationIInv

LEMMA StepResumeDequeue ==
  ASSUME Apart, MigrationIInv, Migration!ResumeDequeue
  PROVE  MigrationIInv'
<1>1. call # Migration!NoCall /\ call.id \in Migration!Ids
  BY DEF Migration!ResumeDequeue, Migration!NoCall, MigrationIInv, Handling
<1>2. turn \in [Prompts -> Turns]
  BY DEF MigrationIInv, Migration!TypeOK, Turns
<1> QED BY <1>1, <1>2, Busied, Dequeuing DEF Migration!ResumeDequeue

\* A turn at work that moves no ID stands, with the session, under its ID.
LEMMA TurnAtWork ==
  ASSUME MigrationIInv, NEW p \in Prompts, turn[p].at \in TurnWorking \ {"move", "moved"}
  PROVE  turn[p].id \in Migration!Ids /\ (~straddling => Stands(turn[p].id))
<1>1. turn[p].id \in Migration!Ids
  BY DEF MigrationIInv, TurnStarted
<1>2. \A q \in Prompts : ~Moves(q)
  BY DEF Moves
<1> QED BY <1>1, <1>2 DEF MigrationIInv, KeyFollows, Stands

LEMMA StepDispatchNext ==
  ASSUME Apart, MigrationIInv, NEW p \in Prompts, Migration!DispatchNext(p)
  PROVE  MigrationIInv'
<1> DEFINE next == [turn EXCEPT ![p].at = "done"]
<1>1. turn[p].id \in Migration!Ids /\ (~straddling => Stands(turn[p].id))
  BY TurnAtWork DEF Migration!DispatchNext, TurnWorking, Migration!Busy
<1>2. next \in [Prompts -> Turns] /\ next[p].at = "done"
      /\ \A q \in Prompts \ {p} : next[q] = turn[q]
  BY ZenonT(40) DEF MigrationIInv, Migration!TypeOK, Turns, Migration!Phases
<1>3. turn[p].at = "dequeue" /\ Migration!Dequeue(turn[p].id, next)
      /\ UNCHANGED <<straddling, rows, proc, paused, block, subs, child, call, calls>>
  BY DEF Migration!DispatchNext
<1> HIDE DEF next
<1> QED BY <1>1, <1>2, <1>3, Dequeuing

-----------------------------------------------------------------------------
(***************************************************************************)
(* A turn is entered, and its entries are deleted.                         *)
(***************************************************************************)
LEMMA StepRunTurn ==
  ASSUME Apart, MigrationIInv, NEW p \in Prompts, Migration!RunTurn(p)
  PROVE  MigrationIInv'
<1> DEFINE id == turn[p].id
<1>1. turn[p].at = "launch" /\ Migration!TypeOK
      /\ UNCHANGED <<straddling, rows, queue, paused, block, subs, call, calls>>
  BY DEF Migration!RunTurn, MigrationIInv
<1>2. id \in Migration!Ids /\ (~straddling => Stands(id))
  BY <1>1, TurnAtWork DEF TurnWorking, Migration!Busy
<1>3. PICK phase \in {"lost", "start"} : Migration!Goto(p, phase)
  BY DEF Migration!RunTurn
<1>4. /\ turn' \in [Prompts -> Turns]
      /\ turn'[p].at = phase /\ turn'[p].orig = turn[p].orig /\ turn'[p].id = id
      /\ \A q \in Prompts \ {p} : turn'[q] = turn[q]
  BY <1>1, <1>3, Going DEF Migration!Phases, Migration!Busy
<1>5. /\ \/ proc' = proc
         \/ proc' = [proc EXCEPT ![id] = p] /\ phase = "start"
      /\ child' \in [Prompts -> {"none", "running", "signalled", "exited", "gone"}]
  <2>1. CASE proc' = proc /\ child' = child
    BY <1>1, <2>1 DEF Migration!TypeOK
  <2>2. CASE /\ Migration!Goto(p, "start") /\ proc' = [proc EXCEPT ![id] = p]
             /\ child' = [child EXCEPT ![p] = "running"]
    <3>1. turn'[p].at = "start"
      BY <1>1, <2>2, Going DEF Migration!Phases, Migration!Busy
    <3> QED BY <1>1, <1>4, <2>2, <3>1 DEF Migration!TypeOK
  <2> QED BY <2>1, <2>2 DEF Migration!RunTurn
<1> HIDE DEF id
<1>6. Migration!TypeOK'
  BY ZenonT(40), <1>1, <1>2, <1>4, <1>5 DEF Migration!TypeOK, Turns
<1>7. Handling' /\ Listed'
  BY <1>1, <1>4 DEF MigrationIInv, Handling, Listed
<1>8. TurnStarted'
  BY <1>1, <1>4 DEF MigrationIInv, TurnStarted, TurnWorking, Migration!Busy, id
<1>9. Queued'
  <2>1. \A k \in Migration!Ids : \A i \in DOMAIN queue[k] : queue[k][i] \in Prompts \ {p}
    BY <1>1, InQueue DEF MigrationIInv, Queued
  <2> QED BY <1>1, <1>4, <2>1 DEF MigrationIInv, Queued
<1>10. Entered'
  BY <1>1, <1>2, <1>4, <1>5 DEF MigrationIInv, Migration!TypeOK, Entered
<1>11. KeyFollows'
  <2>1. \A k \in Migration!Ids \ {id} : proc'[k] = proc[k]
    BY <1>5 DEF MigrationIInv, Migration!TypeOK
  <2> QED BY <1>1, <1>2, <1>4, <2>1 DEF KeyFollows, Stands, Under, TurnWorking, Migration!Busy, id
<1> QED BY <1>6, <1>7, <1>8, <1>9, <1>10, <1>11 DEF MigrationIInv

LEMMA StepSettle ==
  ASSUME Apart, MigrationIInv, NEW p \in Prompts, Migration!Settle(p)
  PROVE  MigrationIInv'
<1>1. /\ turn[p].at \in {"run", "waits"} /\ Migration!TypeOK /\ Migration!Goto(p, "settled")
      /\ child' = [child EXCEPT ![p] = "gone"]
      /\ proc' = [proc EXCEPT ![turn[p].orig] = NoId, ![turn[p].id] = NoId]
      /\ UNCHANGED <<straddling, rows, queue, paused, block, subs, call, calls>>
  BY DEF Migration!Settle, MigrationIInv
<1>2. turn[p].id \in Migration!Ids /\ turn[p].orig \in Migration!Ids /\ (~straddling => Stands(turn[p].id))
  BY <1>1, TurnAtWork DEF MigrationIInv, TurnStarted, TurnWorking, Migration!Busy
<1>3. /\ turn' \in [Prompts -> Turns]
      /\ turn'[p].at = "settled" /\ turn'[p].orig = turn[p].orig /\ turn'[p].id = turn[p].id
      /\ \A q \in Prompts \ {p} : turn'[q] = turn[q]
  BY <1>1, Going DEF Migration!Phases, Migration!Busy
<1>4. /\ proc' \in [Migration!Ids -> Prompts \cup {NoId}]
      /\ \A k \in Migration!Ids : proc'[k] \in {proc[k], NoId}
  BY <1>1, <1>2 DEF Migration!TypeOK
<1>5. Migration!TypeOK'
  BY <1>1, <1>3, <1>4 DEF Migration!TypeOK, Turns
<1>6. Handling' /\ Listed'
  BY <1>1, <1>3 DEF MigrationIInv, Handling, Listed
<1>7. TurnStarted'
  BY <1>1, <1>3 DEF MigrationIInv, TurnStarted, TurnWorking, Migration!Busy
<1>8. Queued'
  <2>1. \A k \in Migration!Ids : \A i \in DOMAIN queue[k] : queue[k][i] \in Prompts \ {p}
    BY <1>1, InQueue DEF MigrationIInv, Queued
  <2> QED BY <1>1, <1>3, <2>1 DEF MigrationIInv, Queued
<1>9. Entered'
  BY <1>1, <1>3, <1>4 DEF MigrationIInv, Migration!TypeOK, Entered
<1>10. KeyFollows'
  BY <1>1, <1>2, <1>3, <1>4 DEF KeyFollows, Stands, Under, TurnWorking, Migration!Busy
<1> QED BY <1>5, <1>6, <1>7, <1>8, <1>9, <1>10 DEF MigrationIInv

-----------------------------------------------------------------------------
(***************************************************************************)
(* The session gets its ID.                                                *)
(***************************************************************************)
LEMMA StepMigrateRow ==
  ASSUME Apart, MigrationIInv, NEW p \in Prompts, NEW c \in Conversations, Migration!MigrateRow(p, c)
  PROVE  MigrationIInv'
<1>1. /\ turn[p].at = "run" /\ turn[p].id = Placeholder /\ Migration!TypeOK /\ c \in Migration!Ids
      /\ turn' = [turn EXCEPT ![p].at = "move", ![p].id = c]
      /\ rows' = rows \ {Placeholder}
      /\ UNCHANGED <<straddling, proc, queue, paused, block, subs, child, call, calls>>
  BY DEF Migration!MigrateRow, MigrationIInv, Migration!Ids
<1>2. /\ turn' \in [Prompts -> Turns]
      /\ turn'[p].at = "move" /\ turn'[p].orig = turn[p].orig /\ turn'[p].id = c
      /\ \A q \in Prompts \ {p} : turn'[q] = turn[q]
  BY <1>1 DEF Migration!TypeOK, Turns, Migration!Phases, Migration!Busy
<1>3. Migration!TypeOK'
  BY <1>1, <1>2 DEF Migration!TypeOK, Turns
<1>4. Handling' /\ Listed'
  BY <1>1, <1>2 DEF MigrationIInv, Handling, Listed
<1>5. TurnStarted'
  BY <1>1, <1>2 DEF MigrationIInv, TurnStarted, TurnWorking, Migration!Busy
<1>6. Queued'
  <2>1. \A k \in Migration!Ids : \A i \in DOMAIN queue[k] : queue[k][i] \in Prompts \ {p}
    BY <1>1, InQueue DEF MigrationIInv, Queued
  <2> QED BY <1>1, <1>2, <2>1 DEF MigrationIInv, Queued
<1>7. Entered'
  BY <1>1, <1>2 DEF MigrationIInv, Migration!TypeOK, Entered
<1>8. ASSUME ~straddling
      PROVE  Moves(p)'
  <2>1. Stands(Placeholder) /\ ~Migration!Held(p)
    BY <1>1, <1>8, TurnAtWork DEF Migration!MigrateRow, TurnWorking, Migration!Busy
  <2>2. call = Migration!NoCall
    BY <1>1, <2>1 DEF Stands, Migration!Held, MigrationIInv, Handling, Apart
  <2>3. \A q \in Prompts \ {p} : turn[q].at \notin TurnWorking
    BY <1>1, <2>1 DEF Stands, Migration!Held, TurnWorking
  <2> QED BY <1>1, <1>2, <2>1, <2>2, <2>3 DEF Moves, Stands, Under
<1>9. KeyFollows'
  BY <1>1, <1>8 DEF KeyFollows
<1> QED BY <1>3, <1>4, <1>5, <1>6, <1>7, <1>9 DEF MigrationIInv

LEMMA StepMigrateMaps ==
  ASSUME Apart, MigrationIInv, NEW p \in Prompts, Migration!MigrateMaps(p)
  PROVE  MigrationIInv'
<1> DEFINE c   == turn[p].id
           old == Placeholder
<1>1. /\ turn[p].at = "move" /\ Migration!TypeOK /\ Migration!Goto(p, "moved")
      /\ proc' = IF proc[old] = NoId THEN proc ELSE Migration!Moved(proc, p, NoId, proc[old])
      /\ queue' = Migration!Moved(queue, p, <<>>, queue[old] \o queue[c])
      /\ subs' = Migration!Moved(subs, p, {}, subs[c] \cup subs[old])
      /\ paused' = IF old \in paused THEN (paused \ {old}) \cup {c} ELSE paused
      /\ UNCHANGED <<straddling, rows, block, child, call, calls>>
  BY DEF Migration!MigrateMaps, MigrationIInv
<1>2. c \in Conversations /\ c \in Migration!Ids /\ old \in Migration!Ids /\ c # old
  BY <1>1 DEF MigrationIInv, TurnStarted, Migration!Ids, Apart
<1>3. /\ turn' \in [Prompts -> Turns]
      /\ turn'[p].at = "moved" /\ turn'[p].orig = turn[p].orig /\ turn'[p].id = c
      /\ \A q \in Prompts \ {p} : turn'[q] = turn[q]
  BY <1>1, Going DEF Migration!Phases, Migration!Busy
<1>4. queue[old] \in Seq(Prompts) /\ queue[c] \in Seq(Prompts)
      /\ queue[old] \o queue[c] \in Seq(Prompts)
  BY <1>1, <1>2, InQueue
<1>5. /\ queue' \in [Migration!Ids -> Seq(Prompts)]
      /\ queue'[old] = <<>> /\ queue'[c] = queue[old] \o queue[c]
      /\ \A k \in Migration!Ids \ {old, c} : queue'[k] = queue[k]
  <2>1. queue \in [Migration!Ids -> Seq(Prompts)] /\ <<>> \in Seq(Prompts)
    BY <1>1 DEF Migration!TypeOK
  <2> QED BY <1>1, <1>2, <1>4, <2>1 DEF Migration!Moved
<1>6. /\ subs' \in [Migration!Ids -> SUBSET Tabs]
      /\ subs'[old] = {} /\ subs'[c] = subs[c] \cup subs[old]
      /\ \A k \in Migration!Ids \ {old, c} : subs'[k] = subs[k]
  <2>1. subs \in [Migration!Ids -> SUBSET Tabs] /\ subs[c] \cup subs[old] \in SUBSET Tabs
    BY <1>1, <1>2 DEF Migration!TypeOK
  <2> QED BY <1>1, <1>2, <2>1 DEF Migration!Moved
<1>7. /\ proc' \in [Migration!Ids -> Prompts \cup {NoId}]
      /\ \/ proc' = proc /\ proc[old] = NoId
         \/ proc'[old] = NoId /\ proc'[c] = proc[old]
      /\ \A k \in Migration!Ids \ {old, c} : proc'[k] = proc[k]
  <2>1. proc \in [Migration!Ids -> Prompts \cup {NoId}] /\ proc[old] \in Prompts \cup {NoId}
    BY <1>1, <1>2 DEF Migration!TypeOK
  <2> QED BY <1>1, <1>2, <2>1 DEF Migration!Moved
<1> HIDE DEF c
<1>8. Migration!TypeOK'
  BY <1>1, <1>2, <1>3, <1>5, <1>6, <1>7 DEF Migration!TypeOK, Turns
<1>9. Handling'
  BY <1>1, <1>2, <1>3, <1>6 DEF MigrationIInv, Handling
<1>10. Listed'
  BY <1>2, <1>6 DEF MigrationIInv, Listed
<1>11. TurnStarted'
  BY <1>1, <1>2, <1>3 DEF MigrationIInv, TurnStarted, TurnWorking, Migration!Busy
<1>12. Entered'
  <2>1. \A k \in Migration!Ids : proc'[k] # NoId => turn'[proc'[k]].at \notin {"new", "queued", "launch"}
    <3>1. \A k \in Migration!Ids : proc'[k] # NoId => \E l \in Migration!Ids : proc'[k] = proc[l]
      BY <1>2, <1>7
    <3>2. \A l \in Migration!Ids : proc[l] # NoId =>
            proc[l] \in Prompts /\ turn[proc[l]].at \notin {"new", "queued", "launch"}
      BY <1>1 DEF MigrationIInv, Migration!TypeOK, Entered
    <3> QED BY <1>3, <3>1, <3>2
  <2>2. \A k, l \in Migration!Ids : proc'[k] # NoId /\ proc'[k] = proc'[l] => k = l
    BY <1>2, <1>7 DEF MigrationIInv, Entered
  <2> QED BY <2>1, <2>2 DEF Entered
<1>13. ASSUME NEW k \in Migration!Ids, NEW i \in DOMAIN queue'[k]
       PROVE  \/ k \notin {old, c} /\ i \in DOMAIN queue[k] /\ queue'[k][i] = queue[k][i]
              \/ k = c /\ i \in DOMAIN queue[old] /\ queue'[k][i] = queue[old][i]
              \/ /\ k = c /\ i \in Nat /\ i - Len(queue[old]) \in DOMAIN queue[c]
                 /\ queue'[k][i] = queue[c][i - Len(queue[old])]
  <2>1. CASE k = c
    <3>1. i \in DOMAIN (queue[old] \o queue[c])
      BY <1>5, <2>1
    <3>2. \/ i \in DOMAIN queue[old] /\ (queue[old] \o queue[c])[i] = queue[old][i]
          \/ /\ i \in Nat /\ i - Len(queue[old]) \in DOMAIN queue[c]
             /\ (queue[old] \o queue[c])[i] = queue[c][i - Len(queue[old])]
      BY <1>4, <3>1, Joined
    <3> QED BY <1>5, <2>1, <3>2
  <2>2. CASE k # c
    BY <1>2, <1>5, <2>2
  <2> QED BY <2>1, <2>2
<1>14. Queued'
  <2>1. \A k \in Migration!Ids : \A i \in DOMAIN queue[k] : queue[k][i] \in Prompts \ {p}
    BY <1>1, InQueue DEF MigrationIInv, Queued
  <2>2. \A k \in Migration!Ids : \A i \in DOMAIN queue'[k] : turn'[queue'[k][i]].at = "queued"
    BY <1>2, <1>3, <1>13, <2>1 DEF MigrationIInv, Queued
  <2>3. ASSUME NEW k \in Migration!Ids, NEW i \in DOMAIN queue'[k],
               NEW l \in Migration!Ids, NEW j \in DOMAIN queue'[l], queue'[k][i] = queue'[l][j]
        PROVE  k = l /\ i = j
    <3>1. Len(queue[old]) \in Nat /\ (i \in DOMAIN queue[old] => i \in Nat)
          /\ (j \in DOMAIN queue[old] => j \in Nat)
      BY <1>4
    <3> QED BY <1>2, <1>13, <2>3, <3>1 DEF MigrationIInv, Queued
  <2> QED BY <2>2, <2>3 DEF Queued
<1>15. KeyFollows'
  <2>1. \A id \in Migration!Ids : ~Stands(id)
    BY <1>1 DEF Stands, TurnWorking, Migration!Busy
  <2>2. ASSUME NEW q \in Prompts, Moves(q)
        PROVE  Moves(q)'
    <3>1. q = p /\ Under(old)
      BY <1>1, <2>2 DEF Moves, TurnWorking, Migration!Busy
    <3>2. \A k \in Migration!Ids \ {c} : proc'[k] = NoId /\ queue'[k] = <<>> /\ subs'[k] = {}
      BY <1>2, <1>5, <1>6, <1>7, <3>1 DEF Under
    <3>3. turn'[q].at = "moved" /\ turn'[q].id = c /\ rows' = {} /\ call' = Migration!NoCall
      BY <1>1, <1>3, <2>2, <3>1 DEF Moves
    <3>4. \A r \in Prompts \ {q} : turn'[r].at \notin TurnWorking
      BY <1>3, <2>2, <3>1 DEF Moves
    <3> QED BY <3>2, <3>3, <3>4 DEF Moves, Under
  <2> QED BY <1>1, <2>1, <2>2 DEF MigrationIInv, KeyFollows
<1> QED BY <1>8, <1>9, <1>10, <1>11, <1>12, <1>14, <1>15 DEF MigrationIInv

LEMMA StepMigrateSave ==
  ASSUME Apart, MigrationIInv, NEW p \in Prompts, Migration!MigrateSave(p)
  PROVE  MigrationIInv'
<1> DEFINE c == turn[p].id
<1>1. /\ turn[p].at = "moved" /\ Migration!TypeOK /\ Migration!Goto(p, "run") /\ rows' = rows \cup {c}
      /\ UNCHANGED <<straddling, proc, queue, paused, block, subs, child, call, calls>>
  BY DEF Migration!MigrateSave, MigrationIInv
<1>2. c \in Conversations /\ c \in Migration!Ids
  BY <1>1 DEF MigrationIInv, TurnStarted, Migration!Ids
<1>3. /\ turn' \in [Prompts -> Turns]
      /\ turn'[p].at = "run" /\ turn'[p].orig = turn[p].orig /\ turn'[p].id = c
      /\ \A q \in Prompts \ {p} : turn'[q] = turn[q]
  BY <1>1, Going DEF Migration!Phases, Migration!Busy
<1> HIDE DEF c
<1>4. Migration!TypeOK'
  BY <1>1, <1>2, <1>3 DEF Migration!TypeOK, Turns
<1>5. Handling' /\ Listed'
  BY <1>1, <1>3 DEF MigrationIInv, Handling, Listed
<1>6. TurnStarted'
  BY <1>1, <1>2, <1>3 DEF MigrationIInv, TurnStarted, TurnWorking, Migration!Busy
<1>7. Queued'
  <2>1. \A k \in Migration!Ids : \A i \in DOMAIN queue[k] : queue[k][i] \in Prompts \ {p}
    BY <1>1, InQueue DEF MigrationIInv, Queued
  <2> QED BY <1>1, <1>3, <2>1 DEF MigrationIInv, Queued
<1>8. Entered'
  BY <1>1, <1>3 DEF MigrationIInv, Migration!TypeOK, Entered
<1>9. KeyFollows'
  <2>1. \A id \in Migration!Ids : ~Stands(id)
    BY <1>1 DEF Stands, TurnWorking, Migration!Busy
  <2>2. ASSUME NEW q \in Prompts, Moves(q), NEW id \in Migration!Ids, id = c
        PROVE  Stands(id)'
    <3>1. q = p /\ Under(id)
      BY <1>1, <2>2 DEF Moves, TurnWorking, Migration!Busy, c
    <3>2. rows' = {id} /\ call'.id = NoId
      BY <1>1, <2>2 DEF Moves, Migration!NoCall
    <3>3. \A r \in Prompts : turn'[r].at \in TurnWorking =>
            turn'[r].id = id /\ turn'[r].at \notin {"move", "moved"}
      BY <1>3, <2>2, <3>1 DEF Moves
    <3> QED BY <1>1, <3>1, <3>2, <3>3 DEF Stands, Under
  <2> QED BY <1>1, <1>2, <2>1, <2>2 DEF MigrationIInv, KeyFollows
<1> QED BY <1>4, <1>5, <1>6, <1>7, <1>8, <1>9 DEF MigrationIInv

-----------------------------------------------------------------------------
LEMMA Step ==
  ASSUME Apart, MigrationIInv, [Migration!Next]_(Migration!vars)
  PROVE  MigrationIInv'
<1>1. CASE UNCHANGED Migration!vars
  <2>1. Migration!TypeOK
    BY DEF MigrationIInv
  <2> QED BY <1>1, <2>1, Quiet DEF Migration!vars, Migration!TypeOK
<1>2. CASE Migration!Client
  BY <1>2, StepResolve
<1>3. CASE Migration!Handler
  BY <1>3, StepPrompt, StepEnqueue, StepClearQueue, StepSubscribe, StepProceeding,
     StepResumeDequeue DEF Migration!Handler
<1>4. ASSUME NEW p \in Prompts, Migration!Turn(p)
      PROVE  MigrationIInv'
  BY <1>4, StepTurnGoesOn, StepRunTurn, StepMigrateRow, StepMigrateMaps, StepMigrateSave,
     StepSettle, StepDispatchNext DEF Migration!Turn
<1>5. ASSUME NEW tab \in Tabs, Migration!Unsubscribe(tab)
      PROVE  MigrationIInv'
  BY <1>5, StepUnsubscribe
<1> QED BY <1>1, <1>2, <1>3, <1>4, <1>5 DEF Migration!Next

LEMMA Inductive ==
  ASSUME Apart
  PROVE  Migration!Spec => []MigrationIInv
<1>1. Migration!Init => MigrationIInv
  BY Initially
<1>2. MigrationIInv /\ [Migration!Next]_(Migration!vars) => MigrationIInv'
  BY Step
<1> QED BY <1>1, <1>2, PTL DEF Migration!Spec

(* The maps, rows, turns and handlers of a session keep their types.       *)
THEOREM MigrationTyping ==
  ASSUME Apart
  PROVE  Migration!Spec => []Migration!TypeOK
<1>1. MigrationIInv => Migration!TypeOK
  BY DEF MigrationIInv
<1> QED BY <1>1, Inductive, PTL

(* Whoever holds which ID of the session when it changes - handlers,       *)
(* launchers, the turn itself - no prompt waits twice, no turn is entered  *)
(* under two keys, and no listener is on two lists (headless.go            *)
(* handleAntigravityInit and what it races with).                          *)
THEOREM OneKey ==
  ASSUME Apart
  PROVE  Migration!Spec => []Migration!UnderOneKey
<1>1. MigrationIInv => Migration!UnderOneKey
  BY Implied
<1> QED BY <1>1, Inductive, PTL

(* If nobody else holds the ID while it changes, processes, queue and      *)
(* listeners are under the ID of the session's one row before and after.   *)
THEOREM MapsFollow ==
  ASSUME Apart
  PROVE  Migration!Spec => []Migration!MapsFollowRow
<1>1. MigrationIInv => Migration!MapsFollowRow
  BY Implied
<1> QED BY <1>1, Inductive, PTL

-----------------------------------------------------------------------------
(***************************************************************************)
(* The project tree.                                                       *)
(***************************************************************************)
Tops == {p[1] : p \in NodePaths}
Lows == UNION {{p[k] : k \in 2 .. Len(p)} : p \in NodePaths}
Nested == {p \in Seq(Nat) : Len(p) > 0 /\ p[1] \in Tops /\ \A k \in 2 .. Len(p) : p[k] \in Lows}

TreeTypes ==
    /\ nodes \in [DOMAIN nodes -> Dirs \cup {<<>>}] /\ DOMAIN nodes \subseteq Nested
    /\ IsFiniteSet(DOMAIN nodes)
    /\ dirs \in [DOMAIN dirs -> Dirs] /\ DOMAIN dirs \subseteq Nested
    /\ DOMAIN filed \subseteq Placed
    /\ request \in [op : {"none"}] \cup [op : {"save", "create", "bind"}, path : NodePaths, dir : Dirs]
         \cup [op : {"unassign", "forget"}, path : NodePaths]
         \cup [op : {"movedirs", "movesessions"}, path : NodePaths, to : NodePaths]
    /\ filing = {} \/ (request = Tree!Quiet /\ \E i \in Placed, p \in {x.path : x \in filing} : filing = {[id |-> i, path |-> p]})
    /\ requests \in 0 .. MaxRequests
    /\ removed \subseteq Nested
    /\ torn \in BOOLEAN

\* What the next statements of a request still have to do.
Behind(i) == request.op \in {"unassign", "movedirs", "movesessions"} /\ Tree!In(filed[i], request.path)
Left(q) ==
    /\ request.op \in {"unassign", "forget", "movedirs"} /\ Tree!In(q, request.path)
    /\ request.op = "movedirs" => Tree!Rebase(q, request.path, request.to) \in DOMAIN nodes
Resident == \A i \in Tree!Present : filed[i] \in removed => Behind(i)
Owned ==
    \A q \in DOMAIN dirs :
        \/ (request.op = "movedirs" => ~Tree!In(q, request.path)) /\ q \in DOMAIN nodes
        \/ Left(q)
Found ==
    /\ request.op \in {"save", "create", "bind"} => request.path \in DOMAIN nodes
    /\ \A x \in filing : x.path \notin removed

TreeIInv ==
    /\ TreeTypes
    /\ removed \cap Tree!Groups(DOMAIN nodes) = {}
    /\ ~torn => Resident /\ Owned /\ Found

-----------------------------------------------------------------------------

\* A finite set that is ordered has a first element.
LEMMA FirstStep ==
    ASSUME NEW S, IsFiniteSet(S), S # {}, NEW R,
           \A a, b, c \in S : <<a, b>> \in R /\ <<b, c>> \in R => <<a, c>> \in R,
           \A a \in S : <<a, a>> \notin R,
           \A a, b \in S : a # b => <<a, b>> \in R \/ <<b, a>> \in R
    PROVE  \E h \in S : \A g \in S \ {h} : <<h, g>> \in R
<1> DEFINE before(h) == {g \in S : <<g, h>> \in R}
           ranks == {Cardinality(before(h)) : h \in S}
<1>1. \A h \in S : IsFiniteSet(before(h)) /\ Cardinality(before(h)) \in Nat
  <2> TAKE h \in S
  <2>1. before(h) \in SUBSET S
    OBVIOUS
  <2> HIDE DEF before
  <2> QED BY <2>1, FS_Subset, FS_CardinalityType
<1>2. PICK n \in ranks : \A m \in ranks : n <= m
  <2>1. ranks \subseteq Nat
    <3>1. ASSUME NEW m \in ranks PROVE  \E h \in S : m = Cardinality(before(h))
      OBVIOUS
    <3> HIDE DEF ranks, before
    <3> QED BY <1>1, <3>1
  <2>2. ranks # {}
    <3>1. PICK h : h \in S
      OBVIOUS
    <3>2. Cardinality(before(h)) \in ranks
      BY <3>1
    <3> QED BY <3>2
  <2> HIDE DEF ranks
  <2> QED BY <2>1, <2>2, Least
<1>3. PICK h \in S : \A g \in S : Cardinality(before(h)) <= Cardinality(before(g))
  <2>1. PICK h \in S : n = Cardinality(before(h))
    BY <1>2
  <2>2. \A g \in S : Cardinality(before(g)) \in ranks
    OBVIOUS
  <2> HIDE DEF ranks, before
  <2> QED BY <1>2, <2>1, <2>2
<1>4. ASSUME NEW g \in S \ {h}, <<h, g>> \notin R PROVE  FALSE
  <2>1. <<g, h>> \in R
    BY <1>4
  <2>2. before(g) \in SUBSET before(h) /\ g \in before(h) /\ g \notin before(g)
    BY <2>1
  <2> HIDE DEF before
  <2>3. Cardinality(before(g)) <= Cardinality(before(h)) /\ before(g) # before(h)
    BY <1>1, <2>2, FS_Subset
  <2>4. Cardinality(before(g)) # Cardinality(before(h))
    BY <1>1, <2>2, <2>3, FS_Subset
  <2> QED BY <1>1, <1>3, <2>3, <2>4
<1> QED BY <1>4

-----------------------------------------------------------------------------
(* NodePaths. *)
LEMMA Below ==
    ASSUME NEW p \in Seq(Nat), NEW q \in Seq(Nat)
    PROVE  /\ Tree!In(p, q) <=> Len(q) <= Len(p) /\ \A k \in 1 .. Len(q) : q[k] = p[k]
           /\ Tree!IsStrictPrefix(q, p) <=> Len(q) < Len(p) /\ \A k \in 1 .. Len(q) : q[k] = p[k]
<1>1. ASSUME Len(q) <= Len(p), \A k \in 1 .. Len(q) : q[k] = p[k]
      PROVE  SubSeq(q, 1, Len(q)) = SubSeq(p, 1, Len(q))
  BY <1>1
<1>2. ASSUME Len(q) <= Len(p), SubSeq(q, 1, Len(q)) = SubSeq(p, 1, Len(q)), NEW k \in 1 .. Len(q)
      PROVE  q[k] = p[k]
  <2>1. SubSeq(q, 1, Len(q))[k] = q[k] /\ SubSeq(p, 1, Len(q))[k] = p[k]
    BY <1>2
  <2> QED BY <1>2, <2>1
<1>3. Tree!In(p, q) <=> Len(q) <= Len(p) /\ \A k \in 1 .. Len(q) : q[k] = p[k]
  BY <1>1, <1>2 DEF Tree!In, Tree!IsPrefix
<1>4. ASSUME Len(q) = Len(p), \A k \in 1 .. Len(q) : q[k] = p[k] PROVE  q = p
  BY <1>4
<1>5. Tree!IsStrictPrefix(q, p) <=> Tree!In(p, q) /\ q # p
  BY DEF Tree!IsStrictPrefix, Tree!In
<1> QED BY <1>3, <1>4, <1>5

LEMMA Ordered ==
    ASSUME NEW p \in Seq(Nat), NEW q \in Seq(Nat)
    PROVE  /\ ~Tree!Before(p, p)
           /\ p # q => Tree!Before(p, q) \/ Tree!Before(q, p)
<1>1. ~Tree!Before(p, p)
  BY Below DEF Tree!Before
<1>2. ASSUME p # q, ~Tree!Before(p, q), ~Tree!Before(q, p) PROVE  FALSE
  <2> DEFINE D == {k \in DOMAIN p \cap DOMAIN q : p[k] # q[k]}
  <2>1. CASE D = {}
    <3>1. \A k \in DOMAIN p \cap DOMAIN q : p[k] = q[k]
      BY <2>1
    <3>2. Len(p) < Len(q) \/ Len(q) < Len(p) \/ Len(p) = Len(q)
      OBVIOUS
    <3>3. CASE Len(p) < Len(q)
      <4>1. Tree!IsStrictPrefix(p, q)
        BY <3>1, <3>3, Below
      <4> QED BY <1>2, <4>1 DEF Tree!Before
    <3>4. CASE Len(q) < Len(p)
      <4>1. Tree!IsStrictPrefix(q, p)
        BY <3>1, <3>4, Below
      <4> QED BY <1>2, <4>1 DEF Tree!Before
    <3>5. CASE Len(q) = Len(p)
      BY <1>2, <3>1, <3>5
    <3> QED BY <3>2, <3>3, <3>4, <3>5
  <2>2. CASE D # {}
    <3>1. D \subseteq Nat
      OBVIOUS
    <3>2. PICK k \in D : \A j \in D : k <= j
      <4> HIDE DEF D
      <4> QED BY <2>2, <3>1, Least
    <3>3. \A j \in 1 .. k - 1 : p[j] = q[j]
      BY <3>2
    <3>4. p[k] < q[k] \/ q[k] < p[k]
      BY <3>2
    <3> QED BY <1>2, <3>2, <3>3, <3>4 DEF Tree!Before
  <2> QED BY <2>1, <2>2
<1> QED BY <1>1, <1>2

LEMMA Onward ==
    ASSUME NEW p \in Seq(Nat), NEW q \in Seq(Nat), NEW r \in Seq(Nat), Tree!Before(p, q),
           Tree!Before(q, r)
    PROVE  Tree!Before(p, r)
<1> DEFINE Less(a, b, k) == k \in DOMAIN a \cap DOMAIN b /\ (\A j \in 1 .. k - 1 : a[j] = b[j]) /\ a[k] < b[k]
<1>1. Tree!IsStrictPrefix(p, q) \/ \E k \in DOMAIN p \cap DOMAIN q : Less(p, q, k)
  BY DEF Tree!Before
<1>2. Tree!IsStrictPrefix(q, r) \/ \E k \in DOMAIN q \cap DOMAIN r : Less(q, r, k)
  BY DEF Tree!Before
<1>3. ASSUME NEW k \in DOMAIN p \cap DOMAIN r, Less(p, r, k) PROVE  Tree!Before(p, r)
  BY <1>3 DEF Tree!Before
<1>4. CASE Tree!IsStrictPrefix(p, q) /\ Tree!IsStrictPrefix(q, r)
  BY <1>4, Below DEF Tree!Before
<1>5. ASSUME NEW k \in DOMAIN p \cap DOMAIN q, Less(p, q, k), Tree!IsStrictPrefix(q, r) PROVE  Tree!Before(p, r)
  <2>1. Len(q) < Len(r) /\ \A j \in 1 .. Len(q) : q[j] = r[j]
    BY <1>5, Below
  <2>2. k \in 1 .. Len(p) /\ k \in 1 .. Len(q) /\ k \in 1 .. Len(r)
    BY <1>5, <2>1
  <2>3. \A j \in 1 .. k - 1 : j \in 1 .. Len(q) /\ p[j] = q[j]
    BY <1>5, <2>2
  <2>4. (\A j \in 1 .. k - 1 : p[j] = r[j]) /\ p[k] < r[k]
    BY <1>5, <2>1, <2>2, <2>3
  <2>5. Less(p, r, k)
    BY <2>2, <2>4
  <2> QED BY <1>3, <2>2, <2>5
<1>6. ASSUME Tree!IsStrictPrefix(p, q), NEW k \in DOMAIN q \cap DOMAIN r, Less(q, r, k) PROVE  Tree!Before(p, r)
  <2>1. Len(p) < Len(q) /\ \A j \in 1 .. Len(p) : p[j] = q[j]
    BY <1>6, Below
  <2>2. CASE k <= Len(p)
    <3>1. Less(p, r, k)
      BY <1>6, <2>1, <2>2
    <3> QED BY <1>3, <3>1
  <2>3. CASE k > Len(p)
    <3>1. Len(p) < Len(r) /\ \A j \in 1 .. Len(p) : p[j] = r[j]
      BY <1>6, <2>1, <2>3
    <3> QED BY <3>1, Below DEF Tree!Before
  <2> QED BY <2>1, <2>2, <2>3
<1>7. ASSUME NEW k \in DOMAIN p \cap DOMAIN q, Less(p, q, k), NEW m \in DOMAIN q \cap DOMAIN r, Less(q, r, m)
      PROVE  Tree!Before(p, r)
  <2>0. /\ k \in 1 .. Len(p) /\ k \in 1 .. Len(q) /\ p[k] \in Nat /\ q[k] \in Nat
        /\ m \in 1 .. Len(q) /\ m \in 1 .. Len(r) /\ q[m] \in Nat /\ r[m] \in Nat
    BY <1>7
  <2>1. CASE k = m
    <3>1. p[k] < r[k]
      BY <1>7, <2>0, <2>1
    <3>2. Less(p, r, k)
      BY <1>7, <2>0, <2>1, <3>1
    <3> QED BY <1>3, <3>2
  <2>2. CASE k < m
    <3>1. k \in DOMAIN r /\ r[k] = q[k]
      <4>1. k \in 1 .. m - 1 /\ k \in 1 .. Len(r)
        BY <2>0, <2>2
      <4> QED BY <1>7, <4>1
    <3>2. \A j \in 1 .. k - 1 : j \in 1 .. m - 1
      BY <2>0, <2>2
    <3>3. (\A j \in 1 .. k - 1 : p[j] = r[j]) /\ p[k] < r[k]
      BY <1>7, <3>1, <3>2
    <3>4. Less(p, r, k)
      BY <2>0, <3>1, <3>3
    <3> QED BY <1>3, <2>0, <3>1, <3>4
  <2>3. CASE m < k
    <3>1. m \in DOMAIN p /\ p[m] = q[m]
      <4>1. m \in 1 .. k - 1 /\ m \in 1 .. Len(p)
        BY <2>0, <2>3
      <4> QED BY <1>7, <4>1
    <3>2. \A j \in 1 .. m - 1 : j \in 1 .. k - 1
      BY <2>0, <2>3
    <3>3. (\A j \in 1 .. m - 1 : p[j] = r[j]) /\ p[m] < r[m]
      BY <1>7, <3>1, <3>2
    <3>4. Less(p, r, m)
      BY <2>0, <3>1, <3>3
    <3> QED BY <1>3, <2>0, <3>1, <3>4
  <2> QED BY <2>0, <2>1, <2>2, <2>3
<1> HIDE DEF Less
<1> QED BY <1>1, <1>2, <1>4, <1>5, <1>6, <1>7

LEMMA Firsts ==
    ASSUME NEW S \in SUBSET Seq(Nat), IsFiniteSet(S), S # {}
    PROVE  Tree!FirstOf(S) \in S
<1> DEFINE R == {x \in S \X S : Tree!Before(x[1], x[2])}
<1>0. \A a, b \in S : <<a, b>> \in R <=> Tree!Before(a, b)
  OBVIOUS
<1>1. \A a, b, c \in S : <<a, b>> \in R /\ <<b, c>> \in R => <<a, c>> \in R
  <2> HIDE DEF R
  <2> QED BY <1>0, Onward
<1>2. \A a \in S : <<a, a>> \notin R
  <2> HIDE DEF R
  <2> QED BY <1>0, Ordered
<1>3. \A a, b \in S : a # b => <<a, b>> \in R \/ <<b, a>> \in R
  <2> HIDE DEF R
  <2> QED BY <1>0, Ordered
<1> HIDE DEF R
<1>4. \E h \in S : \A g \in S \ {h} : <<h, g>> \in R
  BY <1>1, <1>2, <1>3, FirstStep, ZenonT(40)
<1>5. \E h \in S : \A g \in S \ {h} : Tree!Before(h, g)
  BY <1>0, <1>4
<1> QED BY <1>5 DEF Tree!FirstOf

LEMMA Grouped ==
    ASSUME NEW S \in SUBSET Seq(Nat), NEW q \in S, Len(q) > 0
    PROVE  /\ q \in Tree!Groups(S) /\ <<q[1]>> \in Tree!Groups(S)
           /\ Tree!Groups(S) \subseteq Seq(Nat) \ {<<>>}
<1>1. \A k \in 1 .. Len(q) : SubSeq(q, 1, k) \in Tree!Groups(S)
  BY DEF Tree!Groups
<1>2. SubSeq(q, 1, Len(q)) = q /\ SubSeq(q, 1, 1) = <<q[1]>>
  <2>1. q \in Seq(Nat)
    OBVIOUS
  <2>2. SubSeq(q, 1, Len(q)) = q
    BY <2>1
  <2>3. SubSeq(q, 1, 1) = <<q[1]>>
    <3>1. 1 \in 1 .. Len(q) /\ q[1] \in Nat
      BY <2>1
    <3> DEFINE g == SubSeq(q, 1, 1)
    <3>2. g \in Seq(Nat) /\ Len(g) = 1 /\ g[1] = q[1]
      BY <2>1, <3>1
    <3> HIDE DEF g
    <3>3. g = <<q[1]>>
      BY <3>1, <3>2
    <3> QED BY <3>3 DEF g
  <2> QED BY <2>2, <2>3
<1>3. ASSUME NEW g \in Tree!Groups(S) PROVE  g \in Seq(Nat) \ {<<>>}
  <2>1. PICK p \in S : \E k \in 1 .. Len(p) : g = SubSeq(p, 1, k)
    BY DEF Tree!Groups
  <2> QED BY <2>1
<1>4. 1 \in 1 .. Len(q) /\ Len(q) \in 1 .. Len(q)
  OBVIOUS
<1> QED BY <1>1, <1>2, <1>3, <1>4

\* What has a group that is in p is in p itself.
LEMMA Inner ==
    ASSUME NEW q \in Seq(Nat), NEW k \in 1 .. Len(q), NEW p \in Seq(Nat), Tree!In(SubSeq(q, 1, k), p)
    PROVE  Tree!In(q, p)
<1>1. SubSeq(q, 1, k) \in Seq(Nat) /\ Len(SubSeq(q, 1, k)) = k /\ \A j \in 1 .. k : SubSeq(q, 1, k)[j] = q[j]
  OBVIOUS
<1>2. Len(p) <= k /\ \A j \in 1 .. Len(p) : p[j] = q[j]
  <2> DEFINE g == SubSeq(q, 1, k)
  <2>1. g \in Seq(Nat) /\ Len(g) = k /\ \A j \in 1 .. k : g[j] = q[j]
    BY <1>1
  <2>2. Tree!In(g, p)
    OBVIOUS
  <2> HIDE DEF g
  <2>3. Len(p) <= Len(g) /\ \A j \in 1 .. Len(p) : p[j] = g[j]
    BY <2>1, <2>2, Below
  <2> QED BY <2>1, <2>3
<1> QED BY <1>2, Below

LEMMA Rebased ==
    ASSUME NEW p \in Nested, NEW old \in NodePaths, NEW new \in NodePaths, Rooted
    PROVE  Tree!Rebase(p, old, new) \in Nested
<1>1. old \in Seq(Nat) /\ new \in Seq(Nat) /\ p \in Seq(Nat) /\ Len(old) > 0 /\ Len(new) > 0
  BY DEF Rooted, Nested
<1>2. new[1] \in Tops /\ \A k \in 2 .. Len(new) : new[k] \in Lows
  BY DEF Tops, Lows
<1> DEFINE t == SubSeq(p, Len(old) + 1, Len(p))
<1>3. t \in Seq(Nat) /\ \A k \in 1 .. Len(t) : t[k] \in Lows
  <2>1. \A k \in 2 .. Len(p) : p[k] \in Lows
    BY DEF Nested
  <2>2. CASE Len(old) >= Len(p)
    <3>1. t = <<>>
      BY <1>1, <2>2
    <3> HIDE DEF t
    <3> QED BY <3>1
  <2>3. CASE Len(old) < Len(p)
    <3>1. t \in Seq(Nat) /\ Len(t) = Len(p) - Len(old) /\ \A k \in 1 .. Len(t) : t[k] = p[k + Len(old)]
      BY <1>1, <2>3
    <3>2. \A k \in 1 .. Len(t) : k + Len(old) \in 2 .. Len(p)
      BY <1>1, <2>3, <3>1
    <3> HIDE DEF t
    <3> QED BY <2>1, <3>1, <3>2
  <2>4. Len(old) >= Len(p) \/ Len(old) < Len(p)
    BY <1>1
  <2> HIDE DEF t
  <2> QED BY <2>2, <2>3, <2>4
<1>4. Tree!Rebase(p, old, new) = new \o t
  BY DEF Tree!Rebase
<1> HIDE DEF t
<1>5. new \o t \in Seq(Nat) /\ Len(new \o t) = Len(new) + Len(t)
      /\ \A k \in 1 .. Len(new) + Len(t) : (new \o t)[k] = IF k <= Len(new) THEN new[k] ELSE t[k - Len(new)]
  BY <1>1, <1>3
<1>6. \A k \in 2 .. Len(new) + Len(t) : (new \o t)[k] \in Lows
  BY <1>1, <1>2, <1>3, <1>5
<1> DEFINE r == new \o t
<1>7. r \in Seq(Nat) /\ Len(r) = Len(new) + Len(t) /\ Len(r) > 0 /\ r[1] = new[1]
  BY <1>1, <1>3, <1>5
<1>8. \A k \in 2 .. Len(r) : r[k] \in Lows
  BY <1>6, <1>7
<1> HIDE DEF r
<1>9. r \in Nested
  BY <1>2, <1>7, <1>8 DEF Nested
<1> QED BY <1>4, <1>9 DEF r

-----------------------------------------------------------------------------
(* What the actions make of the tables. *)
LEMMA Deep ==
    ASSUME Rooted, NEW table, table \in [DOMAIN table -> Dirs \cup {<<>>}],
           DOMAIN table \in SUBSET Seq(Nat), IsFiniteSet(DOMAIN table),
           NEW cwd \in Seq(Nat), Tree!Holding(table, cwd) # {}
    PROVE  Tree!Deepest(table, cwd) \in DOMAIN table
<1> DEFINE H == Tree!Holding(table, cwd)
           T == {Len(cwd) - Len(table[p]) : p \in H}
           S == {p \in H : \A q \in H : Len(table[q]) <= Len(table[p])}
<1>1. \A p \in H : /\ p \in DOMAIN table /\ Len(table[p]) \in Nat
                   /\ Len(table[p]) <= Len(cwd)
  <2> TAKE p \in H
  <2>1. p \in DOMAIN table /\ table[p] \in Seq(Nat) /\ Tree!In(cwd, table[p])
    BY DEF Tree!Holding, Rooted
  <2> QED BY <2>1, Below
<1>2. Len(cwd) \in Nat
  OBVIOUS
<1>3. T \subseteq Nat /\ T # {}
  <2>1. ASSUME NEW t \in T PROVE  t \in Nat
    <3>1. PICK p \in H : t = Len(cwd) - Len(table[p])
      OBVIOUS
    <3> HIDE DEF H
    <3> QED BY <1>1, <1>2, <3>1
  <2> QED BY <2>1
<1>4. PICK t \in T : \A u \in T : t <= u
  <2> HIDE DEF T
  <2> QED BY <1>3, Least
<1>5. PICK p \in H : t = Len(cwd) - Len(table[p])
  BY <1>4
<1>6. \A q \in H : Len(cwd) - Len(table[q]) \in T
  OBVIOUS
<1>7. H # {} /\ H \subseteq DOMAIN table /\ Tree!Deepest(table, cwd) = Tree!FirstOf(S)
  BY <1>1 DEF Tree!Deepest
<1> HIDE DEF H, T
<1>8. \A q \in H : Len(table[q]) <= Len(table[p])
  BY <1>1, <1>2, <1>4, <1>5, <1>6
<1>9. p \in S /\ S \subseteq DOMAIN table
  BY <1>7, <1>8
<1> HIDE DEF S
<1>10. IsFiniteSet(S) /\ S \in SUBSET Seq(Nat)
  BY <1>9, FS_Subset
<1>11. Tree!FirstOf(S) \in S
  BY <1>9, <1>10, Firsts
<1> QED BY <1>7, <1>9, <1>11

\* Outside the requests a session is filed under a group that is there.
LEMMA Resolved ==
    ASSUME Rooted, TreeIInv, ~torn, request = Tree!Quiet, NEW i \in Placed
    PROVE  Tree!Resolve(WorkDir[i]) \notin removed
<1> DEFINE cwd == WorkDir[i]
<1>1. /\ nodes \in [DOMAIN nodes -> Dirs \cup {<<>>}] /\ DOMAIN nodes \subseteq Nested
      /\ IsFiniteSet(DOMAIN nodes) /\ dirs \in [DOMAIN dirs -> Dirs] /\ removed \subseteq Nested
      /\ removed \cap Tree!Groups(DOMAIN nodes) = {} /\ DOMAIN dirs \subseteq DOMAIN nodes
  <2>1. request.op = "none"
    BY DEF Tree!Quiet
  <2> QED BY <2>1 DEF TreeIInv, TreeTypes, Owned, Left
<1>2. cwd \in Seq(Nat)
  BY DEF Rooted
<1>3. Nested \subseteq Seq(Nat) /\ <<>> \notin Nested
  BY DEF Nested
<1>4. DOMAIN nodes \in SUBSET Seq(Nat) /\ \A p \in DOMAIN nodes : Len(p) > 0
  BY <1>1 DEF Nested
<1>5. \A p \in DOMAIN nodes : p \notin removed /\ <<p[1]>> \notin removed
  <2>1. \A p \in DOMAIN nodes : p \in Tree!Groups(DOMAIN nodes) /\ <<p[1]>> \in Tree!Groups(DOMAIN nodes)
    BY <1>4, Grouped
  <2> QED BY <1>1, <2>1
<1> HIDE DEF cwd
<1>6. ASSUME Tree!Holding(dirs, cwd) # {} PROVE  Tree!Deepest(dirs, cwd) \notin removed
  <2>1. dirs \in [DOMAIN dirs -> Dirs \cup {<<>>}] /\ IsFiniteSet(DOMAIN dirs) /\ DOMAIN dirs \in SUBSET Seq(Nat)
    BY <1>1, <1>4, FS_Subset
  <2>2. Tree!Deepest(dirs, cwd) \in DOMAIN dirs
    BY <1>2, <1>6, <2>1, Deep
  <2> QED BY <1>1, <1>5, <2>2
<1>7. ASSUME Tree!Holding(nodes, cwd) # {} PROVE  Tree!Deepest(nodes, cwd) \notin removed
  <2>1. Tree!Deepest(nodes, cwd) \in DOMAIN nodes
    BY <1>1, <1>2, <1>4, <1>7, Deep
  <2> QED BY <1>5, <2>1
<1>8. ASSUME NEW S, S \subseteq DOMAIN nodes, S # {} PROVE  Tree!FirstOf(S) \in DOMAIN nodes
  <2>1. IsFiniteSet(S) /\ S \in SUBSET Seq(Nat)
    BY <1>1, <1>4, <1>8, FS_Subset
  <2>2. Tree!FirstOf(S) \in S
    BY <1>8, <2>1, Firsts
  <2> QED BY <1>8, <2>2
<1>9. Tree!ByName(cwd) # {} => Tree!FirstOf(Tree!ByName(cwd)) \notin removed
  <2>1. Tree!ByName(cwd) \subseteq DOMAIN nodes
    BY DEF Tree!ByName
  <2> QED BY <1>5, <1>8, <2>1
<1>10. ASSUME Tree!ByGroup(cwd) # {}
       PROVE  LET p == Tree!FirstOf(Tree!ByGroup(cwd)) IN <<p[Tree!GroupName(p, cwd)]>> \notin removed
  <2> DEFINE p == Tree!FirstOf(Tree!ByGroup(cwd))
             I == {k \in 1 .. Len(p) : p[k] \in Tree!Range(cwd)}
  <2>1. Tree!ByGroup(cwd) \subseteq DOMAIN nodes
    BY DEF Tree!ByGroup
  <2>2. p \in DOMAIN nodes /\ p \in Tree!ByGroup(cwd)
    <3>1. IsFiniteSet(Tree!ByGroup(cwd)) /\ Tree!ByGroup(cwd) \in SUBSET Seq(Nat)
      BY <1>1, <1>4, <2>1, FS_Subset
    <3> QED BY <1>10, <2>1, <3>1, Firsts
  <2>3. I # {} /\ I \subseteq Nat /\ Tree!GroupName(p, cwd) = IF I # {} THEN Tree!Min(I) ELSE 0
    <3>1. Tree!Range(p) \cap Tree!Range(cwd) # {}
      BY <2>2 DEF Tree!ByGroup
    <3>2. PICK k \in DOMAIN p : p[k] \in Tree!Range(cwd)
      BY <3>1 DEF Tree!Range
    <3>3. DOMAIN p = 1 .. Len(p)
      BY <1>4, <2>2
    <3> QED BY <3>2, <3>3 DEF Tree!GroupName, Tree!SelectInSeq
  <2> DEFINE k == Tree!GroupName(p, cwd)
  <2>4. k \in I
    <3>1. \E x \in I : \A y \in I : x <= y
      <4> HIDE DEF I, p
      <4> QED BY <2>3, Least
    <3> HIDE DEF I, p
    <3> QED BY <2>3, <3>1 DEF Tree!Min
  <2>5. k \in 1 .. Len(p)
    BY <2>4
  <2> HIDE DEF k, I, p
  <2>6. p \in Nested
    BY <1>1, <2>2
  <2>7. CASE k = 1
    BY <1>5, <2>2, <2>7 DEF k, p
  <2>8. CASE k # 1
    <3>1. k \in 2 .. Len(p)
      BY <1>4, <2>2, <2>5, <2>8
    <3>2. p[k] \in Lows
      BY <2>6, <3>1 DEF Nested
    <3>3. Lows \cap Tops = {}
      <4> SUFFICES ASSUME NEW n \in Lows, n \in Tops PROVE  FALSE
        OBVIOUS
      <4>1. PICK a \in NodePaths : \E m \in 2 .. Len(a) : n = a[m]
        BY DEF Lows
      <4>2. PICK b \in NodePaths : n = b[1]
        BY DEF Tops
      <4> QED BY <4>1, <4>2 DEF Rooted
    <3>4. <<p[k]>> \notin Nested
      <4> DEFINE g == <<p[k]>>
      <4>1. g[1] = p[k]
        OBVIOUS
      <4> HIDE DEF g
      <4> QED BY <3>2, <3>3, <4>1 DEF Nested, g
    <3> QED BY <1>1, <3>4 DEF k, p
  <2> QED BY <2>7, <2>8
<1>11. <<>> \notin removed
  BY <1>1, <1>3
<1> QED BY <1>6, <1>7, <1>9, <1>10, <1>11 DEF Tree!Resolve, cwd

LEMMA TreeCounts ==
  ASSUME NEW S
  PROVE  Tree!Cardinality(S) = Cardinality(S)
BY DEF Tree!Cardinality, Cardinality

LEMMA Alone ==
    ASSUME Rooted, TreeTypes, Tree!Admit
    PROVE  filing = {} /\ request = Tree!Quiet
<1>1. CASE filing = {}
  <2>1. Cardinality(filing) = 0
    BY <1>1, FS_EmptySet
  <2> QED BY <1>1, <2>1, TreeCounts DEF Tree!Admit, Rooted
<1>2. CASE filing # {}
  <2>1. PICK x : filing = {x}
    BY <1>2 DEF TreeTypes
  <2>2. Cardinality(filing) = 1
    BY <2>1, FS_Singleton
  <2> QED BY <2>2, TreeCounts DEF Tree!Admit, Rooted
<1> QED BY <1>1, <1>2

\* What a subtree becomes when it moves.
LEMMA Moving ==
    ASSUME Rooted, NEW table, NEW V, table \in [DOMAIN table -> V], DOMAIN table \subseteq Nested,
           NEW old \in NodePaths, NEW new \in NodePaths,
           NEW N, N = Tree!Over(Tree!Moved(table, old, new), Tree!Without(table, Tree!Within(table, old)))
    PROVE  /\ N \in [DOMAIN N -> V]
           /\ \A x \in Tree!Within(table, old) : Tree!Rebase(x, old, new) \in DOMAIN Tree!Moved(table, old, new)
           /\ \A y \in DOMAIN Tree!Moved(table, old, new) : \E x \in Tree!Within(table, old) : y = Tree!Rebase(x, old, new)
           /\ DOMAIN N = DOMAIN Tree!Moved(table, old, new) \cup (DOMAIN table \ Tree!Within(table, old))
           /\ DOMAIN N \subseteq Nested
           /\ IsFiniteSet(DOMAIN table) => IsFiniteSet(DOMAIN N)
<1> DEFINE W == Tree!Within(table, old)
           M == Tree!Moved(table, old, new)
           O == Tree!Without(table, W)
<1>1. W \subseteq DOMAIN table /\ \A p \in DOMAIN table : p \in W <=> Tree!In(p, old)
  BY DEF Tree!Within
<1>2. /\ DOMAIN M = {Tree!Rebase(p, old, new) : p \in W}
      /\ \A q \in DOMAIN M : M[q] = table[CHOOSE p \in W : Tree!Rebase(p, old, new) = q]
  BY DEF Tree!Moved
<1> HIDE DEF M
<1>3. \A q \in DOMAIN M : M[q] \in V
  <2> TAKE q \in DOMAIN M
  <2>1. PICK p \in W : Tree!Rebase(p, old, new) = q
    BY <1>2
  <2> DEFINE c == CHOOSE x \in W : Tree!Rebase(x, old, new) = q
  <2>2. c \in W
    BY <2>1
  <2>3. M[q] = table[c]
    BY <1>2
  <2> HIDE DEF c
  <2> QED BY <1>1, <2>2, <2>3
<1>4. DOMAIN O = {p \in DOMAIN table : ~Tree!In(p, old)} /\ \A p \in DOMAIN O : O[p] \in V
  BY <1>1 DEF Tree!Without, Tree!Restrict
<1>5. DOMAIN N = DOMAIN M \cup DOMAIN O /\ N = [q \in DOMAIN M \cup DOMAIN O |-> IF q \in DOMAIN M THEN M[q] ELSE O[q]]
  BY DEF Tree!Over, M, O
<1>6. N \in [DOMAIN N -> V]
  <2> HIDE DEF O
  <2> QED BY <1>3, <1>4, <1>5
<1>7. DOMAIN N \subseteq Nested
  BY <1>1, <1>2, <1>4, <1>5, Rebased
<1>8. ASSUME IsFiniteSet(DOMAIN table) PROVE  IsFiniteSet(DOMAIN N)
  <2> DEFINE f == [p \in W |-> Tree!Rebase(p, old, new)]
  <2>1. IsFiniteSet(W) /\ IsFiniteSet(DOMAIN O)
    <3> HIDE DEF W, O
    <3> QED BY <1>1, <1>4, <1>8, FS_Subset
  <2>2. f \in Surjection(W, DOMAIN M)
    <3>1. f \in [W -> DOMAIN M]
      BY <1>2
    <3>2. \A q \in DOMAIN M : \E p \in W : f[p] = q
      BY <1>2
    <3> QED BY <3>1, <3>2 DEF Surjection
  <2>3. IsFiniteSet(DOMAIN M)
    <3> HIDE DEF f, W
    <3> QED BY <2>1, <2>2, FS_Surjection
  <2>4. IsFiniteSet(DOMAIN M \cup DOMAIN O)
    <3> HIDE DEF O
    <3> QED BY <2>1, <2>3, FS_Union
  <2> QED BY <1>5, <2>4
<1>9. DOMAIN O = DOMAIN table \ W
  BY <1>1, <1>4
<1> HIDE DEF O
<1>10. DOMAIN N = DOMAIN M \cup (DOMAIN table \ W)
  BY <1>5, <1>9
<1>11. /\ \A x \in W : Tree!Rebase(x, old, new) \in DOMAIN M
       /\ \A y \in DOMAIN M : \E x \in W : y = Tree!Rebase(x, old, new)
  BY <1>2
<1> QED BY <1>6, <1>7, <1>8, <1>10, <1>11 DEF M, W

\* A path that a request has removed is of no group of the rest.
LEMMA Clear ==
    ASSUME NEW S \in SUBSET Seq(Nat), NEW g \in Tree!Groups(S), NEW old \in Seq(Nat), Tree!In(g, old)
    PROVE  \E q \in S : Tree!In(q, old) /\ g \in Tree!Groups({q})
<1>1. PICK q \in S : \E k \in 1 .. Len(q) : g = SubSeq(q, 1, k)
  BY DEF Tree!Groups
<1>2. Tree!In(q, old)
  BY <1>1, Inner
<1>3. g \in Tree!Groups({q})
  BY <1>1 DEF Tree!Groups
<1> QED BY <1>2, <1>3

LEMMA Parts ==
    ASSUME NEW S, NEW T
    PROVE  /\ Tree!Groups(S \cup T) = Tree!Groups(S) \cup Tree!Groups(T)
           /\ S \subseteq T => Tree!Groups(S) \subseteq Tree!Groups(T)
BY DEF Tree!Groups

LEMMA StepTree ==
    ASSUME Rooted, TreeIInv, [Tree!TreeNext]_(Tree!treeVars)
    PROVE  TreeIInv'
<1> USE DEF TreeIInv
<1>0. /\ NodePaths \subseteq Nested /\ Nested \subseteq Seq(Nat) /\ <<>> \notin Nested
      /\ \A p \in NodePaths : p \in Seq(Nat) /\ Len(p) > 0
  <2>1. ASSUME NEW p \in NodePaths PROVE  p \in Nested
    BY DEF Nested, Tops, Lows, Rooted
  <2> QED BY <2>1 DEF Nested
<1>1. \A p \in DOMAIN nodes : p \in Tree!Groups(DOMAIN nodes) /\ p \notin removed
  <2>1. \A p \in DOMAIN nodes : Len(p) > 0 /\ DOMAIN nodes \in SUBSET Seq(Nat)
    BY <1>0 DEF TreeTypes, Nested
  <2> QED BY <2>1, Grouped
<1>2. ASSUME NEW p \in NodePaths, NEW d \in Dirs \cup {<<>>}, NEW op \in {"create", "save"}, Tree!SaveNode(p, d, op)
      PROVE  TreeIInv'
  <2> USE DEF Tree!SaveNode, Tree!Request
  <2>1. filing = {} /\ request.op = "none"
    BY <1>2, Alone DEF Tree!Quiet
  <2>2. DOMAIN nodes' = DOMAIN nodes \cup {p} /\ nodes' \in [DOMAIN nodes' -> Dirs \cup {<<>>}]
    BY <1>2 DEF Tree!Put, TreeTypes
  <2>3. IsFiniteSet(DOMAIN nodes')
    BY <2>2, FS_AddElement DEF TreeTypes
  <2>4. TreeTypes'
    <3>1. requests' \in 0 .. MaxRequests
      BY <1>2 DEF TreeTypes, Rooted
    <3>2. request' \in [op : {"none"}] \cup [op : {"save", "create", "bind"}, path : NodePaths, dir : Dirs]
      BY <1>2 DEF Tree!Quiet
    <3> QED BY <1>0, <1>2, <2>1, <2>2, <2>3, <3>1, <3>2 DEF TreeTypes
  <2>5. removed' \cap Tree!Groups(DOMAIN nodes') = {}
    <3>1. Tree!Groups(DOMAIN nodes') = Tree!Groups(DOMAIN nodes) \cup Tree!Groups({p})
      BY <2>2, Parts
    <3> QED BY <1>2, <3>1
  <2>6. request'.op \in {"none", "save", "create"} /\ (request'.op # "none" => request'.path = p)
    BY <1>2 DEF Tree!Quiet
  <2>7. ASSUME ~torn PROVE  (Resident /\ Owned /\ Found)'
    <3>1. Resident'
      BY <1>2, <2>1, <2>7 DEF Resident, Behind, Tree!Present
    <3>2. Owned'
      BY <1>2, <2>1, <2>2, <2>6, <2>7 DEF Owned, Left
    <3>3. Found'
      BY <1>2, <2>1, <2>2, <2>6, <2>7 DEF Found
    <3> QED BY <3>1, <3>2, <3>3
  <2> QED BY <1>2, <2>4, <2>5, <2>7
<1>3. ASSUME Tree!SaveNodeHostPath PROVE  TreeIInv'
  <2> USE DEF Tree!SaveNodeHostPath
  <2>1. request.path \in NodePaths /\ request.dir \in Dirs /\ request # Tree!Quiet /\ filing = {}
    BY <1>3 DEF TreeTypes, Tree!Quiet
  <2>2. DOMAIN dirs' = DOMAIN dirs \cup {request.path} /\ dirs' \in [DOMAIN dirs' -> Dirs]
    BY <1>3, <2>1 DEF Tree!Put, TreeTypes
  <2>3. /\ request' \in [op : {"none"}] \cup [op : {"save", "create", "bind"}, path : NodePaths, dir : Dirs]
        /\ request'.op \in {"none", "bind"} /\ (request'.op = "bind" => request'.path = request.path)
    BY <1>3, <2>1 DEF Tree!Quiet, TreeTypes
  <2>4. TreeTypes'
    BY <1>0, <1>3, <2>1, <2>2, <2>3 DEF TreeTypes
  <2>5. ASSUME ~torn PROVE  (Resident /\ Owned /\ Found)'
    <3>1. Resident'
      BY <1>3, <2>5 DEF Resident, Behind, Tree!Present
    <3>2. Owned'
      BY <1>3, <2>2, <2>3, <2>5 DEF Owned, Left, Found
    <3>3. Found'
      BY <1>3, <2>1, <2>3, <2>5 DEF Found
    <3> QED BY <3>1, <3>2, <3>3
  <2> QED BY <1>3, <2>4, <2>5
<1>4. ASSUME Tree!BindSessions PROVE  TreeIInv'
  <2> USE DEF Tree!BindSessions
  <2>1. request.path \in NodePaths /\ request # Tree!Quiet /\ filing = {}
    BY <1>4 DEF TreeTypes, Tree!Quiet
  <2>2. TreeTypes'
    BY <1>4, <2>1 DEF TreeTypes, Tree!Quiet, Tree!Present
  <2>3. ASSUME ~torn PROVE  (Resident /\ Owned /\ Found)'
    <3>1. Resident'
      BY <1>1, <1>4, <2>3 DEF Resident, Behind, Tree!Present, Found
    <3>2. Owned'
      BY <1>4, <2>3 DEF Owned, Left, Tree!Quiet
    <3>3. Found'
      BY <1>4, <2>1, <2>3 DEF Found, Tree!Quiet
    <3> QED BY <3>1, <3>2, <3>3
  <2> QED BY <1>4, <2>2, <2>3
<1>5. ASSUME NEW p \in NodePaths, Tree!DeleteNode(p) PROVE  TreeIInv'
  <2> USE DEF Tree!DeleteNode, Tree!Request
  <2>1. filing = {} /\ request.op = "none"
    BY <1>5, Alone DEF Tree!Quiet
  <2>2. /\ Tree!Within(nodes, p) = {q \in DOMAIN nodes : Tree!In(q, p)}
        /\ DOMAIN nodes' = {q \in DOMAIN nodes : ~Tree!In(q, p)}
        /\ nodes' \in [DOMAIN nodes' -> Dirs \cup {<<>>}]
    BY <1>5 DEF Tree!Without, Tree!Within, Tree!Restrict, TreeTypes
  <2>3. TreeTypes'
    <3>1. requests' \in 0 .. MaxRequests
      BY <1>5 DEF TreeTypes, Rooted
    <3>2. request' \in [op : {"unassign", "forget"}, path : NodePaths]
      BY <1>5
    <3>3. IsFiniteSet(DOMAIN nodes') /\ DOMAIN nodes' \subseteq Nested /\ removed' \subseteq Nested
      BY <1>5, <2>2, FS_Subset DEF TreeTypes
    <3> QED BY <1>5, <2>1, <2>2, <3>1, <3>2, <3>3 DEF TreeTypes
  <2>4. removed' \cap Tree!Groups(DOMAIN nodes') = {}
    <3> SUFFICES ASSUME NEW g \in removed', g \in Tree!Groups(DOMAIN nodes') PROVE  FALSE
      OBVIOUS
    <3>1. g \in Tree!Groups(DOMAIN nodes)
      BY <2>2, Parts
    <3>2. Tree!In(g, p)
      BY <1>5, <2>2, <3>1
    <3>3. DOMAIN nodes' \in SUBSET Seq(Nat)
      BY <1>0, <2>3 DEF TreeTypes
    <3> QED BY <1>0, <2>2, <3>2, <3>3, Clear
  <2>5. ASSUME ~torn PROVE  (Resident /\ Owned /\ Found)'
    <3>1. Resident'
      BY <1>5, <2>1, <2>2, <2>5 DEF Resident, Behind, Tree!Present
    <3>2. Owned'
      BY <1>5, <2>1, <2>2, <2>5 DEF Owned, Left
    <3>3. Found'
      BY <1>5, <2>1, <2>5 DEF Found
    <3> QED BY <3>1, <3>2, <3>3
  <2> QED BY <1>5, <2>3, <2>4, <2>5
<1>6. ASSUME Tree!UnassignSessions PROVE  TreeIInv'
  <2> USE DEF Tree!UnassignSessions
  <2>1. request \in [op : {"unassign", "forget"}, path : NodePaths] /\ request # Tree!Quiet /\ filing = {}
    BY <1>6 DEF TreeTypes, Tree!Quiet
  <2>2. request' \in [op : {"unassign", "forget"}, path : NodePaths] /\ request'.op = "forget" /\ request'.path = request.path
    BY <1>6, <2>1
  <2>3. TreeTypes'
    BY <1>6, <2>1, <2>2 DEF TreeTypes, Tree!Present
  <2>4. ASSUME ~torn PROVE  (Resident /\ Owned /\ Found)'
    <3>1. Resident'
      BY <1>0, <1>6, <2>4 DEF Resident, Behind, Tree!Present, TreeTypes
    <3>2. Owned'
      BY <1>6, <2>2, <2>4 DEF Owned, Left
    <3>3. Found'
      BY <1>6, <2>1, <2>2, <2>4 DEF Found
    <3> QED BY <3>1, <3>2, <3>3
  <2> QED BY <1>6, <2>3, <2>4
<1>7. ASSUME Tree!ForgetDirs PROVE  TreeIInv'
  <2> USE DEF Tree!ForgetDirs
  <2>1. request # Tree!Quiet /\ filing = {}
    BY <1>7 DEF TreeTypes, Tree!Quiet
  <2>2. DOMAIN dirs' = {q \in DOMAIN dirs : ~Tree!In(q, request.path)} /\ dirs' \in [DOMAIN dirs' -> Dirs]
    BY <1>7 DEF Tree!Without, Tree!Within, Tree!Restrict, TreeTypes
  <2>3. TreeTypes'
    BY <1>7, <2>1, <2>2 DEF TreeTypes, Tree!Quiet
  <2>4. ASSUME ~torn PROVE  (Resident /\ Owned /\ Found)'
    <3>1. Resident'
      BY <1>7, <2>4 DEF Resident, Behind, Tree!Present
    <3>2. Owned'
      BY <1>7, <2>2, <2>4 DEF Owned, Left, Tree!Quiet
    <3>3. Found'
      BY <1>7, <2>1, <2>4 DEF Found, Tree!Quiet
    <3> QED BY <3>1, <3>2, <3>3
  <2> QED BY <1>7, <2>3, <2>4
<1>8. ASSUME NEW p \in NodePaths, NEW q \in NodePaths, Tree!MoveNode(p, q) PROVE  TreeIInv'
  <2> USE DEF Tree!MoveNode, Tree!Request
  <2> DEFINE M == Tree!Moved(nodes, p, q)
  <2>1. filing = {} /\ request.op = "none"
    BY <1>8, Alone DEF Tree!Quiet
  <2>2. nodes \in [DOMAIN nodes -> Dirs \cup {<<>>}] /\ DOMAIN nodes \subseteq Nested
        /\ IsFiniteSet(DOMAIN nodes)
    BY DEF TreeTypes
  <2>3. /\ nodes' \in [DOMAIN nodes' -> Dirs \cup {<<>>}] /\ IsFiniteSet(DOMAIN nodes')
        /\ \A x \in Tree!Within(nodes, p) : Tree!Rebase(x, p, q) \in DOMAIN M
        /\ DOMAIN nodes' = DOMAIN M \cup (DOMAIN nodes \ Tree!Within(nodes, p))
        /\ DOMAIN nodes' \subseteq Nested
    <3>1. nodes' = Tree!Over(M, Tree!Without(nodes, Tree!Within(nodes, p)))
      BY <1>8
    <3> QED BY <2>2, <3>1, Moving
  <2>4. Tree!Within(nodes, p) = {x \in DOMAIN nodes : Tree!In(x, p)}
    BY DEF Tree!Within
  <2>5. TreeTypes'
    <3>1. requests' \in 0 .. MaxRequests
      BY <1>8 DEF TreeTypes, Rooted
    <3>2. request' \in [op : {"movedirs", "movesessions"}, path : NodePaths, to : NodePaths]
      BY <1>8
    <3>3. removed' \subseteq Nested
      BY <1>8, <2>4 DEF TreeTypes
    <3> QED BY <1>8, <2>1, <2>3, <3>1, <3>2, <3>3 DEF TreeTypes
  <2>6. removed' \cap Tree!Groups(DOMAIN nodes') = {}
    <3> SUFFICES ASSUME NEW g \in removed', g \in Tree!Groups(DOMAIN nodes') PROVE  FALSE
      OBVIOUS
    <3> DEFINE rest == DOMAIN nodes \ Tree!Within(nodes, p)
    <3>1. g \notin Tree!Groups(DOMAIN M) /\ g \in removed \cup Tree!Within(nodes, p)
      BY <1>8, Parts
    <3>2. g \in Tree!Groups(rest)
      BY <2>3, <3>1, Parts
    <3>3. g \in Tree!Groups(DOMAIN nodes)
      BY <3>2, Parts
    <3>4. Tree!In(g, p)
      BY <2>4, <3>1, <3>3
    <3>5. rest \in SUBSET Seq(Nat)
      BY <1>0, <2>2
    <3>6. PICK x \in rest : Tree!In(x, p)
      BY <1>0, <3>2, <3>4, <3>5, Clear
    <3> QED BY <2>4, <3>6
  <2>7. request'.op = "movedirs" /\ request'.path = p /\ request'.to = q
    BY <1>8
  <2>8. ASSUME ~torn PROVE  (Resident /\ Owned /\ Found)'
    <3>1. Resident'
      BY <1>8, <2>1, <2>4, <2>7, <2>8 DEF Resident, Behind, Tree!Present
    <3>2. Owned'
      <4>1. ASSUME NEW x \in DOMAIN dirs PROVE  x \in DOMAIN nodes
        BY <2>1, <2>8 DEF Owned, Left
      <4> QED BY <1>8, <2>3, <2>4, <2>7, <4>1 DEF Owned, Left
    <3>3. Found'
      BY <1>8, <2>1, <2>7, <2>8 DEF Found
    <3> QED BY <3>1, <3>2, <3>3
  <2> QED BY <1>8, <2>5, <2>6, <2>8
<1>9. ASSUME Tree!MoveDirs PROVE  TreeIInv'
  <2> USE DEF Tree!MoveDirs
  <2> DEFINE p == request.path
             q == request.to
             M == Tree!Moved(dirs, p, q)
  <2>1. /\ request \in [op : {"movedirs", "movesessions"}, path : NodePaths, to : NodePaths]
        /\ request # Tree!Quiet /\ filing = {} /\ p \in NodePaths /\ q \in NodePaths
    BY <1>9 DEF TreeTypes, Tree!Quiet
  <2>2. /\ dirs' \in [DOMAIN dirs' -> Dirs] /\ DOMAIN dirs' \subseteq Nested
        /\ ~torn' => /\ \A y \in DOMAIN M : \E x \in Tree!Within(dirs, p) : y = Tree!Rebase(x, p, q)
                     /\ DOMAIN dirs' = DOMAIN M \cup (DOMAIN dirs \ Tree!Within(dirs, p))
    <3>1. CASE UNCHANGED dirs /\ torn'
      BY <3>1 DEF TreeTypes
    <3>2. CASE dirs' = Tree!Over(M, Tree!Without(dirs, Tree!Within(dirs, p)))
      <4>1. dirs \in [DOMAIN dirs -> Dirs] /\ DOMAIN dirs \subseteq Nested
        BY DEF TreeTypes
      <4>2. dirs' \in [DOMAIN dirs' -> Dirs] /\ DOMAIN dirs' \subseteq Nested
        BY <2>1, <3>2, <4>1, Moving
      <4>3. /\ \A y \in DOMAIN M : \E x \in Tree!Within(dirs, p) : y = Tree!Rebase(x, p, q)
            /\ DOMAIN dirs' = DOMAIN M \cup (DOMAIN dirs \ Tree!Within(dirs, p))
        <5>1. p \in NodePaths /\ q \in NodePaths /\ dirs' = Tree!Over(Tree!Moved(dirs, p, q), Tree!Without(dirs, Tree!Within(dirs, p)))
          BY <2>1, <3>2
        <5> HIDE DEF p, q
        <5>2. \A y \in DOMAIN Tree!Moved(dirs, p, q) : \E x \in Tree!Within(dirs, p) : y = Tree!Rebase(x, p, q)
          BY DEF Tree!Moved
        <5>3. DOMAIN dirs' = DOMAIN Tree!Moved(dirs, p, q) \cup (DOMAIN dirs \ Tree!Within(dirs, p))
          BY <4>1, <5>1, Moving
        <5> QED BY <5>2, <5>3
      <4> QED BY <4>2, <4>3
    <3> QED BY <1>9, <3>1, <3>2
  <2>3. TreeTypes'
    <3>1. request' \in [op : {"none"}] \cup [op : {"movedirs", "movesessions"}, path : NodePaths, to : NodePaths]
      BY <1>9, <2>1 DEF Tree!Quiet
    <3> QED BY <1>9, <2>1, <2>2, <3>1 DEF TreeTypes
  <2>4. ASSUME ~torn' PROVE  (Resident /\ Owned /\ Found)'
    <3>1. ~torn /\ request' = [request EXCEPT !.op = "movesessions"]
      BY <1>9, <2>4
    <3>2. request'.op = "movesessions" /\ request'.path = p
      BY <2>1, <3>1
    <3>3. Resident'
      BY <1>9, <3>1, <3>2 DEF Resident, Behind, Tree!Present
    <3>4. Owned'
      <4>1. ASSUME NEW x \in DOMAIN dirs, Tree!In(x, p) PROVE  Tree!Rebase(x, p, q) \in DOMAIN nodes
        BY <1>9, <3>1, <4>1 DEF Owned, Left
      <4>2. ASSUME NEW x \in DOMAIN dirs, ~Tree!In(x, p) PROVE  x \in DOMAIN nodes
        BY <1>9, <3>1, <4>2 DEF Owned, Left
      <4>3. DOMAIN dirs' \subseteq DOMAIN nodes
        BY <2>2, <2>4, <4>1, <4>2 DEF Tree!Within
      <4> QED BY <1>9, <3>2, <4>3 DEF Owned
    <3>5. Found'
      BY <1>9, <2>1, <3>1, <3>2 DEF Found
    <3> QED BY <3>3, <3>4, <3>5
  <2> QED BY <1>9, <2>3, <2>4
<1>10. ASSUME Tree!MoveSessions PROVE  TreeIInv'
  <2> USE DEF Tree!MoveSessions
  <2>1. request # Tree!Quiet /\ filing = {}
    BY <1>10 DEF TreeTypes, Tree!Quiet
  <2>2. TreeTypes'
    BY <1>10, <2>1 DEF TreeTypes, Tree!Quiet, Tree!Present
  <2>3. ASSUME ~torn PROVE  (Resident /\ Owned /\ Found)'
    <3>1. Resident'
      BY <1>10, <2>3 DEF Resident, Behind, Tree!Present
    <3>2. Owned'
      BY <1>10, <2>3 DEF Owned, Left, Tree!Quiet
    <3>3. Found'
      BY <1>10, <2>1, <2>3 DEF Found, Tree!Quiet
    <3> QED BY <3>1, <3>2, <3>3
  <2> QED BY <1>10, <2>2, <2>3
<1>11. ASSUME NEW i \in Placed, NEW p \in NodePaths \cup {<<>>}, Tree!MoveSession(i, p) PROVE  TreeIInv'
  <2> USE DEF Tree!MoveSession
  <2>1. filing = {} /\ request.op = "none"
    BY <1>11, Alone DEF Tree!Quiet
  <2>2. p \notin removed' /\ removed' \subseteq removed
    BY <1>11
  <2>3. TreeTypes'
    BY <1>11, <2>1, <2>2 DEF TreeTypes, Rooted
  <2>4. removed' \cap Tree!Groups(DOMAIN nodes') = {}
    BY <1>11, <2>2
  <2>5. ASSUME ~torn PROVE  (Resident /\ Owned /\ Found)'
    <3>1. Resident'
      BY <1>11, <2>2, <2>5 DEF Resident, Behind, Tree!Present
    <3>2. Owned'
      BY <1>11, <2>5 DEF Owned, Left
    <3>3. Found'
      BY <1>11, <2>1, <2>2, <2>5 DEF Found
    <3> QED BY <3>1, <3>2, <3>3
  <2> QED BY <1>11, <2>3, <2>4, <2>5
<1>12. ASSUME NEW i \in Placed, Tree!File(i) PROVE  TreeIInv'
  <2> USE DEF Tree!File
  <2> DEFINE x == [id |-> i, path |-> Tree!Resolve(WorkDir[i])]
  <2>1. filing = {} /\ request = Tree!Quiet
    BY <1>12, Alone
  <2>2. filing' = {x} /\ x.path = Tree!Resolve(WorkDir[i]) /\ x = [id |-> i, path |-> x.path]
    BY <1>12, <2>1
  <2>3. TreeTypes'
    <3>1. \E j \in Placed, p \in {y.path : y \in filing'} : filing' = {[id |-> j, path |-> p]}
      <4> HIDE DEF x
      <4>1. x.path \in {y.path : y \in filing'}
        BY <2>2
      <4> QED BY <2>2, <4>1
    <3> QED BY <1>12, <2>1, <3>1 DEF TreeTypes
  <2>4. ASSUME ~torn PROVE  (Resident /\ Owned /\ Found)'
    <3>1. Resident'
      BY <1>12, <2>4 DEF Resident, Behind, Tree!Present
    <3>2. Owned'
      BY <1>12, <2>4 DEF Owned, Left
    <3>3. x.path \notin removed
      BY <2>1, <2>2, <2>4, Resolved
    <3>4. Found'
      <4> HIDE DEF x
      <4> QED BY <1>12, <2>2, <2>4, <3>3 DEF Found
    <3> QED BY <3>1, <3>2, <3>4
  <2> QED BY <1>12, <2>3, <2>4
<1>13. ASSUME NEW x \in filing, Tree!SaveFiled(x) PROVE  TreeIInv'
  <2> USE DEF Tree!SaveFiled
  <2>1. request = Tree!Quiet /\ filing = {x} /\ x.id \in Placed
    BY DEF TreeTypes
  <2>2. DOMAIN filed' = DOMAIN filed \cup {x.id} /\ filed' = [j \in DOMAIN filed \cup {x.id} |-> IF j = x.id THEN x.path ELSE filed[j]]
    BY <1>13 DEF Tree!Put
  <2>3. TreeTypes'
    BY <1>13, <2>1, <2>2 DEF TreeTypes
  <2>4. ASSUME ~torn PROVE  (Resident /\ Owned /\ Found)'
    <3>1. Resident'
      BY <1>13, <2>1, <2>2, <2>4 DEF Resident, Behind, Tree!Present, Found
    <3>2. Owned'
      BY <1>13, <2>4 DEF Owned, Left
    <3>3. Found'
      BY <1>13, <2>4 DEF Found
    <3> QED BY <3>1, <3>2, <3>3
  <2> QED BY <1>13, <2>3, <2>4
<1>14. ASSUME UNCHANGED Tree!treeVars PROVE  TreeIInv'
  BY <1>14 DEF Tree!treeVars, TreeTypes, Resident, Owned, Found, Behind, Left, Tree!Present
<1> QED BY <1>2, <1>3, <1>4, <1>5, <1>6, <1>7, <1>8, <1>9, <1>10, <1>11, <1>12, <1>13,
           <1>14 DEF Tree!TreeNext

-----------------------------------------------------------------------------
LEMMA InitTree == ASSUME Rooted PROVE  Tree!TreeInit => TreeIInv
<1> SUFFICES ASSUME Tree!TreeInit PROVE  TreeIInv
  OBVIOUS
<1> USE DEF Tree!TreeInit
<1>1. DOMAIN nodes = {} /\ DOMAIN dirs = {} /\ DOMAIN filed = {}
  OBVIOUS
<1>2. TreeTypes
  <2>1. nodes \in [DOMAIN nodes -> Dirs \cup {<<>>}] /\ dirs \in [DOMAIN dirs -> Dirs]
    OBVIOUS
  <2>2. IsFiniteSet(DOMAIN nodes)
    BY <1>1, FS_EmptySet
  <2>3. requests \in 0 .. MaxRequests
    BY DEF Rooted
  <2>4. request \in [op : {"none"}] /\ torn \in BOOLEAN
    BY DEF Tree!Quiet
  <2> QED BY <1>1, <2>1, <2>2, <2>3, <2>4 DEF TreeTypes
<1>3. Resident /\ Owned /\ Found
  BY <1>1 DEF Resident, Owned, Found, Tree!Quiet, Tree!Present
<1> QED BY <1>2, <1>3 DEF TreeIInv

LEMMA Sheltered == TreeIInv => Tree!TreeTypeOK /\ Tree!Housed
<1> SUFFICES ASSUME TreeIInv PROVE  Tree!TreeTypeOK /\ Tree!Housed
  OBVIOUS
<1>1. Tree!TreeTypeOK
  BY DEF TreeIInv, TreeTypes, Tree!TreeTypeOK
<1>2. Tree!Housed
  BY DEF TreeIInv, Tree!Housed, Resident, Owned, Found, Behind, Left, Tree!Present, Tree!Quiet
<1> QED BY <1>1, <1>2

\* Between requests no session is in a group that is gone, and no directory
\* that files a later one there.
THEOREM Shelters == Rooted => (Tree!TreeSpec => [](Tree!TreeTypeOK /\ Tree!Housed))
<1> SUFFICES ASSUME Rooted PROVE  Tree!TreeSpec => [](Tree!TreeTypeOK /\ Tree!Housed)
  OBVIOUS
<1>1. Tree!TreeInit => TreeIInv
  BY InitTree
<1>2. TreeIInv /\ [Tree!TreeNext]_(Tree!treeVars) => TreeIInv'
  BY StepTree
<1>3. TreeIInv => Tree!TreeTypeOK /\ Tree!Housed
  BY Sheltered
<1> QED BY <1>1, <1>2, <1>3, PTL DEF Tree!TreeSpec
-----------------------------------------------------------------------------
(***************************************************************************)
(* A row names what it waits for only while it is blocked.                 *)
(***************************************************************************)
Named(r) == r.block # "none" => r.state = "blocked"
Matching == Named(pill)

LEMMA FoldedNamed ==
  ASSUME Matching, NEW name
  PROVE  Named(State!Folded(name))
<1> DEFINE said == State!Said(name)
           followed == State!FollowRunner(said)
           kept == State!KeepIdle(name, followed)
<1>1. Named(said)
  BY DEF State!Said, Named
<1>2. \A s, b : /\ State!Shows(s, b).state = s /\ State!Shows(s, b).block = b
                /\ Named(State!Shows(s, "none")) /\ Named(State!Blocks(b))
  BY DEF State!Shows, State!Blocks, Named
<1> HIDE DEF said
<1>3. Named(followed)
  BY <1>1, <1>2 DEF State!FollowRunner
<1> HIDE DEF followed
<1>4. Named(kept)
  BY <1>2, <1>3 DEF State!KeepIdle
<1> HIDE DEF kept
<1>5. Named(State!KeepPermission(name, kept))
  BY <1>2, <1>4 DEF State!KeepPermission
<1> QED BY <1>5 DEF State!Folded, kept, followed, said

LEMMA StepMatching ==
  ASSUME Burst, StateIInv, Matching, [State!Next]_(State!vars)
  PROVE  Matching'
<1>1. ASSUME NEW next, Named(next), State!SetRow(next)
      PROVE  Matching'
  BY <1>1 DEF State!SetRow, Matching, Named
<1>2. \A s, b : Named(State!Shows(s, "none")) /\ Named(State!Blocks(b))
  BY DEF State!Shows, State!Blocks, Named
<1>3. CASE UNCHANGED pill
  BY <1>3 DEF Matching
<1>4. CASE State!StartCLI \/ State!Prompt \/ State!Finishes
  BY <1>1, <1>2, <1>3, <1>4 DEF State!StartCLI, State!Prompt, State!Finishes
<1>5. CASE State!Asks("question", "AskUserQuestion") \/ State!Asks("plan", "ExitPlanMode")
  BY <1>1, <1>2, <1>3, <1>5 DEF State!Asks
<1>6. CASE State!Responds
  BY <1>6 DEF State!Responds, Matching, Named
<1>7. CASE \E i \in 1 .. 2 : State!Deliver(i)
  <2>1. PICK i \in 1 .. 2 : State!SetRow(State!Folded(events[i].name))
    BY <1>7 DEF State!Deliver
  <2> QED BY <1>1, <2>1, FoldedNamed
<1>8. CASE State!MarkRead
  <2>1. pill'.state = pill.state /\ pill'.block = pill.block
    BY <1>8 DEF State!MarkRead, StateIInv, Shape, Typed
  <2> QED BY <2>1 DEF Matching, Named
<1>9. CASE \/ State!ToolStarts \/ State!ToolEnds \/ State!AsksPermission \/ State!Compacts
           \/ (\E type \in CliTypes : State!SubagentStarts(type))
           \/ (\E i \in 1 .. 2 : State!SubagentEnds(i))
           \/ State!AnswersInPane \/ State!TwoSecondsPass \/ UNCHANGED State!vars
  <2>1. UNCHANGED pill
    BY <1>9 DEF State!ToolStarts, State!ToolEnds, State!AsksPermission, State!Compacts,
       State!SubagentStarts, State!SubagentEnds, State!AnswersInPane, State!TwoSecondsPass,
       State!vars, State!Daemon
  <2> QED BY <1>3, <2>1
<1> QED BY <1>4, <1>5, <1>6, <1>7, <1>8, <1>9 DEF State!Next

LEMMA StateTypes ==
  ASSUME StateIInv, Ledger, Matching
  PROVE  State!TypeOK
<1>1. listed \in Seq([type : CliTypes, synthetic : BOOLEAN])
  BY DEF Ledger, Entries
<1> QED BY <1>1 DEF StateIInv, Shape, Typed, Matching, Named, Does, States, State!TypeOK

\* A row is blocked when it names what it waits for, and every listed subagent
\* is of a type there is.
THEOREM StateTyping ==
  ASSUME Burst
  PROVE  State!Spec => []State!TypeOK
<1> DEFINE I == StateIInv /\ Ledger /\ Matching
<1>1. State!Init => I
  <2>1. State!Init => Matching
    BY DEF State!Init, Matching, Named
  <2> QED BY <2>1, StateInitially, InitLedger DEF Burst
<1>2. I /\ [State!Next]_(State!vars) => I'
  BY StateInductive, StepLedger, StepMatching DEF Burst
<1>3. I => State!TypeOK
  BY StateTypes
<1> QED BY <1>1, <1>2, <1>3, PTL DEF State!Spec

=============================================================================
