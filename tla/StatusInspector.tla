--------------------------- MODULE StatusInspector ---------------------------
(***************************************************************************)
(* What the liveness check and the 30 second scan make of a session in a   *)
(* terminal: they read the last lines of the pane, the last entries of the *)
(* transcript and the subagents on disk, and correct the row, whatever the *)
(* hooks have left there.  The agent CLIs are external: Live says what     *)
(* each draws, below any older text.                                       *)
(*                                                                         *)
(* The 25 lines that are read are shown as at most three, of which the     *)
(* last two are within the six at the bottom.                              *)
(***************************************************************************)
EXTENDS Naturals, Sequences, FiniteSets

CONSTANTS
    Agents,     \* subset of the five agents
    Quoted      \* what older text on the pane may look like

VARIABLES
    cli,        \* the agent
    does,       \* what it does
    screen,     \* what there is to read
    shown,      \* the session's row
    checked     \* nothing has changed since the last inspection

vars == <<cli, does, screen, shown, checked>>

Waits == {"permission", "question"}
Window == 3
NearLines(pane) == {i \in DOMAIN pane : i > Len(pane) - (Window - 1)}
LastOf(marks, pane, lines) ==
    LET hits == {i \in lines : pane[i] \in marks}
    IN  IF hits = {} THEN 0 ELSE CHOOSE i \in hits : \A k \in hits : k <= i
Last(mark, pane) == LastOf({mark}, pane, DOMAIN pane)
Near(mark, pane) == LastOf({mark}, pane, NearLines(pane))

(* Outcomes: keep the row, or a state and a block. *)
Keep == [state |-> "keep", block |-> "none"]
To(state) == [state |-> state, block |-> "none"]
BlockOn(kind) == [state |-> "blocked", block |-> kind]

(* A table of rules, the first that applies decides. *)
Rule(when, then) == [when |-> when, then |-> then]
Decide(rules) ==
    LET hits == {i \in DOMAIN rules : rules[i].when}
    IN  IF hits = {} THEN Keep
        ELSE rules[CHOOSE i \in hits : \A k \in hits : i <= k].then

(* isWithinBlockedGraceWindow: a block of less than 15 seconds is believed *)
(* against a prompt, unless the transcript shows that it was answered.     *)
Grace == shown.state = "blocked" /\ shown.fresh

-----------------------------------------------------------------------------
(***************************************************************************)
(* Claude Code.  Of several marks the lowest counts.                       *)
(***************************************************************************)
ClaudeAnswered == screen.entry \in {"end", "user"} /\ screen.after

(* The marks on the pane: where each is seen last, and which is lowest.    *)
ClaudeMarks ==
    LET pane == screen.pane
        permission == Last("permission", pane)
        question == Last("question", pane)
        prompt == Near("prompt", pane)
        spinner == Near("spinner", pane)
    IN  [active |-> LastOf({"prompt", "spinner"}, pane, DOMAIN pane),
         permission |-> permission, question |-> question,
         hasPrompt |-> prompt > spinner /\ prompt > permission /\ prompt > question,
         hasSpinner |-> spinner > prompt]

(* The pane asks. *)
ClaudeAsks ==
    << Rule(ClaudeMarks.permission > ClaudeMarks.active, BlockOn("permission")),
       Rule(ClaudeMarks.question > ClaudeMarks.active, BlockOn("question")) >>

(* The transcript asks, and the pane does not say otherwise. *)
ClaudeTranscript ==
    << Rule(screen.entry = "ask" /\ ~ClaudeMarks.hasPrompt /\ ~ClaudeMarks.hasSpinner,
            BlockOn("question")) >>

(* A subagent, a background command or the spinner. *)
ClaudeBusy ==
    << Rule(screen.subs # "none", To("working")),
       Rule(~ClaudeMarks.hasPrompt /\ screen.task, To("working")),
       Rule(ClaudeMarks.hasSpinner, To("working")) >>

(* Nothing of all that. *)
ClaudeAtRest ==
    LET held == Grace /\ ~ClaudeAnswered
    IN  << Rule(ClaudeMarks.hasPrompt /\ held, Keep),
           Rule(ClaudeMarks.hasPrompt, To("idle")),
           Rule(Last("no conversation", screen.pane) > 0, To("ended")),
           Rule(screen.entry = "end" /\ held, Keep),
           Rule(screen.entry = "end", To("idle")),
           Rule(shown.state = "blocked" /\ held, Keep),
           Rule(shown.state = "blocked", To("idle")) >>

InspectClaudeStatus == ClaudeAsks \o ClaudeTranscript \o ClaudeBusy \o ClaudeAtRest

(***************************************************************************)
(* Antigravity: scanAntigravityPermissionWindow on the lines from..to.     *)
(***************************************************************************)
Request(pane, from, strict) ==
    LET lines == {i \in DOMAIN pane : i >= from}
        header == {i \in lines : pane[i] = "header"}
        start == IF header = {} THEN from ELSE CHOOSE i \in header : \A k \in header : i <= k
        below == {pane[i] : i \in {k \in lines : k >= start}}
        offered == "choice" \in below \/ {"hint", "option"} \subseteq below
    IN  IF strict THEN header # {} /\ offered ELSE header # {} \/ offered

AsksForApproval ==
    LET pane == screen.pane
        prompt == Near("prompt", pane)
        banner == \E i \in DOMAIN pane :
                    \/ pane[i] = "alert"
                    \/ pane[i] = "mention" /\ (i > prompt \/ screen.subs # "none")
    IN  \/ Request(pane, prompt + 1, FALSE)
        \/ prompt > 0 /\ Request(pane, 1, TRUE)
        \/ banner
        \/ prompt = 0 /\ Last("confirm", pane) > 0

AntigravityMarks ==
    LET prompt == Near("prompt", screen.pane) > 0
    IN  [hasPrompt |-> prompt, hasSpinner |-> ~prompt /\ Near("spinner", screen.pane) > 0]
AntigravityHeld == Grace /\ ~screen.answered

(* The pane, then the transcript, then those of the subagents: one asks. *)
AntigravityAsks == << Rule(AsksForApproval, BlockOn("permission")) >>
AntigravityTranscript ==
    << Rule(screen.entry = "ask", BlockOn("question")),
       Rule(screen.entry = "askPermission", BlockOn("permission")) >>
AntigravitySubagents ==
    << Rule(screen.subs = "asking", BlockOn("question")),
       Rule(screen.subs # "none" /\ AntigravityHeld, Keep),
       Rule(screen.subs # "none", To("working")) >>

(* The last step of the transcript: a user's input, which a prompt on the  *)
(* pane refutes once the file is older than 15 seconds; a planner response *)
(* that ends the turn; or what follows an answer.                          *)
AntigravityLastStep ==
    LET entry == screen.entry
        mark == AntigravityMarks
        thinks == entry = "user" /\ (~mark.hasPrompt \/ screen.young)
    IN  << Rule(thinks /\ AntigravityHeld, Keep),
           Rule(thinks, To("working")),
           Rule(entry = "end" /\ AntigravityHeld /\ ~screen.after, Keep),
           Rule(entry = "end" /\ ~mark.hasSpinner, To("idle")),
           Rule(shown.state = "blocked" /\ screen.answered /\ entry = "tool", To("working")) >>

(* The spinner or the prompt on the pane, or a block that nothing supports. *)
AntigravityAtRest ==
    LET mark == AntigravityMarks
    IN  << Rule(mark.hasSpinner /\ Grace /\ Last("thinking", screen.pane) = 0, Keep),
           Rule(mark.hasSpinner, To("working")),
           Rule(mark.hasPrompt /\ AntigravityHeld, Keep),
           Rule(mark.hasPrompt, To("idle")),
           Rule(shown.state = "blocked" /\ AntigravityHeld /\ ~mark.hasSpinner, Keep),
           Rule(shown.state = "blocked", To("idle")) >>

InspectAntigravityStatus ==
    AntigravityAsks \o AntigravityTranscript \o AntigravitySubagents
        \o AntigravityLastStep \o AntigravityAtRest

(* Codex, Grok, OpenCode: phrases anywhere on the pane, and a block whose  *)
(* phrase is gone ends.                                                    *)
PlainRules ==
    << Rule(Last("permission", screen.pane) > 0, BlockOn("permission")),
       Rule(Last("question", screen.pane) > 0, BlockOn("question")),
       Rule(shown.state = "blocked", To("idle")) >>

Verdict ==
    IF ~screen.alive THEN To("ended")
    ELSE Decide(CASE cli = "claude-code" -> InspectClaudeStatus
                  [] cli = "antigravity" -> InspectAntigravityStatus
                  [] OTHER               -> PlainRules)

Corrected ==
    IF Verdict = Keep \/ [state |-> shown.state, block |-> shown.block] = Verdict THEN shown
    ELSE [state |-> Verdict.state, block |-> Verdict.block, fresh |-> Verdict.state = "blocked"]

-----------------------------------------------------------------------------
(***************************************************************************)
(* What the CLIs draw and write.                                           *)
(***************************************************************************)
Live(agent, doing) ==
    CASE doing = "gone" -> {<<"text">>}
      [] doing = "thinking" -> {<<"spinner">>, <<"spinner", "text">>}
      [] doing = "rest" -> {<<"prompt">>, <<"prompt", "text">>}
      [] doing = "question" /\ agent = "antigravity" -> {<<"text">>}
      [] doing = "permission" /\ agent = "antigravity" ->
           {<<"header", "choice">>, <<"option", "hint">>, <<"confirm">>}
      [] doing = "subagent asks" -> {<<"alert", "prompt">>, <<"mention", "prompt">>}
      [] doing = "subagent runs" -> {<<"spinner">>, <<"prompt">>}
      [] OTHER -> {<<doing>>, <<doing, "text">>}

Entries(agent, doing) ==
    CASE doing = "thinking" -> {"user", "tool"}
      [] doing = "question" -> IF agent \in {"claude-code", "antigravity"} THEN {"ask"} ELSE {"tool"}
      [] doing = "rest" -> {"end"}
      [] OTHER -> {"tool"}

Screens(agent, doing) ==
    {[pane |-> old \o live, entry |-> entry, after |-> after, answered |-> answered,
      task |-> FALSE, alive |-> doing # "gone", young |-> doing = "thinking",
      subs |-> IF doing \in {"subagent asks", "subagent runs"} THEN "running" ELSE "none"] :
        old \in {<<>>} \cup {<<q>> : q \in Quoted[agent]}, live \in Live(agent, doing),
        entry \in Entries(agent, doing), after \in BOOLEAN,
        answered \in IF doing \in {"thinking", "rest"} THEN BOOLEAN ELSE {FALSE}}

Doings(agent) == {"thinking", "rest", "gone"} \cup Waits \cup
    (IF agent \in {"claude-code", "antigravity"} THEN {"subagent runs"} ELSE {}) \cup
    (IF agent = "antigravity" THEN {"subagent asks"} ELSE {})

Expected(doing) ==
    CASE doing \in {"thinking", "subagent runs"} -> To("working")
      [] doing = "rest" -> To("idle")
      [] doing = "gone" -> To("ended")
      [] doing = "subagent asks" -> BlockOn("permission")
      [] OTHER -> BlockOn(doing)

Init ==
    /\ cli \in Agents /\ does = "rest"
    /\ screen = [pane |-> <<"prompt">>, entry |-> "end", after |-> TRUE, answered |-> FALSE,
                 task |-> FALSE, alive |-> TRUE, young |-> TRUE, subs |-> "none"]
    /\ shown = [state |-> "idle", block |-> "none", fresh |-> FALSE]
    /\ checked = FALSE

(* The CLI goes on and draws; its hook, when it has one and it is not      *)
(* lost, has put the row right.                                            *)
Acts(doing) ==
    /\ does # "gone" /\ doing \in Doings(cli) \ {does}
    /\ does' = doing
    /\ screen' \in Screens(cli, doing)
    /\ shown' \in {shown} \cup
         {[state |-> e.state, block |-> e.block, fresh |-> e.state = "blocked"] :
            e \in {Expected(doing)} \ {To("ended")}}
    /\ checked' = FALSE /\ UNCHANGED cli

(* Fifteen seconds go by. *)
Ages ==
    /\ shown.fresh /\ shown' = [shown EXCEPT !.fresh = FALSE]
    /\ checked' = FALSE /\ UNCHANGED <<cli, does, screen>>

Inspect ==
    /\ shown.state # "ended" /\ ~checked
    /\ shown' = Corrected
    /\ checked' = TRUE /\ UNCHANGED <<cli, does, screen>>

Next == (\E doing \in Doings(cli) : Acts(doing)) \/ Ages \/ Inspect

Spec == Init /\ [][Next]_vars
-----------------------------------------------------------------------------
TypeOK ==
    /\ shown.state \in {"working", "blocked", "idle", "ended"}
    /\ shown.block \in Waits \cup {"none"}
    /\ (shown.block # "none") = (shown.state = "blocked")

(* An inspection of a session whose block, if any, is older than the grace *)
(* of 15 seconds leaves the truth in the row, whatever was there, and      *)
(* whatever older text is still on the pane.  The plain rules only know    *)
(* blocks.                                                                 *)
Agrees ==
    checked /\ ~shown.fresh =>
        IF cli \in {"claude-code", "antigravity"} \/ does = "gone"
        THEN shown.state = Expected(does).state
        ELSE (shown.state = "blocked") = (does \in Waits)

(* A second inspection of the same screen changes nothing: the two loops   *)
(* that inspect do not make a row flicker.                                 *)
Steady == checked /\ shown.state # "ended" => Corrected = shown
=============================================================================
