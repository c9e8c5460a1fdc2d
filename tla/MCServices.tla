----------------------------- MODULE MCServices -----------------------------
(* Instances of the nine components of Services.                           *)
EXTENDS Services, TLC

CONSTANTS p1, p2, p3, c1, c2   \* interchangeable prompts and conversations

(* Every agent whose Stop is no end (Codex: README), in both engines; the  *)
(* CLI's hooks that run at once may swap.                                  *)
MCInstances == {"claude-code", "antigravity", "grok", "opencode"} \X {"pane", "headless"}
MCRaces == {<<"PostToolUse", "Stop">>, <<"PreToolUse", "PermissionRequest">>}

(* Two registered subagents, or one with any artifacts a live one has.     *)
Artifacts == [annotated : BOOLEAN, record : {"none", "RUNNING"}, internal : BOOLEAN,
              head : {"none", "fromParent", "marker", "user"},
              message : {"none", "dispatched", "namesParent"}]
Registered == [annotated |-> FALSE, record |-> "RUNNING", internal |-> FALSE,
               head |-> "fromParent", message |-> "none"]
MCFamilies == {[background |-> FALSE, subs |-> {"a", "b"}, arts |-> {Registered}],
               [background |-> FALSE, subs |-> {"a"}, arts |-> Artifacts]}

(* What older text a pane of each agent may hold without being taken for   *)
(* a request (README).                                                     *)
MCQuoted ==
    [a \in Programs |->
        CASE a = "claude-code" -> {"prompt", "spinner", "permission", "question", "text"}
          [] a = "antigravity" -> {"text", "option", "spinner"}
          [] OTHER             -> {"prompt", "spinner", "text"}]

(* A hub and two hosts it knows, and two hosts that know each other, with  *)
(* weights alone, with tags and capabilities, or with a capability on the  *)
(* lighter host alone; requests name capabilities, a repository or both.   *)
Policy(tags, weight, caps, repo) == [tags |-> tags, weight |-> weight, caps |-> caps, repo |-> repo]
Weighted == [h |-> Policy({"ephemeral"}, 0, {"c", "x"}, TRUE),
             m |-> Policy({"24/7"}, 3, {"c"}, TRUE),
             n |-> Policy({"24/7"}, 1, {"c"}, TRUE)]
Mixed == [h |-> Policy({"24/7"}, 1, {"c"}, FALSE),
          m |-> Policy({"24/7", "drain"}, 1, {"c", "x"}, TRUE),
          n |-> Policy({"24/7", "ephemeral"}, 2, {"c", "x"}, TRUE)]
Split == [m |-> Weighted.m, n |-> Policy({"24/7"}, 1, {"c", "x"}, TRUE)]
Star(p) == [policy |-> p, clients |-> {"h"},
            knows |-> [d \in {"h", "m", "n"} |-> IF d = "h" THEN {"m", "n"} ELSE {}]]
Pair(p) == [policy |-> [d \in {"m", "n"} |-> p[d]], clients |-> {"m", "n"},
            knows |-> [d \in {"m", "n"} |-> {"m", "n"} \ {d}]]
MCFleets == {Star(Weighted), Star(Mixed), Pair(Weighted), Pair(Mixed), Pair(Split)}
Request(caps, node) == [caps |-> caps, agent |-> "c", node |-> node]
MCRequests == {Request({}, TRUE), Request({"x"}, FALSE), Request({"x"}, TRUE), Request({}, FALSE)}
MCDaemons == <<"h", "m", "n">>

MCBins == <<"ackbard", "ackbar">>

(* A project in a group, one beside it, and a directory in another; one    *)
(* writer at a time.                                                       *)
MCNodePaths == {<<1>>, <<1, 2>>, <<3>>}
MCDirs == {<<9, 1>>, <<9, 1, 2>>}
MCWorkDir == [s |-> <<9, 1, 2, 8>>, t |-> <<7, 1>>]

(* Two sessions of one terminal, and one without in a project's directory. *)
MCPaths == {<<1>>, <<1, 2>>}
MCDir == [p \in MCPaths |-> IF p = <<1>> THEN <<>> ELSE <<9, 1, 2>>]
MCCwd == <<<<9, 1, 2>>, <<7, 1>>, <<7, 1>>>>
MCPane == <<NoId, "pane", "pane">>

(* A session that gets its ID while prompts, one more call and a listener  *)
(* hold the placeholder, or while nobody does.                             *)
Symmetry == Permutations(Prompts) \cup Permutations(Conversations)
=============================================================================
