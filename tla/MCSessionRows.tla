--------------------------- MODULE MCSessionRows ---------------------------
(* Instances of SessionRows: writers that take turns, for each agent, calls *)
(* that overlap on one row, and any two writers on those of one terminal.   *)
EXTENDS SessionRows

CONSTANTS s1, s2, s3

Three == {s1, s2, s3}

Mode(cli, ids, p, r, n, w, l) ==
    [agent |-> cli, ids |-> ids, procs |-> p, resets |-> r, calls |-> n,
     writers |-> w, late |-> l]

Lifecycles == {Mode("claude-code", {s1, s2}, 2, 0, 2, 1, FALSE),
               Mode("claude-code", Three, 2, 1, 0, 1, TRUE),
               Mode("claude-code", {s1, s2}, 2, 1, 2, 1, FALSE),
               Mode("claude-code", {s1}, 2, 0, 2, 2, FALSE),
               Mode("antigravity", Three, 2, 1, 1, 1, FALSE),
               Mode("antigravity", {s1, s2}, 1, 0, 1, 2, TRUE)}
Reset == {Mode("claude-code", {s1, s2}, 1, 1, 1, 1, FALSE)}
Late == {Mode("antigravity", Three, 2, 0, 1, 1, TRUE)}
=============================================================================
