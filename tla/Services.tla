------------------------------ MODULE Services ------------------------------
(***************************************************************************)
(* Nine components that do not share state.  Each behaviour is one of one  *)
(* of them: part says which, and the variables of the others stay 0.       *)
(* A property of the whole is one of each part.                            *)
(***************************************************************************)
EXTENDS RowParts, FiniteSets

CONSTANTS
    Daemons, Fleets, Requests, MaxSpawns, MaxHops, MaxTrouble, MaxLoad,  \* SpawnRouting
    Versions, Bins, Updates, Hosts, Overlap, MaxUpdates,                 \* FleetUpdate
    PerHour, Raw, Kept, Work, RAM, MaxClock, MaxSamples, Writers,        \* LoadMetrics
    Sessions, Paths, Dir, Cwd, Pane, Supervisors,                        \* Dashboard
    MaxQueue, MaxChanges, MaxKeys, MaxCmds

VARIABLES
    part,
    fleet, peers, report, up, load, spawn, spawned, trouble, skewed,
    release, source, cached, own, install, host, health, job, asked,
    clock, buckets, folding, history, samples,
    store, sub, chan, stream, tui, cmds, crashed, count, doubt

Routing == INSTANCE SpawnRouting WITH rows <- peers, health <- report
Update == INSTANCE FleetUpdate
Load == INSTANCE LoadMetrics
Board == INSTANCE Dashboard WITH Ids <- Sessions, None <- NoId, wire <- stream

(* Versions are numbered, the daemon is one of the binaries that ship, and *)
(* no two updates of one host overlap.                                     *)
Shipping ==
    /\ Versions \subseteq Nat \ {Update!None, Update!Torn}
    /\ Bins \in Seq(Update!BinSet) /\ Update!Daemon \in Update!BinSet
    /\ Update!Nobody \notin Hosts /\ Overlap = FALSE

(* Fleets of named hosts with any tags, weights, capabilities and          *)
(* repositories, whose daemons know every host or none, and clients talk   *)
(* to those that know all.  No capability is named like a tag.             *)
Sharing ==
    /\ MaxHops \in Nat /\ MaxLoad \in Nat
    /\ DOMAIN Daemons = 1 .. Len(Daemons) /\ Len(Daemons) \in Nat
    /\ \A f \in Fleets :
         /\ DOMAIN f.policy \subseteq {Daemons[i] : i \in DOMAIN Daemons} \ {Routing!None}
         /\ \A h \in DOMAIN f.policy :
              f.policy[h] \in [tags : {f.policy[h].tags}, weight : Nat,
                               caps : {f.policy[h].caps}, repo : BOOLEAN]
         /\ f.knows \in [DOMAIN f.policy -> SUBSET DOMAIN f.policy]
         /\ \A d \in DOMAIN f.policy : f.knows[d] = {} \/ f.knows[d] \cup {d} = DOMAIN f.policy
         /\ f.clients \subseteq DOMAIN f.policy
         /\ \A d \in f.clients : f.knows[d] \cup {d} = DOMAIN f.policy
    /\ \A r \in Requests :
         /\ r \in [caps : {r.caps}, agent : {r.agent}, node : BOOLEAN]
         /\ \A f \in Fleets : \A h \in DOMAIN f.policy :
              (r.caps \cup {r.agent}) \cap (f.policy[h].tags \cup {"repo"}) = {}

(* Numbered sessions, as few or as many as there are.                      *)
Numbering == Sessions \subseteq Nat /\ IsFiniteSet(Sessions) /\ NoId \notin Sessions /\ MaxQueue \in Nat

ASSUME ServicesAssumption == Shipping /\ Sharing /\ Numbering

-----------------------------------------------------------------------------
stateVars == <<agent, cli, events, working, pill, recent, listed, pushed, viewed, turns>>
blocksVars == <<family, art, doing, log, wire, row, blocker, asks>>
inspectorVars == <<program, does, screen, shown, checked>>
routingVars == <<fleet, peers, report, up, load, spawn, spawned, trouble, skewed>>
updateVars == <<release, source, cached, own, install, host, health, job, asked>>
treeVars == <<nodes, dirs, filed, request, filing, requests, removed, torn>>
loadVars == <<clock, buckets, folding, history, samples>>
boardVars == <<store, sub, chan, stream, tui, cmds, crashed, count, doubt>>
migrationVars == <<straddling, rows, proc, queue, paused, block, subs, turn, child, call, calls>>

vars == <<part, stateVars, blocksVars, inspectorVars, routingVars, updateVars,
          treeVars, loadVars, boardVars, migrationVars>>

StateOff == /\ agent = 0 /\ cli = 0 /\ events = 0 /\ working = 0 /\ pill = 0
            /\ recent = 0 /\ listed = 0 /\ pushed = 0 /\ viewed = 0 /\ turns = 0
BlocksOff == /\ family = 0 /\ art = 0 /\ doing = 0 /\ log = 0
             /\ wire = 0 /\ row = 0 /\ blocker = 0 /\ asks = 0
InspectorOff == program = 0 /\ does = 0 /\ screen = 0 /\ shown = 0 /\ checked = 0
RoutingOff == /\ fleet = 0 /\ peers = 0 /\ report = 0 /\ up = 0 /\ load = 0
              /\ spawn = 0 /\ spawned = 0 /\ trouble = 0 /\ skewed = 0
UpdateOff == /\ release = 0 /\ source = 0 /\ cached = 0 /\ own = 0 /\ install = 0
             /\ host = 0 /\ health = 0 /\ job = 0 /\ asked = 0
TreeOff == /\ nodes = 0 /\ dirs = 0 /\ filed = 0 /\ request = 0
           /\ filing = 0 /\ requests = 0 /\ removed = 0 /\ torn = 0
LoadOff == clock = 0 /\ buckets = 0 /\ folding = 0 /\ history = 0 /\ samples = 0
BoardOff == /\ store = 0 /\ sub = 0 /\ chan = 0 /\ stream = 0 /\ tui = 0
            /\ cmds = 0 /\ crashed = 0 /\ count = 0 /\ doubt = 0
MigrationOff == /\ straddling = 0 /\ rows = 0 /\ proc = 0 /\ queue = 0 /\ paused = 0
                /\ block = 0 /\ subs = 0 /\ turn = 0 /\ child = 0 /\ call = 0 /\ calls = 0

Init ==
    /\ part \in {"state", "blocks", "inspector", "routing", "update", "tree", "load",
                 "board", "migration"}
    /\ IF part = "state" THEN State!Init ELSE StateOff
    /\ IF part = "blocks" THEN Blocks!Init ELSE BlocksOff
    /\ IF part = "inspector" THEN Inspector!Init ELSE InspectorOff
    /\ IF part = "routing" THEN Routing!Init ELSE RoutingOff
    /\ IF part = "update" THEN Update!Init ELSE UpdateOff
    /\ IF part = "tree" THEN Tree!TreeInit ELSE TreeOff
    /\ IF part = "load" THEN Load!LoadInit ELSE LoadOff
    /\ IF part = "board" THEN Board!Init ELSE BoardOff
    /\ IF part = "migration" THEN Migration!Init ELSE MigrationOff

Keeps(p) == part = p /\ UNCHANGED part
StateStep == Keeps("state") /\ State!Next /\ UNCHANGED
    <<blocksVars, inspectorVars, routingVars, updateVars, treeVars, loadVars,
      boardVars, migrationVars>>
BlocksStep == Keeps("blocks") /\ Blocks!Next /\ UNCHANGED
    <<stateVars, inspectorVars, routingVars, updateVars, treeVars, loadVars,
      boardVars, migrationVars>>
InspectorStep == Keeps("inspector") /\ Inspector!Next /\ UNCHANGED
    <<stateVars, blocksVars, routingVars, updateVars, treeVars, loadVars,
      boardVars, migrationVars>>
RoutingStep == Keeps("routing") /\ Routing!Next /\ UNCHANGED
    <<stateVars, blocksVars, inspectorVars, updateVars, treeVars, loadVars,
      boardVars, migrationVars>>
UpdateStep == Keeps("update") /\ Update!Next /\ UNCHANGED
    <<stateVars, blocksVars, inspectorVars, routingVars, treeVars, loadVars,
      boardVars, migrationVars>>
TreeStep == Keeps("tree") /\ Tree!TreeNext /\ UNCHANGED
    <<stateVars, blocksVars, inspectorVars, routingVars, updateVars, loadVars,
      boardVars, migrationVars>>
LoadStep == Keeps("load") /\ Load!LoadNext /\ UNCHANGED
    <<stateVars, blocksVars, inspectorVars, routingVars, updateVars, treeVars,
      boardVars, migrationVars>>
BoardStep == Keeps("board") /\ Board!Next /\ UNCHANGED
    <<stateVars, blocksVars, inspectorVars, routingVars, updateVars, treeVars,
      loadVars, migrationVars>>
MigrationStep == Keeps("migration") /\ Migration!Next /\ UNCHANGED
    <<stateVars, blocksVars, inspectorVars, routingVars, updateVars, treeVars,
      loadVars, boardVars>>

Next ==
    \/ StateStep \/ BlocksStep \/ InspectorStep \/ RoutingStep
    \/ UpdateStep \/ TreeStep \/ LoadStep \/ BoardStep
    \/ MigrationStep

Spec == Init /\ [][Next]_vars
-----------------------------------------------------------------------------
(* The types of every part: in particular a row is blocked exactly when it *)
(* names what it waits for, and a subscriber's buffer keeps to its limit.  *)
TypesOK ==
    /\ part = "state" => State!TypeOK
    /\ part = "blocks" => Blocks!TypeOK
    /\ part = "inspector" => Inspector!TypeOK
    /\ part = "routing" => Routing!TypeOK
    /\ part = "update" => Update!TypeOK
    /\ part = "tree" => Tree!TreeTypeOK
    /\ part = "board" => Board!TypeOK
    /\ part = "migration" => Migration!TypeOK

(* A session's row says what its CLI and the subagents do, whichever way   *)
(* the daemon learns of it: from hooks that overtake each other, from the  *)
(* hooks of subagents, or from the text of the pane.  While a session's ID *)
(* is replaced, whoever holds which ID, a prompt, a turn and a listener    *)
(* are under one key each of the engine's maps, and, if nobody held the    *)
(* old ID, under that of the session's one row.  No row is filed in a      *)
(* group that is gone, unless the user filed it there by hand.  The        *)
(* dashboard shows one row per session, and every change of it.            *)
RowTrue ==
    /\ part = "state" => State!Shown /\ State!NoGhostSubagent
    /\ part = "blocks" => Blocks!BlockExact
    /\ part = "inspector" => Inspector!Agrees /\ Inspector!Steady
    /\ part = "migration" => Migration!UnderOneKey /\ Migration!MapsFollowRow
    /\ part = "tree" => Tree!Housed
    /\ part = "board" => Board!OneRow /\ Board!Caught

(* What the daemons of a fleet tell each other adds up: a spawn is passed  *)
(* on at most once, or twice if it names capabilities and a repository,    *)
(* and the hosts share the work by weight.                                 *)
FleetTrue == part = "routing" => Routing!FewHops /\ Routing!Balanced

(* Load reports hold every sample once, through buckets and hours.         *)
LoadTrue == part = "load" => Load!LoadTypeOK /\ Load!HoursKept

(* A binary is never partly written, and a host reported as updated is.    *)
(* No step of an update starts a half-installed daemon, or takes a host    *)
(* that says what it runs back to an older version.                        *)
SafeUpdates ==
    /\ [](part = "update" => Update!WholeBinaries)
    /\ [][part = "update" => Update!Upgrades]_vars

(* Deleting a group in the dashboard, on a view that is up to date, takes  *)
(* no other node and no session with it.                                   *)
DeleteSpares == [][part = "board" => Board!Spares]_vars
=============================================================================
