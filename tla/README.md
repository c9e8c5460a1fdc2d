# A TLA+ verification of ackbar

ackbar is a control plane for AI coding agents.  A daemon, `ackbard`, runs on
every machine; it starts and watches agent CLIs (Claude Code, Antigravity and
others) in tmux or as headless child processes, receives their hook events,
keeps sessions, tasks and projects in SQLite, replicates that state to its peer
daemons, and serves a JSON/SSE API to the terminal dashboard, the web and the mobile
clients, directly or through a relay.  This directory holds TLA+ models of the parts
whose correctness depends on the order in which things happen, the
TLC configurations that check them on small instances, and TLAPS proofs of what
matters most for every size.

## 1. Inventory

| Part | Source (`src/internal/...`) | State it keeps | Operations | What is hard |
|---|---|---|---|---|
| Headless engine | `daemon/headless.go`, `server_chat.go`, parts of `server_sessions.go` | `processes`, `queues`, `paused`, `interactiveBlocks`, `respondedWhileStopping`, `subs` (memory, one mutex), the session row | prompt, spawn, handover, respond, cancel, queue delete/clear/resume, `RunTurn` and its goroutine, stream parsing, ID migration | every handler, dispatcher, scanner and turn goroutine works on the same maps and row, in many critical sections |
| Hook intake | `daemon/server_hooks.go`, `agent_*.go` | per-session ticket chain (`hookLocks`), session rows, subagent table | reserve, lock, process, adopt, rotate, state transition | order of events of one session, nested locks, late events, `/clear` rotation |
| Status rules | `provider/*_hook.go`, `provider/antigravity_subagent.go`, `daemon/status_inspector.go` | `activeSubagents`, `blockedBySubagent`, the row | what a hook, a pane or a transcript says of the state | evidence is late, overtaken, or left over from earlier text |
| Scanners | `daemon/session_scanner.go`, `server.go` | none of their own; `livenessRunning`, `lastLivenessAt` | `verifyHeadlessLiveness`, `verifySessionLiveness`, `scanTmuxPanes`, `scanObservedSessions`, `reconcileAntigravityTmuxSession` | they act on snapshots that handlers change meanwhile |
| Sessions API | `daemon/server_sessions.go`, `session.go`, `server_subagents.go` | session rows | spawn, respond, adopt, rename, archive, restore, delete, take-wheel, switch-headless | read-modify-write of whole rows |
| Store | `daemon/db.go` | SQLite tables | `Save*`, `Get*`, `Delete*`, migrations, `ApplySyncState` | COALESCE and last-write-wins rules inside SQL |
| Peer sync | `daemon/server_sync.go`, `db.go` | watermark per peer, `updated_at` columns, soft deletes | push, pull, apply | wall clocks, concurrent edits, deletions, lost pushes |
| Tasks and workflows | `daemon/telemetry_tasks.go`, `server_tasks.go`, `workflow_watcher.go`, `mcp/` | tasks, deliverables, workers, workflow nodes | classify, ingest telemetry, advance, assign, unlock workstreams, comment | events of workers arrive late, duplicated and out of order |
| Projects | `daemon/server_projects.go`, `project.go`, `db.go` | `tree_nodes`, `node_host_paths`, `sessions.node_path` | save, create, delete, move a node; file a session | three tables written one after the other without a transaction |
| Hosts and routing | `daemon/server_hosts.go`, `host_capabilities.go`, `router/jev.go` | host records, health of the last poll, load history | poll, register, choose a host, forward a spawn, sample, roll up | stale health; the other daemon decides again |
| Version and update | `version/version.go`, `updater.go`, `daemon/server_hosts.go` | installed binaries, cached release, jobs | check, replace, upload, rename, restart, verify | every step may fail half way |
| Event broadcast | `daemon/server.go` | SSE subscribers with a buffer | register, list, send, drop | bounded channels drop events; listing and events overlap |
| Dashboard | `client/tui.go`, `api.go` | copies of sessions and nodes, cursor, view, dialog | events, fetches, keys, commands | its copies are old when a key acts on them |
| Relay | `relay/server.go`, `client.go`, `protocol.go` | tunnel per daemon, stream per request | connect, reconnect, proxy, close, time out | one read loop for all streams; either side may go away |
| PTY bridge | `daemon/pty.go`, `tmux/` | clients and sizes of a tmux window | attach, resize, detach | shared window size, slow readers |
| Transcripts | `daemon/transcript.go` | none | parse | formats |
| Provisioning, skills, standup | `daemon/provisioner.go`, `skills_repo.go`, `standup.go` | files, git | shell out | I/O |
| Speech, uploads, push, files, accounts | `daemon/server_speech.go`, `micserve_bridge.go`, `upload.go`, `ntfy.go`, `files.go`, `server_accounts.go` | files, subscriptions | I/O | I/O |
| Web and mobile clients, commands | `web/js`, `mobile/`, `cmd/` | UI state | render, call the API | not part of the daemon's protocol |

How they interact: handlers and hooks call the headless engine and the store
directly; hooks and the scanners write the same rows as the engine; the engine
calls back (`onTurnComplete`) into task telemetry; every row change is broadcast
to SSE subscribers and, for replicated tables, pushed to peers; a client reaches a
daemon behind NAT through the relay, which carries the same HTTP and SSE traffic.

What makes each part correct:

- *Headless engine*: at most one child per session; `IsRunning` tells the truth;
  a prompt starts at most one turn, in FIFO order; an open question is never lost;
  a turn that ends leaves its outcome in the row; a waiting prompt is dispatched.
- *Hook intake*: the events of one session are applied in the order in which they
  were received, one at a time; no circular wait; one managed session per agent
  conversation after a rotation.
- *Status rules*: a row says what its CLI does; a question is shown as long as it
  waits, pushed and unread, and no longer; a subagent's question is its parent's.
- *Scanners*: they repair what crashed and never overwrite a newer truth.
- *Sessions API*: one live row per terminal; a dead terminal is noticed; the terminal of a
  deleted session stops.
- *Peer sync*: peers that exchange everything agree; a deletion is not undone; a
  newer edit is never replaced by an older one; no edit is skipped for ever.
- *Tasks*: the state of a workflow node never moves backwards on a late event; a
  completed task is not reopened by a stale worker; a workstream runs in sequence.
- *Projects*: no session and no directory is left in a node that is gone.
- *Hosts*: daemons that know the fleet agree on the host of a session; work is shared
  by weight; the load history counts every sample once.
- *Updates*: no daemon starts from a half-installed update; nobody goes back to an
  older version unasked; "updated" is true.
- *Dashboard*: what it shows is what the daemon has, once it has heard everything;
  what it deletes is what it showed.
- *Relay*: a response goes to the request that caused it; a request ends; one slow
  request does not stop the others.

The lines at which these behaviours are at risk are the "hazards" of
`PROJECT.json`.

## 2. Plan

Ordered by how much of the daemon depends on the part, and by how hard its
behaviour is to test.

| Step | Module | Component | State |
|---|---|---|---|
| 1 | `HeadlessTurns`, `PromptLedger` | headless engine, liveness scanner of headless sessions | built, proved |
| 2 | `HookQueue`, `FifoLock` | order and exclusion of hook events | built, all safety proved |
| 3 | `RelayTunnel` | tunnels and proxied requests | built, all safety proved |
| 4 | `SyncLWW` | replication of tasks and project nodes | built, partly proved |
| 5 | `TaskWorkflow` | life of a task on the board | built, all safety proved |
| 6 | `SessionRows` | which row an event, a call or a scan means; adoption, rotation, deletion; terminals | built, all safety proved |
| 7 | `SessionState`, `SubagentBlocks`, `StatusInspector` | the state a row shows: from hooks, from the hooks of subagents, from the pane. They stand inside `HookQueue`'s lock. | built, all safety proved |
| 8 | `SpawnRouting`, `LoadMetrics`, `FleetUpdate` | the fleet: choice of a host, load history, updates | built, all safety but the load history's proved |
| 9 | `TreePaths`, `NodeTree` | the project tree | built, all safety proved |
| 10 | `Dashboard` | event broadcast and terminal dashboard, composed | built, all safety proved |
| 11 | `HeadlessMigration` | the replacement of a session's ID by the one the CLI reports (`headless.go:1078`), over the maps of `HeadlessTurns` | built, all safety proved |
| 12 | `SyncLWW`, extended | workstreams with stamps of their own, a third host and the watermark, projects as one entity | left |

Still to be proved: an abstract register that `SyncLWW` implements.  Of the safety properties
that the runs check, two are not proved, `LoadTrue` and `TaskNeverOlder` (section 6 says why).

## 3. The modules

A step of a module is as large as the code makes it: one critical section of a
mutex, one database statement, one message, or one event of a child process or
timer. Handlers that hold no lock are split at every point at which another
goroutine can run, unless the text below says otherwise.

### HeadlessTurns and PromptLedger

One session of the headless engine. The maps of `HeadlessRunner` become variables
of that session: `proc` (`processes`), `queue`, `paused`, `block`
(`interactiveBlocks`), `responded` (`respondedWhileStopping`), and `db` is the
session's row. `pc[p]` says where the goroutine that works on prompt `p` is, from
the handler that receives it to the end of its turn; `child[p]` is the process
that `RunTurn` starts for it. `Reap` is `cmd.Wait`, `Settle` the critical section
after it, `TakeBlock`, `PauseOnError` and `SaveOutcome` the three ways in which a
turn can end, `CheckPaused` and `DispatchNext` the automatic dispatch of the next
prompt, and `Unwind` the deferred function. `DrainKill`, `DrainEnd`, `AnswerUnpause`
and `AnswerSave` are the steps of `ClearInteractiveBlockAndWait` and its handler, the
`Cancel...` actions the cancel handler, `ScanRead`, `ScanCheck` and `ScanSave`
`verifyHeadlessLiveness`, `Restart` a stop and start of the daemon. The child is
external: it ends when it likes, and later when it is signalled.

`Unhurried` is a hypothesis about schedules: no `RunTurn` begins while the
goroutine of an earlier turn stands between `cmd.Wait` and its return. The
code does not enforce it; the runs with `Unhurried = FALSE` show what survives
without it and `HeadlessAuthority` shows what does not.

`PromptLedger` is what a client may rely on: a prompt waits in a FIFO line or is
taken at once, leaves the line from its head unless the user removes it, and
starts at most one turn. `LedgerSpec` is the refinement, under the mapping
`Fate`.

### HeadlessMigration

The same engine over the keys of its maps: a placeholder and the IDs of conversations.
A session of Antigravity is spawned under a placeholder, and `MigrateRow`, `MigrateMaps`
and `MigrateSave` are the three steps in which `handleAntigravityInit` gives it the ID
of the conversation that its CLI reports. `call` is an HTTP handler with the ID that it
resolved, `turn[p].orig` and `turn[p].id` are `origSessionID` and `sess.ID` of a turn's
goroutine. `Ask`, `AskPause` and `AskStop` are `triggerInteractiveBlock`, which uses the
one ID here and the other there. Answers and the windows inside the end of a turn are
left to `HeadlessTurns`. `straddling` is a hypothesis about schedules: when it is
FALSE, the ID is not replaced while a handler, a launcher or another turn holds it.

### HookQueue and FifoLock

`handleHook` reserves a ticket of the conversation (`Reserve`), and a goroutine per event
waits for the ticket before it, reads the row, changes its copy and saves it. An event of a
subagent takes a ticket of its parent's queue while it holds its own. The first event of a
conversation may take over the row of another one (`TakeOver`): an adoption deletes that row,
a rotation archives and saves it, both without a ticket of the conversation whose row it is
(`other`, `cleared`). A ticket is a channel: `prev` names the one it waits for, `closed` the
ones that were released. A row is the sequence of events whose change it shows, so that a lost
update is visible. `arrived` and `gone` are history variables, used by the properties only.
`FifoLock` is the lock that each conversation's tickets promise to be, and `LockSpec` says
that the chain of channels implements it. Conversations form a forest (`NestingAssumption`): a
subagent is started by its parent.

### RelayTunnel

The relay's `Server.daemons` is `registered`, a `daemonSession` is a number in
`Tunnels` with its `streams`, websocket (`link`), the goroutine that reads it
(`serving`) and the message this goroutine has looked up (`inHand`); the queues
`toDaemon` and `toRelay` are the messages on the wire. A request has the steps of
`handleProxy` (`Admit`, `List`, `Forward`, `Answer`, `Timeout`, `StreamEnds`, `Abandon`,
`Return`), the channel `respChan` of capacity 1, and `handler`, the daemon's goroutine.
Sends to a websocket that is down are lost. `ServeTerminal` is what becomes of a terminal
that a client opens over the relay: the daemon serves it to a recorder that cannot be
hijacked (`relay/client.go:283`), and dies of the panic, with every handler and its tunnel. The
service manager starts it again (`Restart=always`, `docs/daemon.md:188`), which is a `Dial` of the
next tunnel. Plain requests, event streams and
terminals are constants of their own, since the code treats each in another way.

### SyncLWW

A version of a row is its time stamp and whether it is live. `Begin` is a handler
that has read its row and taken its stamp, `Commit` its write and its pushes;
`Compare` and `Write` are the two statements of `ApplySyncState`, for a push or for the
answer to a pull; `Finish` saves the watermark (`since`). Deleting a node buries
all nodes below it. A push goes to any subset of the peers: the others are
those that did not get it. `Racing` says whether handlers of one daemon overlap
between their two statements. Stamps come from one clock: two edits with the same
stamp, and clocks that differ between hosts, are not modelled.

### TaskWorkflow

One task of kind `code`. `task` is the row with its workers and workstreams as
`GetTaskByID` returns it, `jobs` are the copies that handlers have read and
changed but not written yet. Each handler is one action that ends in `Handle`: it
writes at once, or, when its kind is in `Overtaken`, leaves a job that `Commit` writes
later over whatever is there then (`UpdateTask` writes all columns). The operators
between are the code's functions: `Classify` (`ClassifyWorkflowNodeState`),
`Guarded` (the first two monotonic guards), `Reach` (with the third), `Unlock`
(`unlockSequentialWorkstreams`), `InsertWorker`, `CloseAll`
(`completeAndCloseTaskSession`). `Hook` is `SyncSessionTaskWorker`, `Telemetry` is
`IngestBoundTaskTelemetry`, `Report` and `SetStatus`, `SetBlocker`, `SetPR` the
alternatives of `POST /v1/tasks`, `WorkflowRun` a workflow file, `Reconcile` and `MergePR`
what happens when a pull request is merged. GitHub is external: it may fail to
answer (`Told`), and anybody may merge there (`MergeOnGitHub`).

Left out: design tasks, notes, deliverables and proposals, a pull request closed
without a merge, a client that sends a state for the pull request, and the
matching of a workflow file to a task.

### SessionRows

The sessions table of one daemon, the tmux server, and everybody who writes rows without a
common lock. `rows` is the table (a row's state is collapsed to unknown, live and ended),
`term` the terminals by name with the process and the conversation behind each, `convs` what
conversations left on disk, `deleted` the table `deleted_sessions`. A writer is a record with
the copy it has loaded: `hook` for each conversation (`HookRead`, `HookSave`), `call` for the
API (`SpawnOpen`, `CallRead`, then one of the alternatives of `CallDo`), `parked` for a second
call that overlaps with it (`Switch` says which of the two goes on), `scan` (`ScanStart`, then
`ScanGone`, `ScanDeadShell`, `ScanPane` and `ScanDisk` in the order of the pass) and `probe`
for `verifySessionLiveness`. `Save` is the upsert of `SaveSession`, for the columns that
decide who owns a terminal, which it writes from the copy; those that it merges with the row
it has read before (`db.go:378`), the supervisor mark among them, are left out. `Drop` is
`DeleteSession`, `Resolve` `resolveOrAdoptHookSession`. The CLI is external
(`OpenConversation`, `CliExits`, `Post`). An instance (`Modes`) says which CLI it is, how many
writers are at work at once and whether events may come after their CLI has gone.

### SessionState, SubagentBlocks, StatusInspector

Three sources of one answer: what a session's row says.

`SessionState` follows hook events: `doing` is what the CLI does and `wire` the events on
the way, `Deliver` is the part of `processParsedHookEvent` that makes the state, the
block, the unread mark, the push and the list of subagents (`Folded`, `Tracked`). The
hook processes of two events of one burst may swap, if the pair is in `Races`.
Codex is left out of the instance because its Stop means that the session has
ended, so that a late event leaves it shown as working (section 5). `Compacts` is not
followed at once by the end of a turn, for the reason given there too.

`SubagentBlocks` is an Antigravity session and its subagents, which have conversations
and locks of their own and no row. Whether a conversation is a subagent and whose
(`IsSubagent`, `ParentOf`) is read from files, `art`; `log` is the end of a transcript. An
event of a subagent changes its parent's row and `blocker`. The instances are two
registered subagents, and one with any artifacts that a live one has.

`StatusInspector` is what `verifySessionLiveness` reads off a terminal: `screen` has the last
lines of the pane, the last entry of the transcript and the subagents on disk;
`Corrected` has the rules of each agent in their order. The agents are external:
`Live` says what each draws while it does what `does` says, and `Quoted` what older text
above it may look like. Text of a kind that the rules cannot tell from a live
request is not in `Quoted`; those cases are listed in section 5.

### SpawnRouting, LoadMetrics, FleetUpdate

`SpawnRouting`: `rows[d]` are the hosts registered with daemon `d` and `health[d][h]` what it
last heard of `h`; load is counted in half sessions. `SelectTargetHost` filters by tags and
capabilities and takes the first of the best scores, in the order in which the code lists the
hosts (`Before`: itself, then the registered ones by name). A request that is forwarded loses
its capabilities and is routed once more where it arrives; what a host said of its
capabilities outlives its absence, in its row (`Offline`). `getFederatedSessions` is the poll,
`ensureHostTunnels` the check of the tunnels. `spawn.known` and `skewed` are history
variables: whether the loads were known to all when the spawn came, and whether the loads have
been changed by anything but spawns that were.

`LoadMetrics`: the table `host_load_metrics` of one host. `RecordHostLoadSample` reads the
bucket, `Store` writes it. `RollupAndPrune` is one step here and three in the code (a `DELETE`, a
`SELECT`, and a transaction), which nothing that writes the rows they look at can come between:
samples go into the current bucket, which is none of the old ones. An average is kept as
a sum, so that nothing is rounded.

`FleetUpdate`: the binaries of this machine (`own`, `install`) and of remote hosts (`host`),
replaced one by one (`handleUpdate`, of which two at a time are left out, section 5), with
jobs that go through `Prepare`, `Upload`, `Uploaded`, `Rename`, `RestartRemote` or
`RemoteUpdate`, and `Verify`; each may fail and leave what is done. An upload in progress is a
`Torn` file.

### TreePaths and NodeTree

`TreePaths` has paths as sequences of names. `NodeTree` has the three tables: `nodes`, `dirs`
(`node_host_paths` of this host) and `rows` (the path of each session). `SaveNode`,
`DeleteNode` and `MoveNode` are followed by the statements that finish them
(`SaveNodeHostPath`, `BindSessions`, `UnassignSessions`, `ForgetDirs`, `MoveDirs`,
`MoveSessions`), each a step. `File` resolves the node of a session from its directory
(`Resolve`) and `SaveFiled` saves the row; `MoveSession` files it under the path that the user
gives, of a node or not. `removed` and `torn` are history variables: the paths from which a
request took its sessions, unless something was saved, moved or filed there by hand since, and
whether a move has failed half way.

### Dashboard

Daemon and dashboard composed. `store` is the daemon's, `chan` the buffer of the
subscriber, `wire` what is sent and not handled; `tui` has the dashboard's list, nodes,
cursor, view and dialog; `cmds` are commands and answers under way. `Register`,
`SendListing`, `SendEvent` and `Disconnect` are `handleEvents`, `Changes` what others do to
the rows, `Handle` the handling of an event, `Keys` the key bindings, `Perform` a
command at the daemon and `Answer` its answer at the dashboard. `doubt` is a history
variable: the sessions whose last change cannot have arrived, and so is `count.heirs`: the
sessions that took over another's row. `Caught` is not stated of a row that is taken over
twice (section 5).

### Services, RowParts and MCServices

The modules from `SessionState` on and `HeadlessMigration` share no state. `Services` is one
specification of all nine: a behaviour of it is a behaviour of one of them, chosen by `part`,
while the variables of the others stay 0, and its properties say something of each part.
`TypesOK` has the types of all but the load history. `RowTrue` is what a session's row may be
relied on to say: `Shown` and `NoGhostSubagent` (`SessionState`), `BlockExact`
(`SubagentBlocks`), `Agrees` and `Steady` (`StatusInspector`), `UnderOneKey` and
`MapsFollowRow` (`HeadlessMigration`), `Housed` (`NodeTree`), `OneRow` and `Caught`
(`Dashboard`). `FleetTrue` is `FewHops` and `Balanced` (`SpawnRouting`), `LoadTrue` the types
and `HoursKept` of `LoadMetrics`, `SafeUpdates` `WholeBinaries` and `NeverDowngraded` of
`FleetUpdate`, and `DeleteSpares` that of the dashboard. `RowParts`, which `Services` extends,
holds the instances that keep a session's row (`SessionState`, `SubagentBlocks`,
`StatusInspector`, `HeadlessMigration` and `NodeTree`), so that the proofs about them stand in
a module of their own. `RowAssumption` and `ServicesAssumption` name the hypotheses about the
constants; TLC evaluates them for `MCServices`, the instance that is checked.

## 4. Runs

Counts are distinct states; times are on two workers.

| Run | Instance | What it shows | Size |
|---|---|---|---|
| `HeadlessUnhurried` | two prompts, one answer | types; one child per session and `IsRunning` sees it; no question is lost | 5.35 M, 82 s |
| `HeadlessRacing` | four prompts, any schedule | the queue is exact; the engine implements the ledger | 522 k, 48 s |
| `HeadlessRepair` | a prompt and an answer, any schedule, fair | a row never stays Working when nothing runs | 1.33 M, 112 s |
| `HeadlessAuthority` | two prompts, any schedule | violation: a live child that `IsRunning` does not see | |
| `HookQueue` | three events, three nested conversations and one whose first event may take over a row | exclusion; no change lost but to a take-over; order of arrival; no circular wait; FIFO lock | 76 k, 19 s |
| `RelayTunnel` | a plain request and an event stream, two tunnels, one failure | one tunnel is served; the reader is free; nothing is dropped; requests end | 437 k, 71 s |
| `RelayServed` | a plain request and a terminal that kills the daemon, five tunnels, one failure | the daemon is reachable again | 396 k, 32 s |
| `SyncTasks` | two hosts, a task, three stamps, one push, one crash | a task never goes back; all agree in the end | 259 k, 20 s |
| `SyncNodes` | two hosts, a task, a project and a path, handlers overlapping | equal stamps are equal versions | 330 k, 12 s |
| `TaskWorkflow` | two sessions, two repositories, one behind the other, one pull request | one active worker per repository; a merge is believed only when it happened; workstreams and nodes only move on | 144 k, 62 s |
| `Sessions` | three ids, two terminals; taking turns, Antigravity with a reset and a call, Claude Code with calls, with a reset and late events, and with a reset and calls; two calls that overlap; other writers that overlap, and late events | one live row per terminal; dead terminals are noticed; the terminals of deleted sessions stop | 342 k, 172 s |
| `Services` | nine instances, see `MCServices` | rows say what CLIs do; the fleet adds up; the tree is housed and shown; updates and deletions take only what they should; nothing is under two IDs while a session gets its own, and the maps follow the row | 3.03 M, 132 s |

Why the bounds are enough:

- Prompts: the races are between the end of one turn, the start of the next and
  one more actor; order in the queue needs two that wait behind one that runs.
  `HeadlessRacing` has four and, with the constraint `QueueOnly`, leaves out the
  scanner and questions, neither of which touches the queue. The other two headless
  runs have them. Prompts are symmetric; liveness is checked without symmetry.
- IDs: two conversations, because a turn under the placeholder that a straddling
  handler starts again reports one of its own; a prompt that runs, one that waits and
  one on its way; `MaxCalls` bounds the other calls. Prompts and conversations are
  symmetric, and only safety is checked.
- Events: three are two of one conversation and one of its subagent, or one of each of three
  levels of parent locks, or one whose row is taken over while two of its own read and save
  it; the conversation of each event is chosen when it arrives, so all mixtures are covered.
- Tunnels: two, of which one is broken, allow the end of the old one, its late registration
  and the new one's in any order; `RelayServed` has five, since the crash of the daemon takes
  one more and what has to come back is the last one. `MaxSeen` cuts a stream after two pieces
  of data.
- Stamps: three edits of one row on two hosts, with a crash (`MaxCrashes`) and one
  push (`MaxPushes`) at a time: the shortest failure of each rule that was seen needs
  two stamps, or three with a tombstone. Three hosts exceed the time given to a run.
- Tasks: `MaxHandled` handlers change the task. The nodes 0, 5 and 15 are one of
  each class of `Classify` that the guards tell apart, and N11 comes from a pull
  request. `Overtaken = {"github"}` lets everything overtake the two handlers that
  close a merged task; all kinds at once exceed the time given to a run, and are
  covered by the proofs.
- Rows (`Sessions`): an adoption needs a placeholder and a conversation, a rotation a second
  conversation, a stale copy one more writer, an overlap of a restart with a deletion two calls.
  `Lifecycles` has an instance for each
  question, `SerialOneOwner` for calls and for resets with late events apart (section 5
  says what is false of both together); all of them at once do not end in the time
  given to a run.
- `SessionState`: two prompts, four events on the way, two subagent types: a subagent
  that overlaps another of the other type, and a second turn that finds what the
  first left. `SubagentBlocks`: two siblings and their parent, each asking once, is the
  smallest case of one progressing while another waits.
- `StatusInspector`: `Window = 3` lines with two near the bottom have room for a live line
  and older ones on each side of the limit. The screen is drawn anew at every step,
  so no longer behaviours are needed.
- `SpawnRouting`: a hub with two hosts, and two that know each other, with weights 0, 1, 2 and
  3, with and without capabilities, tags and a repository, one drained; three spawns tell
  weight 3 from weight 1; requests of capabilities, of a repository, of both and of neither.
  `LoadMetrics`: two buckets an hour, one hour raw, two kept, six ticks: an hour is rolled up,
  kept and pruned. `FleetUpdate`: three versions, two binaries, two updates one after the
  other.
- `NodeTree`: a group, a project in it and one beside it, four requests. `Dashboard`: two
  sessions of one terminal and one alone, a buffer of one, two changes and two
  keys, with up to two commands under way: every pair of change, event, fetch and key.

The runs of the headless engine, the hooks, the relay, the tasks, the sessions and the
services set `CHECK_DEADLOCK FALSE`: every client sends a bounded number of requests,
and when all are served the system rests. The replication never stops (daemons pull for
ever), and there deadlock is checked.

Fairness. `HeadlessTurns`: goroutines that can run are scheduled, a child process ends and the
scanner's ticker fires; clients send nothing that they need not, and the daemon need not
restart. `HookQueue`: goroutines are scheduled. `RelayTunnel`: goroutines are scheduled, the
timers of `handleProxy` fire, and `Client.Start` dials again, also after the daemon has died
and was started again; clients need not leave, and the handlers of streams need not return.
`SyncLWW`: handlers go on, the daemon's ticker (`server.go:800`) pulls from every peer again
and again and gets an answer in the end; pushes are owed nothing. All of that is weak
fairness. `SessionRows`: a handler, a scan or a check that has begun goes on (weak), and the
scan (every 30 seconds) and the liveness check (with every list request) begin again and again
though handlers get in between (strong: they begin only when the one before has ended). The
modules of `Services` are checked for safety only.

## 5. Disagreements with the documentation

With a run of its own (`findings` in `PROJECT.json`):

- `HeadlessAuthority`: the deferred delete of a finished turn removes the process
  entry of the next one, so that `IsRunning` is false while its child runs, and a second
  child may be started.

Refuted by TLC with a configuration that is kept here, and not among the runs:

| Configuration | Property | What happens |
|---|---|---|
| `HeadlessSkip.cfg` | `SkippedTurnWasAsking` | `ClearInteractiveBlockAndWait` marks a response even when no turn is being stopped (`headless.go:210`, `:224`); the next turn consumes the mark (`:930`), and neither saves its outcome nor dispatches the queue. |
| `HeadlessAsked.cfg` | `AskedIsInterrupted` of `HeadlessMigration` | In the first turn of an Antigravity session a question pauses and interrupts under the placeholder (`headless.go:193`, `:201`), whose entries have moved to the new ID (`:1117`): the CLI works on and the session's queue is not paused (`docs/daemon.md:112` promises both). |
| `SyncCascade.cfg` | `NodeNeverOlder` | The tombstone of a project replaces paths below it that were edited later (`db.go:3531`; `docs/voice-companion.md:70` promises that the last write wins). |
| `SessionReset.cfg` | `Decoupled` | After `/clear` the archived row keeps its terminal and PID, the scan adopts it again, and a call on it reaches the terminal in which the next conversation runs (`docs/daemon.md:121`). |
| `HeadlessStrand.cfg` | `QueueDrains` | `handlePrompt` sees a running turn; the turn ends before `EnqueuePrompt` (`server_chat.go:51`), and nobody dispatches the prompt. |
| `RelayHeader.cfg` | `HeaderFirst` | The response waits in `respChan` while the reader already writes data to the client. |
| `RelayTerminal.cfg` | `TerminalWorks` | The daemon serves a terminal that is opened over the relay to a recorder (`relay/client.go:283`). `websocket.Server` asserts that it is an `http.Hijacker` and panics, in a goroutine that recovers from nothing (`:173`): the whole daemon dies. |
| `RelayHang.cfg` | `StreamEndsWithTunnel` | The tunnel of an open stream goes down, and nothing ends the stream; an old tunnel that registers late does the same to a working one. |
| `SyncRacing.cfg` | `TaskNeverOlder` with `Racing` | Two handlers take stamps in one order and write in the other. `TasksAgree` fails too: an edit with an early stamp is behind the watermark when it is written. |
| `TaskLate.cfg` | `NeverRegresses` with `Overtaken = {"report"}` | A report writes back a copy that is older than what a workflow file wrote meanwhile. |
| `TaskMerge.cfg` | `MergeUnlocks` | `reconcileOpenPRTasks` completes the task and leaves the workstreams that wait for the merge queued. |
| `TaskSecondPR.cfg` | `MergedIsMerged` with two pull requests | After the first pull request is merged, the URL of the second takes over the state `MERGED` (`telemetry_tasks.go:750`); nothing asks GitHub about it any more. |

Refuted in instances that no configuration keeps (the modules' constants or mutants
bring them back):

- Hook intake. `NoChangeLost` without its exception for rows that are taken over. An event of
  a conversation reads its row; the first event of another conversation adopts that row and
  deletes it (`server_hooks.go:409`), or archives it and saves the copy that it has from the
  list of sessions (`:482`), with no ticket of that conversation; whichever of the two is
  later takes back what the other has saved. The late event makes the archived row managed
  again.
- Headless engine. `ScannerWakesOnlyRunning` with `Unhurried`: the cancel handler saves Idle
  while the child is not yet reaped; the scanner has seen Idle and `IsRunning`, and writes
  Working after the turn has ended.
- Sessions. `SerialOneOwner` without its hypothesis `Orderly`. With overlapping writers a
  first event adopts a placeholder that another conversation has adopted. With calls
  and late events, a late event of a deleted conversation adopts another's placeholder.
  With Claude Code, a reset and a call, the row that was rotated away keeps its
  terminal's name, and a call resumes it there. With Antigravity and several
  placeholders that wait (four ids, three terminals, two calls), a conversation on disk
  is given to the wrong one; with one at a time it takes six ids, three terminals, two
  resets and a call, or a deleted conversation left on disk. The instance of Antigravity
  is below these bounds. With Claude Code and a reset, the CLI's exit is not noticed
  for the rotated row.
- Deletion. `DeletedStops` if it is read as one about conversations: Claude Code runs c1 in
  the terminal named after it, `/clear` makes c2, a take-wheel on c2 starts a second terminal
  (`server_sessions.go:1086`) while the first still runs c2. Deleting c2 kills the second, and
  the scan takes the first for c1 by its name (`session_scanner.go:484`), so c2 runs on there.
  `SessionOf` says which session the scan takes a terminal for, and the property is about that
  session.
- Hook events. Codex maps Stop to Ended, so a late PostToolUse leaves a session at rest
  shown as working. A compaction directly followed by Stop leaves a finished turn
  marked as read. A second block with no event between is neither pushed nor marked
  unread. A SubagentStop after Stop shows Working. Of two parallel subagents of one
  type, one end takes both off the list.
- Subagents. A parent that goes on in the background hides a subagent's request; a
  subagent killed while it asks leaves its block; the request of a subagent that is
  in no record is cleared by a registered sibling.
- Panes. Codex, Grok and OpenCode keep a block as long as an answered request is in
  the last 25 lines, and become Idle when the phrase is gone even though the CLI
  works. A quoted header line in Antigravity's pane is taken for a request while it
  thinks; a confirmation `[y/N]` below an old prompt is missed.
- Fleet. A burst of spawns between two polls goes to the same host. A dead daemon behind a
  working tunnel stays online in `ensureHostTunnels`. In a mesh with stale loads a forwarded
  spawn is forwarded on, and without its capabilities; so is one that reaches a daemon that
  knows only a part of the fleet. A session that ends while a spawn is on its way is enough:
  the two daemons see other loads, and the second passes it on. A request of capabilities and
  a repository does it with fresh loads: of two hosts with the repository, m of weight 3
  without capability x and n of weight 1 with it, m sends {x, repository} to n without x but
  with the repository (`server_sessions.go:1374`), by which n routes it again, to m, which
  runs it though it lacks x.
- Updates. `handleHostUpdate` does not compare the host's version: with a release that was
  cached up to an hour ago it goes back. The update of all hosts does the same when a host's
  HTTP is down and its health is old. When neither HTTP nor ssh answers, the update counts as
  done. The error of the Homebrew fallback is dropped and the daemon restarts. With `Overlap`,
  one update renames the file that the other is still uploading. Nothing keeps two `POST
  /v1/update` apart either (`server.go:623`): both write the same binaries one by one, which
  `handleUpdate` of the model does not let them.
- Load. `RecordHostLoadSample` reads and writes without a lock or a transaction: with
  `Writers = 2` a sample is lost. When the clock is set back, the roll-up replaces an
  hour's average.
- Tree. The user may file a session under any path (`server_sessions.go:669`, `db.go:1274`,
  and the dashboard's dialog takes free text, `tui.go:494`), a deleted one included: nobody
  looks whether it is a node. `Housed` takes a path that the user has named for one that is in
  use. It also needs that no name of a group at the top is used below another one (`Rooted`):
  a session whose directory names a group deep in the tree is filed under that name alone
  (`server_projects.go:661`, the last rule of `Resolve`), which is then the path of a top
  group, and may be one that is gone. A session whose path is no node's moves with a move of a
  group above it, to a path that may have been deleted before: `removed` takes such a path for
  one that is in use again. A move onto paths that have directories fails after the nodes were
  moved (`db.go:1262`, a unique key), which leaves directories and sessions in a node that is
  deleted. With `Parties = 2` a scan files a session into a node that was deleted meanwhile.
- Dashboard. When rows disappear, the cursor is out of range and the next key panics
  (`crashed` becomes TRUE). An event
  that is overtaken by the answer of an older fetch, or dropped, stays unseen until
  the next one; a deleted row comes back when its event comes after the fetch. Changes
  of paths with a moved or deleted node are told to nobody. The cursor is an index,
  so a row that moves up puts another session under it. A mark-read under way clears
  a newer unread mark. A row that is taken over by one session and then by a third
  (`session_scanner.go:600`, `headless.go:1104`) may be listed twice (four changes and no key are
  enough): the listing adds the third, the late event of the second replaces the first, and
  the late event of the third replaces the second. Of the two copies only one follows later
  events, and an end is not shown, since merging prefers the copy that is not ended
  (`tui.go:1572`).

Seen while reading, without a property: a worker of no repository, on a task none of whose
workstreams is in progress, moves all of them, queued ones too; a hook that goes from Blocked
to Working takes a task in review to IN_PROGRESS; a report of N15 for one repository closes
the workers of all; `UpdateTask` clears `deleted_at`, so a late copy brings a deleted task
back; two sessions that end together can leave their task active rather than stalled; an event
with a URL sets a merged pull request back to open. `SaveSession` reads the row in one
statement (`db.go:378`), may run git (`:409`), and upserts all columns in another (`:506`): a
supervisor mark that `bind-supervisor` sets in between is taken back, although the merge is
there to keep it. `SaveSession` of a stale copy takes back a rename or a move by the user (the
comment at `server_hooks.go:526` says it does not); a purge answers `purged_and_rehydrated`
(`server_sessions.go:239`) and rehydrates nothing; `telemetry_tasks.go:414` sets `IsDone` and
leaves `IsLater`; `server_hosts.go:75` reads a host and saves it, which can bring a deleted
host back; marking as read marks the row that one leaves (`docs/tui.md:28` says the focused
one); `docs/tui.md` lists `k` for up and for kill (the code has `K`). With `straddling`, a
handler that resolved the placeholder before the replacement and acts after it leaves its
prompt in a queue, or its listener in a list, that nobody looks at any more, or starts a
second turn and brings the old row back (`server_chat.go:50`, `:282`, `:371`). `Emit` drops
events of a subscriber whose channel is full (`headless.go:357`); the parent's ticket of a
subagent's event is reserved when it is processed (`server_hooks.go:183`); the relay's daemon
side serves a stream under a context that nothing cancels (`relay/client.go:264`).

## 6. Proofs

All of them hold for every value of the constants under the modules' named
assumptions.

- `HeadlessTurnsProofs`. *Typing*. *QueueConsistent*: `QueueExact` is inductive
  together with the types, in any schedule. *LedgerImplemented*: each step maps to a
  step of `PromptLedger` or a stutter, using `QueueExact` for the step of the two
  dispatchers. *SingleTurn*, under `Unhurried`: `RunningIsTracked` is not inductive
  because it does not say whose entry a settling goroutine deletes; `OneTurn`
  adds that turns do not overlap and that `proc` is of the turn that has not been
  settled. *QuestionAnswered*, under `Unhurried` too: `Pending` adds that an open
  question belongs to a turn that began, and that its block is there until that
  turn's own goroutine takes it, which needs that no other turn is under way.
- `HookQueueProofs`. *ChainHolds*: `Chain` says that the channels of a conversation
  form one chain, of which a prefix is closed, and that only the ticket behind it is
  let in. *OneAtATime* and *QueueImplementsLock* follow from it. *NothingOverwritten*
  and *ShownAsArrived* share the invariant `Kept`. `Current` says that the copy of the row that a
  handler is about to save is the row itself, which no other event of the conversation or of its
  subagents can write while it holds the lock, unless another conversation has taken the row
  over; `Fresh` that an event that takes one over has no row of its own yet. `Recorded` is about
  the order: every version of a row, in the table or in a copy, shows events that have saved, in
  the order of their arrival (`Versions`), so that a version which a take-over brings back
  is in order too; and an event that was saved is behind the lock's prefix, so what is saved
  next arrived later.
- `RelayTunnelProofs`. *Typing*; *OneTunnelServed*, which needs that a tunnel is
  not served before it is dialed: a new websocket is never that of an old goroutine.
  *ReaderNeverWaits* and *NoAnswerLost*: `Flow` follows the one token of a request,
  which is in turn asked, on its way down, at its handler, on its way up, with the
  reader, and in the response channel; `Single` says that it is in one place, so a
  stream is answered at most once, and `Listed` that the tunnel knows the stream as
  long as its request waits. When a terminal kills the daemon every handler ends and no token
  moves (*CrashFlow*).
- `SyncLWWProofs`. *Typing*; *OneVersionAlways*: `Stamps` extends `OneVersion` from
  rows to payloads: a stamp is taken by one edit, which writes either live rows or
  tombstones, and everything else copies what a row or a payload holds already.
  `TaskNeverOlder` is not proved: under `~Racing` it says no more than the comparison, and
  without that hypothesis it is false (`SyncRacing.cfg`).
- `TaskWorkflowProofs`. `Sound` is a property of a copy, and the invariant
  says it of the row and of every job; it is shown once for each operator that makes
  a copy from another. *OneWorker* needs nothing else. *MergedIsTrue* assumes that
  there is one pull request at most; `TaskSecondPR.cfg` shows that it must.
  *Typing*. *NobodyForgotten* and *OnlyForward*, for every choice
  of overtaken handlers: `Good` says of the copy that a handler makes and the row that
  it has read that a workstream goes back (`Onward`) only when the one that it waited
  for is done and it starts, and that, unless the row was done, whoever completes a
  workstream wakes those behind it (`Awake`). It is shown for each operator of
  the module and composed along the handlers: a card moves workstreams forward only
  (`Ahead`), and completes one only if it then unlocks what waits for it.
  *NewsKeepsCard* assumes that hooks, reports and files are not
  overtaken: what they save is then computed from the row that it replaces
  (`Timely`). `TaskLate.cfg` shows that it must.
- `SessionRowsProofs`. *Typing*: `Copies` says that every copy in flight is a row under
  an id that was handed out, and of an event that adopts a row that it is another's and
  names a terminal. A call that is parked is a copy like the one at work
  (`ParkedHolds`), so a step that is shown for either holds for both (*Switched*, *BothStep*).
  *OneOwner*: `SerialOneOwner` under its hypothesis `Orderly` (writers take turns, Claude
  Code, and either no resets and no late events or no calls), for any ids and terminals.
  That no two live rows claim a terminal is not inductive, because a stale
  copy could bring a claim back, or an event choose the wrong row. `Taking` says that a
  copy in flight is the table's row, since writers take turns; `Homes` that a terminal's
  conversation is the one whose row claims it, once its first event is in, and `Claims`
  that when nothing is under way no terminal is claimed twice; `Settled` and `Quiet` are
  the moments at which those two hold.
- `RowProofs`, about the components of `RowParts`, each under its conjunct of `RowAssumption`.
  *MigrationTyping*, *OneKey* and *MapsFollow* (`HeadlessMigration`) assume `Apart` (the
  placeholder, the conversations and the empty mark differ): a prompt, a turn and a listener
  are under one key of each map, in any schedule; and unless a handler, a launcher or another
  turn straddles the replacement, they are under the key of the session's one row. The
  invariant adds which of the two keys every goroutine holds at each step of it.
  *BlockTyping* and *Exact* (`SubagentBlocks`) assume `Herd`: every family is one of any
  number of registered subagents, or of one subagent with any artifacts, and the parent
  waits while one of them asks. `Truthful` ties what is on the wire and on disk to
  what a CLI does: the last event says it, and only the last can be a request. `InTurn`
  says when the parent can be heard at all, and `Noted` that whoever is noted as
  asking still asks or will be heard of, and whoever asks and was heard is shown or
  another is. Where a request is read from the transcripts of siblings, `OnDisk` shows
  that the rule finds exactly those who ask.
  *Telling* (`Shown` of `SessionState`) assumes `Burst`: the agents whose `Stop` is no end
  (all but Codex, section 5), in both engines, and the two races between hooks that a CLI
  runs at once; any number of prompts, subagent types and events on the way. `Order` says
  what a CLI says when: a closing event comes last, alone or behind what it overtook.
  `Paned` says what a pane's row shows just before each event, so that the event changes
  it (no change of state, no unread mark): busy before a closing event, not blocked before
  a tool's start. `Ahead` is the row that a closing event has reached first, which must
  then withstand the tool's event: the two corrections of `applyHookStateTransition` do
  that within two seconds. `Engine` says that the row of a headless session shows what its
  runner did last, whatever is heard.
  *NoGhosts* (`NoGhostSubagent` of `SessionState`) assumes only the second half of
  `Burst`, `Overtaking`; any agents, any number of subagents and events. The invariant,
  `Ledger`, counts. `Level` is the number of subagents of a type that run once the events
  before the j-th are in: those that run now, those whose end is still on the way, less
  those whose start is. It is never negative, and the list has at most as many entries of
  a type as its level at the first event. An end takes one off both; the end of its tool
  takes a second one off the list only. `Waiting` is about the entry that a tool makes
  before its subagent starts: there is one at most, and the next event is the start that
  takes it over, so no end ever removes it. That the code removes the first match is used
  through the least-element principle (*Least*), which follows from the library's theorem
  on well-founded sets.
  *StateTyping*: that a row names a block exactly while it is blocked is not inductive
  alone; it needs both of the invariants above.
  *Inspected* (`Agrees` and `Steady` of `StatusInspector`) assumes `Readable`: older text on a
  pane is of no kind that the rules of that agent take for a request (section 5 has the
  kinds that they do). `Drawing` says that a pane is what the agent draws
  now, below at most one line of older text, so that what a rule finds on it is live or is not
  taken for a request. The rules are a list of which the first that applies
  decides; `Asked` and `Finding` say what that rule is, for each state of each agent.
  *Shelters* (`Housed` of `NodeTree`) assumes `Rooted`: one writer at a time, and no name of a
  group at the top below another one. The three tables are written one after the other, so
  the invariant `TreeIInv` says what is outstanding: `Resident` that a session filed in a path
  that was removed is below the path of the request under way (`Behind`), and `Owned` that a
  directory without a node is one that this request is about to delete or to move. `Found`
  is about a writer that has resolved a path and not saved it. It needs that what `Resolve`
  finds is a node, or the name of a top group of one, which is where `Rooted` comes in, and
  that moving a subtree takes nothing that was not below it.
- `ServicesProofs`, about the other components and about `Services`.
  *Sparing* (`DeleteSpares` of `Dashboard`) assumes nothing. `Lone`, of every delete command
  that was given on an up-to-date view: at or below its path the daemon had nothing but the
  node.
  *Catching* (`OneRow` and `Caught`) assumes `Numbering`: finitely many sessions, each with a
  number. The invariant, `Tracks`, is about what is on its way to the dashboard. `Current`
  says of each session without `doubt` where the row is said as it is: in the buffer, if that
  mentions the session at all, else on the wire, if that does, else in the dashboard's list,
  and in each of these last; and in the answer of every fetch under way. `Heads` says that in
  a list a session is before the one whose row it took over. `Kin` says of which sessions a
  copy can be and whose row it took over, which is where a row that is taken over twice has to
  be left out (section 5). Two lists that differ in nothing but marks have the same rows, and
  merging two copies of one row gives the row (`Near`).
  *UpdateTyping*, *Whole* and *Upgrading* (`FleetUpdate`) assume `Shipping`: versions are
  numbers, the daemon ships, and no two updates are of one host at one time (`Overlap` is
  FALSE; section 5 has what happens otherwise). `Local` says that an installation that is due
  for a restart is whole and nothing is newer than the release. `Remote` follows the job of a
  host: which of its binaries are uploaded, of which version the files are, that they are no
  older than the target, and that, if the host said what it runs, this is not newer than the
  target as long as the job is before its verification.
  *Settles* (`FewHops` of `SpawnRouting`) and *Sharings* (`Balanced`) assume `Sharing`: any
  fleet of named hosts with any tags, weights, capabilities and repositories, in which a
  daemon knows every host or none, clients talk to daemons that know all, and no capability
  that is asked for has the name of a tag; any requests, those that name capabilities and a
  repository included. `Routed` says that a request under way was sent to the best choice
  among the hosts for what it asked (`Best`), so that one of three things holds of the host
  that it was sent to: no capabilities were asked for, and the host, which sees the same
  loads, finds nobody better than itself (*Stays*); only they were, which the forwarded
  request no longer names, and without a hint the host runs it; or a repository too, by which
  the host routes it again, and the next host is then the best for the repository alone, and
  stays. For `Balanced` the invariant is the property itself: the host with the least load for
  its weight gets the next session, and (load + 2) / weight of the others stays above it.
  *TypesAlways*, *RowAlways*, *FleetAlways*, *UpdatesSafe* and *DeletesSpare* put the parts
  together: a behaviour of `Services` keeps its `part`, so it is a behaviour of that
  component's specification, whose theorems give its conjunct, and the others hold since their
  part is another. They state the runs' properties `TypesOK`, `RowTrue`, `FleetTrue`,
  `SafeUpdates` and `DeleteSpares` for every value of the constants that `RowAssumption` and
  `ServicesAssumption` admit.

What proving found. Some properties held in the run only because its instances were
small, and were restated, with the model where it was wrong:

- `FewHops`. It first said that a spawn is passed on once, of requests that name capabilities
  or a repository but never both; with both it may be passed on twice (section 5). The bounded
  fleets had no daemon that knows a part of the fleet, none whose only capable host is drained
  and no session that ends while a spawn is on its way. In each of these cases the second
  daemon may pass the spawn on (section 5). `SessionEnds` now ends what is known about a spawn
  under way, fleets are those of `Sharing`, and the second disjunct asks for hosts that have
  the agent and are not drained.
- `Balanced` compared hosts whose policies were equal but for the weight of the first; it
  needs that, a positive weight of the second, and hosts that take work at all.
- `Housed` took a session that moved with a group to a path that was removed before for a
  loss, and needs `Rooted` (section 5).
- `Caught` held because `MaxChanges = 2` has no row that is taken over twice (section 5).
- Folds and sorted sequences in `Dashboard`, `SpawnRouting` and `NodeTree` were replaced by
  what they compute (`Twins`, `Preferred`, `Over`), since the provers cannot unfold them.

Only model-checked: liveness (`StaleWorkingRepaired`, `EveryEventServed`, `RequestsEnd`,
`ClosedStreamsEnd`, `TunnelComesBack`, `TasksAgree`, `DeadNoticed`), which the prover cannot
treat, `DeletedStops` among it; and `LoadTrue` (`LoadMetrics`), which says what sums over sets of
samples and buckets come to: the sums are folds, and what a fold computes for every
input needs induction over data. `HoursKept` compares them, and what the report of a host's
utilisation makes of them, with the samples themselves (`history`).

## 7. What is not modelled

- Reading and writing of text: transcripts, the commands' parsers, push
  notifications, speech, uploads, files, suggestions, accounts. They keep little state
  of their own, and what can go wrong in them is in the text.
- The PTY bridge, which copies bytes between a terminal and a websocket; what the
  daemon knows of a terminal is in `SessionRows`.
- Provisioning, skills, standup and the schema migrations: sequences of shell commands
  and SQL statements whose effects are outside the daemon.
- The providers' plugins, except for the states that they map events to
  (`SessionState`), and the web and mobile clients; of the clients the terminal dashboard
  is modelled (`Dashboard`).
- Of modelled parts: the stream of a headless turn's events to its subscribers (`Emit`),
  workstreams with stamps of their own (step 12), the scan of remote hosts, and the
  router in front of the relay.

Within the modelled parts, text, wording, logging and layout are left out
everywhere.
