----------------------------- MODULE TaskWorkflow ------------------------------
(***************************************************************************)
(* The life of a task on the work board (internal/daemon/telemetry_tasks.  *)
(* go, workflow_watcher.go, server_tasks.go, server_standup.go).  A task   *)
(* has a card (status, substatus, blocker, pull request), a workstream for *)
(* each repository, some of which wait for another, and workers: sessions  *)
(* that work on one repository each.  Everybody moves it: the hooks of its *)
(* workers, the agents' reports, the workflow files, the users, and GitHub.*)
(*                                                                         *)
(* Every handler reads the task with all its relations, changes its copy   *)
(* and writes all of it back.  Overtaken names the kinds of handlers that   *)
(* others may overtake in between: jobs are their copies that are not      *)
(* written yet.  The rest writes at once.                                  *)
(*                                                                         *)
(* A workflow node is its rank, N0..N15; "done" is 15.  The task is of the *)
(* kind "code"; notes, deliverables, branches and time stamps are left     *)
(* out.  A pull request is its URL; it is not closed without a merge, and  *)
(* clients do not tell its state.                                          *)
(* A handler that changes nothing writes nothing; the workstreams of a     *)
(* deleted task, which nobody reads, stay as they were.                    *)
(***************************************************************************)
EXTENDS Integers, FiniteSets, FiniteSetsExt

CONSTANTS Sessions, Repos,
          DependsOn,   \* the workstream that a workstream waits for, or NoRepo
          NoRepo,
          PullRequests, \* the pull requests that the agents open for the task
          NoPR,
          Nodes,       \* the nodes that agents and workflow files report
          Overtaken,   \* the kinds of handlers that others may overtake
          MaxHandled   \* bound: how many handlers change the task

ASSUME RepoAssumption == NoRepo \notin Repos /\ DependsOn \in [Repos -> Repos \cup {NoRepo}]
ASSUME PRAssumption   == NoPR \notin PullRequests
ASSUME NodeAssumption == Nodes \subseteq 0..15 /\ MaxHandled \in Nat

NoNode      == -1
Ranks       == NoNode..15
States      == {"Idle", "Working", "Blocked", "Ended"}
Statuses    == {"NEW", "IN_PROGRESS", "REVIEW", "DONE"}
Substatuses == {"ready", "active", "question", "blocked", "stalled", "plan_review",
                "pr_review", "in_review", "completed"}
Workers == [active : BOOLEAN, repo : Repos \cup {NoRepo}, node : Ranks]
Streams == [status : Statuses \cup {"QUEUED"}, node : 0..15]
Tasks   == [status : Statuses, sub : Substatuses, blocker : BOOLEAN,
            pr : PullRequests \cup {NoPR}, isMerged : BOOLEAN,
            workers : [Sessions -> Workers], streams : [Repos -> Streams]]
\* What a handler writes: the task, and the sessions that it closes; and whether
\* it is news from a hook, a report or a file.
Outcomes == [task : Tasks, closed : SUBSET Sessions, news : BOOLEAN]

VARIABLES
  task,     \* the rows of the task and its relations
  deleted,  \* its deleted_at is set
  session,  \* whether a session exists, and is Working: nobody asks more of its state
  jobs,     \* the handlers under way, each with what it will write
  merged,   \* the pull requests that are merged on GitHub
  handled   \* counts the handlers, up to the bound

vars == <<task, deleted, session, jobs, merged, handled>>

\* A session that never worked on the task: every worker has a node.
Unbound == [active |-> FALSE, repo |-> NoRepo, node |-> NoNode]

NoWorkers == [s \in Sessions |-> Unbound]

\* create_task: a workstream that depends on another one waits for it.
Init == /\ task = [status |-> "NEW", sub |-> "ready", blocker |-> FALSE, pr |-> NoPR,
                   isMerged |-> FALSE, workers |-> NoWorkers,
                   streams |-> [r \in Repos |->
                     [status |-> IF DependsOn[r] = NoRepo THEN "IN_PROGRESS" ELSE "QUEUED",
                      node |-> 0]]]
        /\ deleted = FALSE /\ merged = {} /\ jobs = {} /\ handled = 0
        /\ session = [s \in Sessions |-> "none"]
-------------------------------------------------------------------------------
(* What the handlers compute.                                              *)

\* Mutant of Advance: the last report wins.
AdvanceToLast(current, candidate) == candidate

\* shouldAdvanceWorkflowNode, and the node that results.
Advance(current, candidate) == IF candidate > current THEN candidate ELSE current

SameOrEmpty(a, b) == a = NoRepo \/ b = NoRepo \/ a = b

Card(status, sub) == [status |-> status, sub |-> sub]

\* Mutant of Classify: a task that did not start is queued.
ClassifyQueued(node, state, blocker) ==
  IF node = 0 /\ state # "Working" THEN Card("NEW", "queued") ELSE Card("IN_PROGRESS", "active")

\* ClassifyWorkflowNodeState.
Classify(node, state, blocker) ==
  CASE node = 0 -> IF state = "Working" THEN Card("IN_PROGRESS", "active") ELSE Card("NEW", "ready")
    [] node = 1 -> Card("IN_PROGRESS", IF state = "Idle" \/ blocker THEN "question" ELSE "active")
    [] node = 2 -> IF state = "Idle" \/ blocker THEN Card("REVIEW", "plan_review")
                   ELSE Card("IN_PROGRESS", "active")
    [] node \in 3..10 -> Card("IN_PROGRESS", IF blocker THEN "blocked"
                                             ELSE IF state = "Idle" THEN "stalled" ELSE "active")
    [] node \in 11..13 -> Card("REVIEW", "pr_review")
    [] OTHER -> Card("DONE", "completed")

\* Mutant of Guarded: without the second guard.
GuardedOnce(c, v) == IF v.status = "NEW" /\ c.status # "NEW" THEN Card(c.status, c.sub) ELSE v

\* The first two monotonic guards: a task that has left NEW does not go back
\* to it, and one that is in review, or has a pull request, stays there.
Guarded(c, v) ==
  LET w == IF v.status = "NEW" /\ c.status # "NEW"
           THEN Card(c.status, IF c.sub # "ready" THEN c.sub ELSE "active") ELSE v
  IN IF (c.status = "REVIEW" \/ c.pr # NoPR) /\ w.status \in {"IN_PROGRESS", "NEW"}
     THEN Card("REVIEW", IF c.sub \in {"pr_review", "in_review", "plan_review"}
                         THEN c.sub ELSE "pr_review")
     ELSE w

\* The third: a task whose pull request is not known to be merged is not done.
Open(c) == c.pr # NoPR /\ ~c.isMerged
Unmerged(c, v) == v.status = "DONE" /\ Open(c)

\* A card moves the workstreams rs with it.
MoveStreams(streams, rs, status, node) ==
  [r \in Repos |->
     IF r \notin rs THEN streams[r]
     ELSE [status |-> IF status = "NEW" /\ streams[r].status \notin {"NEW", "QUEUED"}
                      THEN streams[r].status ELSE status,
           node |-> Advance(streams[r].node, node)]]

\* The workstreams that a handler means by a path, or by none.
Meant(repo) == IF repo = NoRepo THEN Repos ELSE {repo}

\* Mutant of Unlock: it looks for what can start before it completes the repository.
UnlockBefore(c, repo) ==
  [c EXCEPT !.streams = [r \in Repos |->
     IF r = repo THEN [c.streams[r] EXCEPT !.status = "DONE"]
     ELSE IF /\ c.streams[r].status \in {"QUEUED", "NEW"} /\ DependsOn[r] # NoRepo
             /\ c.streams[DependsOn[r]].status = "DONE"
     THEN [status |-> "IN_PROGRESS", node |-> 0] ELSE c.streams[r]]]

\* unlockSequentialWorkstreams: a repository is completed, what waits for it
\* starts at N0, and a task that was done is not.
Unlock(c, repo) ==
  LET streams == [r \in Repos |-> IF r = repo THEN [c.streams[r] EXCEPT !.status = "DONE"]
                                  ELSE c.streams[r]]
      next == {r \in Repos : /\ streams[r].status \in {"QUEUED", "NEW"}
                             /\ DependsOn[r] # NoRepo
                             /\ streams[DependsOn[r]].status = "DONE"}
      moved == [c EXCEPT !.streams = [r \in Repos |->
                  IF r \in next THEN [status |-> "IN_PROGRESS", node |-> 0] ELSE streams[r]]]
  IN IF next # {} /\ c.status = "DONE"
     THEN [moved EXCEPT !.status = "IN_PROGRESS", !.sub = "active"] ELSE moved

ActiveWorkers(c) == {s \in Sessions : c.workers[s].active}
Deactivated(workers) == [s \in Sessions |-> [workers[s] EXCEPT !.active = FALSE]]

\* The state of the session of a task is Working if one of its active workers works.
SessionState(c) == IF \E s \in ActiveWorkers(c) : session[s] = "Working" THEN "Working" ELSE "Idle"

\* Mutant of InsertWorker: only workers of the very same path give way.
InsertWorkerSamePath(workers, w) ==
  [t \in Sessions |->
     IF t = w.who
     THEN [active |-> w.active, repo |-> IF w.repo = NoRepo THEN workers[t].repo ELSE w.repo,
           node |-> w.node]
     ELSE IF w.active /\ workers[t].repo = w.repo
     THEN [workers[t] EXCEPT !.active = FALSE] ELSE workers[t]]

\* InsertTaskWorker: an active worker relieves those of its repository.
InsertWorker(workers, w) ==
  [t \in Sessions |->
     IF t = w.who
     THEN [active |-> w.active, repo |-> IF w.repo = NoRepo THEN workers[t].repo ELSE w.repo,
           node |-> w.node]
     ELSE IF w.active /\ SameOrEmpty(workers[t].repo, w.repo)
     THEN [workers[t] EXCEPT !.active = FALSE] ELSE workers[t]]

\* The workers ws of a copy advance to a node.  (Some handlers write them one by one
\* ahead of the rest of the copy; none writes more of it before the end.)
MoveWorkers(workers, ws, node) ==
  [s \in Sessions |-> IF s \in ws THEN [workers[s] EXCEPT !.node = Advance(@, node)]
                                  ELSE workers[s]]

\* A handler that writes c and closes some sessions.
Outcome(c, closed) == [task |-> c, closed |-> closed, news |-> FALSE]
News(o) == [o EXCEPT !.news = TRUE]

\* completeAndCloseTaskSession, for the sessions of all active workers.
CloseAll(c) == Outcome([c EXCEPT !.workers = Deactivated(@)], ActiveWorkers(c))
-------------------------------------------------------------------------------
(* The hooks of a worker's session.                                        *)

\* GitHub is asked for a pull request that seems to be open; it may not answer.
Told(c) == {FALSE, c.pr \in merged}

\* SyncSessionTaskWorker: the repository that the session works on...
ReposOf(c, s) ==
  IF c.workers[s].repo # NoRepo THEN {c.workers[s].repo}
  ELSE {NoRepo} \cup {r \in Repos : c.streams[r].status = "IN_PROGRESS"}

\* ... and how far it has come.
NodeOf(c, s, repo) == Max({c.workers[s].node} \cup {c.streams[r].node : r \in Meant(repo)})

\* Mutant of Reach: it does not ask GitHub.
ReachUnasked(c, node, state, told) ==
  LET v == Guarded(c, Classify(node, state, c.sub = "blocked" /\ c.blocker))
  IN [card |-> v, node |-> node, isMerged |-> c.isMerged \/ Unmerged(c, v)]

\* The card of a task that reaches a node; a node beyond N13 waits for the merge.
Reach(c, node, state, told) ==
  LET v == Guarded(c, Classify(node, state, c.sub = "blocked" /\ c.blocker))
      held == Unmerged(c, v) /\ ~told
  IN [card |-> IF held THEN Card("REVIEW", "pr_review") ELSE v,
      node |-> IF held /\ node > 13 THEN 13 ELSE node,
      isMerged |-> c.isMerged \/ (Unmerged(c, v) /\ told)]

\* The card and the workstreams rs of a task move.
Move(c, card, rs, node, isMerged) ==
  [c EXCEPT !.status = card.status, !.sub = card.sub, !.isMerged = isMerged,
            !.streams = MoveStreams(@, rs, card.status, node)]

AtIdle(c, s, repo, node, told) ==
  LET to == Reach(c, node, "Idle", told)
      moved == Move(c, to.card, Meant(repo), to.node, to.isMerged)
      done == IF to.card.status = "DONE" THEN Unlock(moved, repo) ELSE moved
  IN IF to.card.status = "DONE" /\ to.node = 15
     THEN Outcome([done EXCEPT !.workers = Deactivated(@)], {s}) ELSE Outcome(done, {})

AtWork(c, repo) ==
  IF c.status = "NEW" \/ c.sub \in {"blocked", "stalled", "question"}
  THEN [c EXCEPT !.status = "IN_PROGRESS", !.sub = "active", !.blocker = FALSE,
                 !.streams = [r \in Repos |->
                    IF r \in Meant(repo) /\ @[r].status = "NEW"
                    THEN [@[r] EXCEPT !.status = "IN_PROGRESS"] ELSE @[r]]]
  ELSE c

AtEnd(c) == IF ActiveWorkers(c) = {} /\ c.status = "IN_PROGRESS"
            THEN [c EXCEPT !.sub = "stalled"] ELSE c

\* ... whose worker it registers.
Joined(c, s, state, repo) ==
  [c EXCEPT !.workers = InsertWorker(@, [who |-> s, active |-> state # "Ended", repo |-> repo,
                                         node |-> NodeOf(c, s, repo)])]

Synced(c, s, state, repo, told) ==
  CASE state = "Ended"   -> Outcome(AtEnd(c), {})
    [] state = "Blocked" -> Outcome([c EXCEPT !.sub = "blocked", !.blocker = TRUE], {})
    [] state = "Working" -> Outcome(AtWork(c, repo), {})
    [] OTHER             -> News(AtIdle(c, s, repo, c.workers[s].node, told))

\* IngestBoundTaskTelemetry: the task has a pull request.
Shipped(c, s) ==
  [c EXCEPT !.status = "REVIEW", !.sub = "pr_review",
            !.workers = MoveWorkers(@, {s} \cup ActiveWorkers(c), 11),
            !.streams = [r \in Repos |->
               IF (@[r].status = "IN_PROGRESS" \/ Cardinality(Repos) = 1) /\ @[r].node < 11
               THEN [status |-> "REVIEW", node |-> 11] ELSE @[r]]]
\* A handler learns of a pull request, and keeps the state of the one before.
WithPR(c, pr) == [c EXCEPT !.pr = IF pr = NoPR THEN @ ELSE pr]
-------------------------------------------------------------------------------
(* Handlers.                                                               *)

\* UpdateTask writes all of a copy, but for workers when it knows none, also over a
\* task that was deleted meanwhile; then the handler closes sessions.
Write(o, sess) ==
  /\ task' = [o.task EXCEPT !.workers = IF @ = NoWorkers THEN task.workers ELSE @]
  /\ deleted' = FALSE
  /\ session' = [s \in Sessions |-> IF s \in o.closed THEN "resting" ELSE sess[s]]

\* A handler has read c, and knows what it will write.
Handle(kind, c, o, sess) ==
  /\ handled < MaxHandled /\ handled' = handled + 1
  /\ \/ kind \notin Overtaken /\ Write(o, sess) /\ UNCHANGED jobs
     \/ /\ kind \in Overtaken /\ o.task # c /\ jobs' = jobs \cup {o}
        /\ task' = c /\ session' = sess /\ UNCHANGED deleted

Commit(o) ==
  /\ o \in jobs /\ jobs' = jobs \ {o} /\ Write(o, session)
  /\ UNCHANGED <<merged, handled>>

\* findBoundTaskForSession: the session names its task, also if another handler has
\* written the task without its worker.
Bound(s) == ~deleted /\ session[s] # "none" /\ task.status # "DONE"

\* activateTaskForSpawnedWorker: the worker is inserted, and the task starts.  A
\* new session is idle, or its state unknown.
Spawn(s, repo) ==
  LET c == [task EXCEPT !.workers = InsertWorker(@, [who |-> s, active |-> TRUE, repo |-> repo,
                                                     node |-> 0])]
      started == [c EXCEPT !.status = IF @ = "NEW" THEN "IN_PROGRESS" ELSE @,
                           !.sub = IF c.status = "NEW" /\ @ = "ready" THEN "active" ELSE @,
                           !.streams = [r \in Repos |->
                              IF r \in Meant(repo) /\ @[r].status = "NEW"
                              THEN [@[r] EXCEPT !.status = "IN_PROGRESS"] ELSE @[r]]]
  IN /\ session[s] = "none" /\ ~deleted /\ UNCHANGED merged
     /\ Handle("spawn", c, Outcome(started, {}), [session EXCEPT ![s] = "resting"])

\* A hook saves the session with its new state, and brings its task up to date.
Hook(s, state) ==
  LET sess == [session EXCEPT ![s] = IF state = "Working" THEN "Working" ELSE "resting"] IN
  /\ session[s] # "none" /\ UNCHANGED merged
  /\ \/ /\ Bound(s)
        /\ \E repo \in ReposOf(task, s), told \in Told(task) :
             LET c == Joined(task, s, state, repo)
             IN Handle("hook", c, Synced(c, s, state, repo, told), sess)
     \/ ~Bound(s) /\ session' = sess /\ UNCHANGED <<task, deleted, jobs, handled>>

\* After that it looks for a pull request in the event: its URL, or the command
\* that creates it.
Telemetry(s, pr) ==
  /\ session[s] # "none" /\ Bound(s) /\ UNCHANGED merged
  /\ IF pr # NoPR THEN task.pr # pr ELSE task.status \in {"NEW", "IN_PROGRESS"}
  /\ Handle("hook", task, Outcome(Shipped(WithPR(task, pr), s), {}), session)

\* POST /v1/tasks with a node: update_task_state of an agent.  Without a path it
\* means a workstream in progress, or else the first.
Targets(repo) ==
  LET started == {r \in Repos : task.streams[r].status = "IN_PROGRESS"} IN
  CASE repo # NoRepo  -> {repo}
    [] started # {}   -> started
    [] Repos # {}     -> Repos
    [] OTHER          -> {NoRepo}

\* An agent names its session; anybody else means the active workers.
Reporters == {ActiveWorkers(task)} \cup {{s} : s \in {t \in Sessions : task.workers[t] # Unbound}}

ReportNode(node, target, from) ==
  LET ws == {s \in from : SameOrEmpty(task.workers[s].repo, target)}
      d  == [task EXCEPT !.workers = MoveWorkers(@, ws, node)]
      v  == Guarded(d, Classify(node, SessionState(d), d.sub = "blocked" /\ d.blocker))
      moved == Move(d, v, {target}, node, d.isMerged)
      after == IF node \in {14, 15} THEN Unlock(moved, target) ELSE moved
  IN /\ ~deleted /\ UNCHANGED merged
     /\ Handle("report", task,
               News(IF node = 15 THEN CloseAll(after) ELSE Outcome(after, {})), session)

Report(node, repo) ==
  \E target \in Targets(repo), from \in Reporters : ReportNode(node, target, from)

\* POST /v1/tasks with a status: the work board, or an agent.
Normalized(status, sub) ==
  CASE status = "DONE"        -> "completed"
    [] status = "REVIEW"      -> IF sub \in {"pr_review", "plan_review", "in_review", "blocked",
                                              "question"} THEN sub ELSE "pr_review"
    [] status = "IN_PROGRESS" -> IF sub \in {"active", "question", "blocked", "stalled"}
                                 THEN sub ELSE "active"
    [] OTHER                  -> "ready"

SetStatus(status, repo) ==
  LET rs == IF status = "DONE" \/ (repo = NoRepo /\ Cardinality(Repos) = 1) THEN Repos
            ELSE {repo} \ {NoRepo}
      c == [task EXCEPT !.status = status, !.sub = Normalized(status, @),
              !.blocker = @ /\ status # "DONE",
              !.workers = IF status = "DONE" THEN Deactivated(@) ELSE @,
              !.streams = [r \in Repos |-> IF r \in rs THEN [@[r] EXCEPT !.status = status]
                                                       ELSE @[r]]]
  IN ~deleted /\ UNCHANGED merged /\ Handle("board", task, Outcome(c, {}), session)

\* ... with a blocker, or without it: report_blocker and clear_blocker.
SetBlocker(blocked) ==
  LET c == [task EXCEPT !.sub = IF blocked THEN "blocked" ELSE "active", !.blocker = blocked]
  IN ~deleted /\ UNCHANGED merged /\ Handle("board", task, Outcome(c, {}), session)

\* ... and with the URL of a pull request, or with "-" for none.
SetPR(pr) ==
  LET c == IF pr # NoPR THEN WithPR(task, pr) ELSE [task EXCEPT !.pr = NoPR, !.isMerged = FALSE]
  IN ~deleted /\ UNCHANGED merged /\ Handle("board", task, Outcome(c, {}), session)

\* POST /v1/tasks/event with the URL of a pull request.
TaskEvent(pr) ==
  LET c == [task EXCEPT !.pr = pr, !.isMerged = FALSE,
                        !.sub = IF task.status = "IN_PROGRESS" THEN "in_review" ELSE @,
                        !.status = IF @ = "IN_PROGRESS" THEN "REVIEW" ELSE @]
  IN ~deleted /\ UNCHANGED merged /\ Handle("board", task, Outcome(c, {}), session)

\* ingestSingleWorkflowRun: what a workflow file makes of a copy; one that names a
\* pull request is at N11 at least.
Ingest(c, node, repo, told) ==
  LET current == Max({node} \cup {c.workers[s].node : s \in ActiveWorkers(c)}
                            \cup {c.streams[r].node : r \in Meant(repo)})
      to == Reach(c, IF c.pr # NoPR THEN Advance(current, 11) ELSE current,
                  SessionState(c), told)
      moved == [Move(c, to.card, Meant(repo), to.node, to.isMerged) EXCEPT
                  !.workers = MoveWorkers(@, ActiveWorkers(c), to.node)]
      after == IF to.card.status = "DONE" THEN Unlock(moved, repo) ELSE moved
  IN IF after.status = "DONE" /\ to.node = 15 THEN CloseAll(after) ELSE Outcome(after, {})

WorkflowRun(node, repo, pr) ==
  \E told \in Told(WithPR(task, pr)) :
  LET o == News(Ingest(WithPR(task, pr), node, repo, told))
  IN /\ ~deleted /\ task.status # "DONE" /\ UNCHANGED merged
     /\ o.task # task /\ Handle("file", task, o, session)

\* reconcileOpenPRTasks: GitHub says that the pull request is merged.
Reconcile ==
  /\ ~deleted /\ task.status \in {"IN_PROGRESS", "REVIEW"} /\ Open(task) /\ task.pr \in merged
  /\ Handle("github", task, CloseAll([task EXCEPT !.isMerged = TRUE, !.status = "DONE",
                                                  !.sub = "completed"]), session)
  /\ UNCHANGED merged

\* handleTaskMergePR: it merges, completes the workstream of the pull request
\* (the first one, if none is known) and leaves the workers alone.
MergePR(repo) ==
  LET c == [task EXCEPT !.status = "DONE", !.sub = "completed", !.isMerged = TRUE,
                        !.blocker = FALSE]
  IN /\ ~deleted /\ (task.status = "REVIEW" \/ task.sub = "approved") /\ Open(task)
     /\ repo # NoRepo \/ Repos = {}
     /\ merged' = merged \cup {task.pr}
     /\ Handle("github", task, Outcome(Unlock(c, repo), {}), session)

\* DeleteTask, which takes the workers with it.
Delete == /\ ~deleted /\ deleted' = TRUE /\ task' = [task EXCEPT !.workers = NoWorkers]
          /\ UNCHANGED <<session, jobs, merged, handled>>

\* External: somebody merges the pull request of the task on GitHub.
MergeOnGitHub ==
  /\ task.pr \in PullRequests \ merged /\ merged' = merged \cup {task.pr}
  /\ UNCHANGED <<task, deleted, session, jobs, handled>>
-------------------------------------------------------------------------------
Paths == Repos \cup {NoRepo}
URLs  == PullRequests \cup {NoPR}

Next ==
  \/ \E s \in Sessions : \/ \E repo \in Paths : Spawn(s, repo)
                         \/ \E state \in States : Hook(s, state)
                         \/ \E pr \in URLs : Telemetry(s, pr)
  \/ \E repo \in Paths : \/ \E node \in Nodes : Report(node, repo)
                         \/ \E status \in Statuses : SetStatus(status, repo)
                         \/ \E node \in Nodes, pr \in URLs : WorkflowRun(node, repo, pr)
                         \/ MergePR(repo)
  \/ \E blocked \in BOOLEAN : SetBlocker(blocked)
  \/ \E pr \in URLs : SetPR(pr)
  \/ \E pr \in PullRequests : TaskEvent(pr)
  \/ Reconcile \/ Delete \/ MergeOnGitHub
  \/ \E o \in jobs : Commit(o)

Spec == Init /\ [][Next]_vars
-------------------------------------------------------------------------------
(* Properties.                                                             *)

\* Types of the variables.
TypeOK == /\ task \in Tasks /\ deleted \in BOOLEAN /\ merged \in SUBSET PullRequests
          /\ session \in [Sessions -> {"none", "resting", "Working"}]
          /\ jobs \in SUBSET Outcomes /\ handled \in 0..MaxHandled

\* docs/work-overview/03-telemetry-and-ingestion.md:19: one active worker for each
\* repository of a task, in the tables and in every copy; a worker of no
\* repository counts for all (InsertTaskWorker, SyncSessionTaskWorker).
OneActive(workers) ==
  \A s, t \in Sessions :
    workers[s].active /\ workers[t].active /\ s # t
      => ~SameOrEmpty(workers[s].repo, workers[t].repo)
OneActiveWorker == OneActive(task.workers)

\* What a handler makes of the task that it has read.
Made == IF jobs \subseteq jobs' THEN {task'} \cup {o.task : o \in jobs' \ jobs} ELSE {}

\* A workstream does not wait for one that is done: whoever completes a
\* workstream of a task that is not done starts those behind it in the same write
\* (01-data-model-and-lifecycle.md section 6.3; unlockSequentialWorkstreams).
NoneLeftWaiting ==
  [][\A c \in Made, r \in Repos :
       (/\ DependsOn[r] # NoRepo /\ task.status # "DONE"
        /\ task.streams[DependsOn[r]].status # "DONE"
        /\ c.streams[DependsOn[r]].status = "DONE")
       => c.streams[r].status # "QUEUED"]_vars

\* A handler takes a workstream back to an earlier node only when it starts it,
\* because the one that it waited for is done.
Starts(r, c) == /\ task.streams[r].status \in {"QUEUED", "NEW"}
                /\ c.streams[r].status = "IN_PROGRESS"
NodeForward ==
  [][\A c \in Made, r \in Repos :
       \/ c.streams[r].node >= task.streams[r].node
       \/ /\ Starts(r, c) /\ DependsOn[r] # NoRepo
          /\ c.streams[DependsOn[r]].status = "DONE"]_vars

\* docs/work-overview/03-telemetry-and-ingestion.md:20: no report of a node, idle
\* hook or workflow file takes a task back to NEW, or one in review with an open
\* pull request back to IN_PROGRESS, unless it starts a workstream that waited.
LateNews == \/ \E s \in Sessions : Hook(s, "Idle")
            \/ \E repo \in Paths, node \in Nodes : Report(node, repo)
            \/ \E repo \in Paths, node \in Nodes, pr \in URLs : WorkflowRun(node, repo, pr)
            \/ \E o \in jobs : o.news /\ Commit(o)
NeverRegresses ==
  [][LateNews =>
       /\ task.status # "NEW" => task'.status # "NEW"
       /\ task.status = "REVIEW" /\ Open(task) /\ task'.status = "IN_PROGRESS"
            => \E r \in Repos : Starts(r, task')]_vars

\* A task says of its pull request only what GitHub has said: it is merged, when
\* the task says so (IngestDevWorkflowRuns, SyncSessionTaskWorker,
\* reconcileOpenPRTasks, handleTaskMergePR).  It is so as long as the task has one
\* pull request: the URL of another one takes over the state of the first.
MergedIsMerged == task.isMerged => task.pr \in merged

\* docs/work-overview/01-data-model-and-lifecycle.md:152: when the pull request of a
\* workstream is merged, what waits for it starts.  reconcileOpenPRTasks closes the
\* task and leaves it waiting (TaskMerge.cfg).
MergeUnlocks == task.isMerged /\ task.status = "DONE"
                  => \A r \in Repos : task.streams[r].status # "QUEUED"
================================================================================
