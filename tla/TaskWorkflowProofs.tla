--------------------------- MODULE TaskWorkflowProofs ---------------------------
(***************************************************************************)
(* Proofs about TaskWorkflow, for any sessions, repositories and nodes, and*)
(* any order among the repositories.  First, whatever handlers overtake    *)
(* each other: there is one active worker for each repository, and a task  *)
(* that calls its only pull request merged is right.  Both are invariants  *)
(* of the row and of every copy that is still to be written, since         *)
(* UpdateTask writes a copy as it is.                                      *)
(*                                                                         *)
(* Then the types; that no handler takes a workstream back that it has     *)
(* read, or leaves one waiting for one that it completes; and that news    *)
(* takes no card back when nothing overtakes it.                           *)
(***************************************************************************)
EXTENDS TaskWorkflow, TLAPS

\* The fields of a task and of its workers, of which most values do not matter.
Fields(c) == c = [status |-> c.status, sub |-> c.sub, blocker |-> c.blocker, pr |-> c.pr,
                  isMerged |-> c.isMerged, workers |-> c.workers, streams |-> c.streams]
Manned(ws) == /\ ws = [s \in Sessions |-> [active |-> ws[s].active, repo |-> ws[s].repo,
                                            node |-> ws[s].node]]
              /\ \A s \in Sessions : ws[s].active \in BOOLEAN
              /\ OneActive(ws)

\* There is one pull request at most: only then is a copy right about its own, when
\* the pull requests m are merged.
OnePR == \A p, q \in PullRequests : p = q
Right(c, m) == c.pr \in URLs /\ (OnePR => (c.isMerged => c.pr \in m))

SamePR(c, d) == c.pr = d.pr /\ c.isMerged = d.isMerged

Sound(c, m) == Fields(c) /\ Manned(c.workers) /\ Right(c, m)

IInv == /\ merged \subseteq PullRequests
        /\ Sound(task, merged)
        /\ \A o \in jobs : Sound(o.task, merged)
-------------------------------------------------------------------------------
(* Workers.                                                                *)

\* InsertTaskWorker leaves one active worker for each repository.
LEMMA Inserted ==
  ASSUME NEW ws, Manned(ws), NEW who, NEW active \in BOOLEAN, NEW repo, NEW node
  PROVE  Manned(InsertWorker(ws, [who |-> who, active |-> active, repo |-> repo, node |-> node]))
<1> DEFINE w  == [who |-> who, active |-> active, repo |-> repo, node |-> node]
           vs == InsertWorker(ws, w)
           same(t) == SameOrEmpty(ws[t].repo, repo)
<1>1. vs = [t \in Sessions |->
              IF t = who
              THEN [active |-> active, repo |-> IF repo = NoRepo THEN ws[t].repo ELSE repo,
                    node |-> node]
              ELSE IF active /\ same(t) THEN [ws[t] EXCEPT !.active = FALSE] ELSE ws[t]]
  BY DEF InsertWorker
<1>2. ASSUME NEW t \in Sessions
      PROVE  /\ ws[t] = [active |-> ws[t].active, repo |-> ws[t].repo, node |-> ws[t].node]
             /\ ws[t].active \in BOOLEAN
  BY DEF Manned
<1>3. ASSUME NEW t \in Sessions
      PROVE  /\ vs[t] = [active |-> vs[t].active, repo |-> vs[t].repo, node |-> vs[t].node]
             /\ vs[t].active \in BOOLEAN
             /\ t # who => vs[t].repo = ws[t].repo
             /\ t # who /\ vs[t].active => ws[t].active
             /\ t # who /\ active /\ vs[t].active => ~same(t)
             /\ t = who => /\ vs[t].active = active
                           /\ vs[t].repo = IF repo = NoRepo THEN ws[t].repo ELSE repo
  <2> HIDE DEF same
  <2>1. CASE t = who
    BY <2>1, <1>1
  <2>2. CASE t # who /\ active /\ same(t)
    <3>1. vs[t] = [ws[t] EXCEPT !.active = FALSE]
      BY <2>2, <1>1
    <3>2. vs[t] = [active |-> FALSE, repo |-> ws[t].repo, node |-> ws[t].node]
      BY <3>1, <1>2
    <3> HIDE DEF vs
    <3> QED BY <3>2, <2>2
  <2>3. CASE t # who /\ ~(active /\ same(t))
    <3>1. vs[t] = ws[t]
      BY <2>3, <1>1
    <3> QED BY <3>1, <2>3, <1>2
  <2> QED BY <2>1, <2>2, <2>3
<1>4. OneActive(vs)
  <2> SUFFICES ASSUME NEW s \in Sessions, NEW t \in Sessions,
                      vs[s].active, vs[t].active, s # t
               PROVE  ~SameOrEmpty(vs[s].repo, vs[t].repo)
    BY DEF OneActive
  <2> HIDE DEF vs
  <2>1. CASE s # who /\ t # who
    BY <2>1, <1>3 DEF Manned, OneActive
  <2>2. CASE s = who
    BY <2>2, <1>3 DEF SameOrEmpty
  <2>3. CASE t = who
    BY <2>3, <1>3 DEF SameOrEmpty
  <2> QED BY <2>1, <2>2, <2>3
<1>5. vs = [s \in Sessions |-> [active |-> vs[s].active, repo |-> vs[s].repo,
                                 node |-> vs[s].node]]
  <2>1. vs = [s \in Sessions |-> vs[s]]
    BY <1>1
  <2> QED BY <2>1, <1>3
<1> QED BY <1>3, <1>4, <1>5 DEF Manned

\* Workers that advance stay what they are.
LEMMA Moved ==
  ASSUME NEW ws, Manned(ws), NEW some, NEW node
  PROVE  Manned(MoveWorkers(ws, some, node))
<1> DEFINE vs == MoveWorkers(ws, some, node)
<1>1. \A t \in Sessions :
        /\ vs[t].active = ws[t].active /\ vs[t].repo = ws[t].repo
        /\ vs[t] = [active |-> vs[t].active, repo |-> vs[t].repo, node |-> vs[t].node]
  BY DEF MoveWorkers, Manned
<1>2. vs = [t \in Sessions |-> vs[t]]
  BY DEF MoveWorkers
<1> QED BY <1>1, <1>2 DEF Manned, OneActive

\* When nobody is active there is nothing to show.
LEMMA Relieved ==
  ASSUME NEW ws, Manned(ws)
  PROVE  Manned(Deactivated(ws))
<1> DEFINE vs == Deactivated(ws)
<1>1. vs = [s \in Sessions |-> [ws[s] EXCEPT !.active = FALSE]]
  BY DEF Deactivated
<1>2. ASSUME NEW t \in Sessions
      PROVE  vs[t] = [active |-> FALSE, repo |-> ws[t].repo, node |-> ws[t].node]
  <2>1. ws[t] = [active |-> ws[t].active, repo |-> ws[t].repo, node |-> ws[t].node]
    BY DEF Manned
  <2> QED BY <1>1, <2>1
<1>3. ASSUME NEW t \in Sessions
      PROVE  /\ vs[t] = [active |-> vs[t].active, repo |-> vs[t].repo, node |-> vs[t].node]
             /\ ~vs[t].active /\ vs[t].active \in BOOLEAN
  <2> HIDE DEF vs
  <2>1. vs[t] = [active |-> FALSE, repo |-> ws[t].repo, node |-> ws[t].node]
    BY <1>2
  <2>2. vs[t].active = FALSE
    BY <2>1
  <2> QED BY <2>1, <2>2
<1>4. vs = [s \in Sessions |-> [active |-> vs[s].active, repo |-> vs[s].repo,
                                 node |-> vs[s].node]]
  <2>1. vs = [s \in Sessions |-> vs[s]]
    BY <1>1
  <2> QED BY <2>1, <1>3
<1>5. OneActive(vs)
  <2> HIDE DEF vs
  <2> QED BY <1>3 DEF OneActive
<1> QED BY <1>3, <1>4, <1>5 DEF Manned
-------------------------------------------------------------------------------
(* What the handlers make of a copy.                                       *)

\* Unlock changes the card and the workstreams only.
LEMMA Unlocked ==
  ASSUME NEW m, NEW c, Sound(c, m), NEW repo
  PROVE  Sound(Unlock(c, repo), m)
<1>1. /\ Fields(Unlock(c, repo))
      /\ Unlock(c, repo).workers = c.workers /\ Unlock(c, repo).pr = c.pr
      /\ Unlock(c, repo).isMerged = c.isMerged
  BY DEF Sound, Fields, Unlock
<1> QED BY <1>1 DEF Sound, Right

LEMMA MovedCard ==
  ASSUME NEW m, NEW c, Sound(c, m), NEW card, NEW rs, NEW node, NEW told,
         OnePR => (told => c.pr \in m)
  PROVE  Sound(Move(c, card, rs, node, told), m)
<1>1. PICK d : d = Move(c, card, rs, node, told)
  OBVIOUS
<1>2. Fields(d) /\ d.workers = c.workers /\ d.pr = c.pr /\ d.isMerged = told
  BY <1>1 DEF Sound, Fields, Move
<1> QED BY <1>1, <1>2 DEF Sound, Right

\* A task learns only from GitHub that its pull request is merged.
LEMMA Reached ==
  ASSUME NEW m, NEW c, Sound(c, m), NEW node, NEW state, NEW told, told => c.pr \in m
  PROVE  OnePR => (Reach(c, node, state, told).isMerged => c.pr \in m)
BY DEF Sound, Right, Reach

\* What is written is the copy, whether it is news or not.
LEMMA Plain ==
  ASSUME NEW c, NEW closed
  PROVE  Outcome(c, closed).task = c /\ News(Outcome(c, closed)).task = c
BY DEF Outcome, News

LEMMA Closed ==
  ASSUME NEW m, NEW c, Sound(c, m)
  PROVE  Sound(CloseAll(c).task, m) /\ Sound(News(CloseAll(c)).task, m)
<1> DEFINE d == [c EXCEPT !.workers = Deactivated(@)]
<1>1. Fields(d) /\ d.workers = Deactivated(c.workers) /\ SamePR(d, c)
  BY DEF Sound, Fields, SamePR
<1>2. Sound(d, m)
  BY <1>1, Relieved DEF Sound, Right, SamePR
<1>3. CloseAll(c).task = d /\ News(CloseAll(c)).task = d
  BY Plain DEF CloseAll
<1> QED BY <1>2, <1>3

\* What AtIdle, AtWork and AtEnd make of a hook.
LEMMA Hooked ==
  ASSUME NEW m, NEW c, Sound(c, m), NEW s, NEW state, NEW repo, NEW told, told => c.pr \in m
  PROVE  Sound(Synced(c, s, state, repo, told).task, m)
<1>1. Sound(AtEnd(c), m)
  BY DEF AtEnd, Sound, Fields, Right
<1>2. Sound([c EXCEPT !.sub = "blocked", !.blocker = TRUE], m)
  <2>1. PICK d : d = [c EXCEPT !.sub = "blocked", !.blocker = TRUE]
    OBVIOUS
  <2>2. Fields(d) /\ d.workers = c.workers /\ SamePR(d, c)
    BY <2>1 DEF Sound, Fields, SamePR
  <2> QED BY <2>1, <2>2 DEF Sound, Right, SamePR
<1>3. Sound(AtWork(c, repo), m)
  BY DEF AtWork, Sound, Fields, Right
<1>4. Sound(News(AtIdle(c, s, repo, c.workers[s].node, told)).task, m)
  <2> DEFINE node  == c.workers[s].node
             to    == Reach(c, node, "Idle", told)
             moved == Move(c, to.card, Meant(repo), to.node, to.isMerged)
             done  == IF to.card.status = "DONE" THEN Unlock(moved, repo) ELSE moved
  <2>1. OnePR => (to.isMerged => c.pr \in m)
    BY Reached
  <2>2. Sound(moved, m)
    BY <2>1, MovedCard
  <2>3. Sound(done, m)
    BY <2>2, Unlocked
  <2>4. PICK freed : freed = [done EXCEPT !.workers = Deactivated(@)]
    OBVIOUS
  <2>5. Sound(freed, m)
    <3> HIDE DEF done
    <3>1. Fields(freed) /\ freed.workers = Deactivated(done.workers) /\ SamePR(freed, done)
      BY <2>3, <2>4 DEF Sound, Fields, SamePR
    <3> QED BY <2>3, <3>1, Relieved DEF Sound, Right, SamePR
  <2>6. \/ AtIdle(c, s, repo, node, told) = Outcome(freed, {s})
        \/ AtIdle(c, s, repo, node, told) = Outcome(done, {})
    BY <2>4 DEF AtIdle
  <2>7. News(AtIdle(c, s, repo, node, told)).task \in {freed, done}
    <3> HIDE DEF done, node
    <3> QED BY <2>6, Plain
  <2> QED BY <2>3, <2>5, <2>7
<1> QED BY <1>1, <1>2, <1>3, <1>4, Plain DEF Synced
-------------------------------------------------------------------------------
(* The steps.                                                              *)

\* UpdateTask keeps the workers of the row when the copy has none.
LEMMA Stored ==
  ASSUME Sound(task, merged), NEW o, NEW sess, NEW m, merged \subseteq m, Sound(o.task, m), Write(o, sess)
  PROVE  Sound(task', m)
<1>1. PICK d : d = task'
  OBVIOUS
<1>2. /\ Fields(d) /\ SamePR(d, o.task)
      /\ d.workers = IF o.task.workers = NoWorkers THEN task.workers ELSE o.task.workers
  BY <1>1 DEF Write, Sound, Fields, SamePR
<1> QED BY <1>1, <1>2 DEF Sound, Right, SamePR

\* A handler that has read a sound copy, and writes a sound one.
LEMMA SoundHandled ==
  ASSUME IInv, NEW kind, NEW c, NEW o, NEW sess, Handle(kind, c, o, sess),
         merged' \subseteq PullRequests, merged \subseteq merged', Sound(c, merged'), Sound(o.task, merged')
  PROVE  IInv'
<1>1. \A p \in jobs : Sound(p.task, merged')
  BY DEF IInv, Sound, Right
<1>2. Sound(task', merged')
  <2>1. CASE task' = c
    BY <2>1
  <2>2. CASE Write(o, sess)
    BY <2>2, Stored DEF IInv
  <2> QED BY <2>1, <2>2 DEF Handle
<1>3. \A p \in jobs' : Sound(p.task, merged')
  <2>1. jobs' \subseteq jobs \cup {o}
    BY DEF Handle
  <2> QED BY <1>1, <2>1
<1> QED BY <1>2, <1>3 DEF IInv

LEMMA Started ==
  ASSUME IInv, NEW s, NEW repo, Spawn(s, repo)
  PROVE  IInv'
<1> DEFINE w == [who |-> s, active |-> TRUE, repo |-> repo, node |-> 0]
<1>1. PICK c : c = [task EXCEPT !.workers = InsertWorker(@, w)]
  OBVIOUS
<1>2. Fields(c) /\ c.workers = InsertWorker(task.workers, w) /\ SamePR(c, task)
  <2> HIDE DEF w
  <2> QED BY <1>1 DEF IInv, Sound, Fields, SamePR
<1>3. Sound(c, merged)
  BY <1>2, Inserted DEF IInv, Sound, Right, SamePR
<1>4. PICK d : d = [c EXCEPT !.status = IF @ = "NEW" THEN "IN_PROGRESS" ELSE @,
                             !.sub = IF c.status = "NEW" /\ @ = "ready" THEN "active" ELSE @,
                             !.streams = [r \in Repos |->
                                IF r \in Meant(repo) /\ @[r].status = "NEW"
                                THEN [@[r] EXCEPT !.status = "IN_PROGRESS"] ELSE @[r]]]
  OBVIOUS
<1>5. Fields(d) /\ d.workers = c.workers /\ SamePR(d, c)
  BY <1>3, <1>4 DEF Sound, Fields, SamePR
<1>6. Sound(d, merged)
  BY <1>3, <1>5 DEF Sound, Right, SamePR
<1>7. Handle("spawn", c, Outcome(d, {}), [session EXCEPT ![s] = "resting"]) /\ merged' = merged
  BY <1>1, <1>4 DEF Spawn
<1> QED BY <1>3, <1>6, <1>7, SoundHandled, Plain DEF IInv

LEMMA HookedUp ==
  ASSUME IInv, NEW s, NEW state, Hook(s, state)
  PROVE  IInv'
<1> DEFINE sess == [session EXCEPT ![s] = IF state = "Working" THEN "Working" ELSE "resting"]
<1>1. ASSUME NEW repo, NEW told \in Told(task), merged' = merged,
             Handle("hook", Joined(task, s, state, repo),
                    Synced(Joined(task, s, state, repo), s, state, repo, told), sess)
      PROVE  IInv'
  <2>1. PICK c : c = Joined(task, s, state, repo)
    OBVIOUS
  <2>2. PICK node : node = NodeOf(task, s, repo)
    OBVIOUS
  <2>3. PICK active \in BOOLEAN : active = (state # "Ended")
    OBVIOUS
  <2>4. Fields(c) /\ SamePR(c, task)
        /\ c.workers = InsertWorker(task.workers, [who |-> s, active |-> active, repo |-> repo,
                                                   node |-> node])
    BY <2>1, <2>2, <2>3 DEF Joined, IInv, Sound, Fields, SamePR
  <2>5. Sound(c, merged)
    BY <2>4, Inserted DEF IInv, Sound, Right, SamePR
  <2>6. told => c.pr \in merged
    BY <1>1, <2>4 DEF Told, SamePR
  <2>7. Sound(Synced(c, s, state, repo, told).task, merged)
    BY <2>5, <2>6, Hooked
  <2> QED BY <1>1, <2>1, <2>5, <2>7, SoundHandled DEF IInv
<1>2. CASE Bound(s)
  BY <1>1, <1>2 DEF Hook
<1>3. CASE ~Bound(s)
  BY <1>3 DEF Hook, IInv, Sound, Fields, Manned, OneActive, SameOrEmpty, Right
<1> QED BY <1>2, <1>3

LEMMA Reported ==
  ASSUME IInv, NEW node, NEW target, NEW from, ReportNode(node, target, from)
  PROVE  IInv'
<1> DEFINE ws    == {s \in from : SameOrEmpty(task.workers[s].repo, target)}
           v(d)  == Guarded(d, Classify(node, SessionState(d), d.sub = "blocked" /\ d.blocker))
           moved(d) == Move(d, v(d), {target}, node, d.isMerged)
           after(d) == IF node \in {14, 15} THEN Unlock(moved(d), target) ELSE moved(d)
<1>1. PICK d : d = [task EXCEPT !.workers = MoveWorkers(@, ws, node)]
  OBVIOUS
<1>2. Fields(d) /\ d.workers = MoveWorkers(task.workers, ws, node) /\ SamePR(d, task)
  <2> HIDE DEF ws
  <2> QED BY <1>1 DEF IInv, Sound, Fields, SamePR
<1>3. Sound(d, merged)
  BY <1>2, Moved DEF IInv, Sound, Right, SamePR
<1>4. Sound(moved(d), merged)
  <2>1. OnePR => (d.isMerged => d.pr \in merged)
    BY <1>3 DEF Sound, Right
  <2> HIDE DEF v
  <2> QED BY <1>3, <2>1, MovedCard
<1>5. Sound(after(d), merged)
  <2> HIDE DEF moved
  <2> QED BY <1>4, Unlocked
<1>6. /\ merged' = merged
      /\ Handle("report", task, News(IF node = 15 THEN CloseAll(after(d)) ELSE Outcome(after(d), {})),
                session)
  BY <1>1 DEF ReportNode
<1> HIDE DEF after
<1>7. Sound(News(IF node = 15 THEN CloseAll(after(d)) ELSE Outcome(after(d), {})).task, merged)
  <2>1. CASE node = 15
    BY <1>5, <2>1, Closed
  <2>2. CASE node # 15
    BY <1>5, <2>2, Plain
  <2> QED BY <2>1, <2>2
<1> QED BY <1>6, <1>7, SoundHandled DEF IInv

\* A handler of the board, whose copy keeps what Sound is about.
LEMMA Edited ==
  ASSUME IInv, NEW c, Fields(c), Manned(c.workers),
         c.pr \in URLs, c.isMerged => task.isMerged /\ c.pr = task.pr, merged' = merged, Handle("board", task, Outcome(c, {}), session)
  PROVE  IInv'
<1>1. Sound(c, merged)
  BY DEF IInv, Sound, Right
<1> QED BY <1>1, SoundHandled, Plain DEF IInv

LEMMA StatusSet ==
  ASSUME IInv, NEW status, NEW repo, SetStatus(status, repo)
  PROVE  IInv'
<1> DEFINE rs == IF status = "DONE" \/ (repo = NoRepo /\ Cardinality(Repos) = 1) THEN Repos
                 ELSE {repo} \ {NoRepo}
<1>1. PICK c : c = [task EXCEPT !.status = status, !.sub = Normalized(status, @),
                 !.blocker = @ /\ status # "DONE",
                 !.workers = IF status = "DONE" THEN Deactivated(@) ELSE @,
                 !.streams = [r \in Repos |-> IF r \in rs THEN [@[r] EXCEPT !.status = status]
                                                          ELSE @[r]]]
  OBVIOUS
<1>2. /\ Fields(c) /\ SamePR(c, task)
      /\ c.workers = IF status = "DONE" THEN Deactivated(task.workers) ELSE task.workers
  <2> HIDE DEF rs
  <2> QED BY <1>1 DEF IInv, Sound, Fields, SamePR
<1>3. Manned(c.workers)
  BY <1>2, Relieved DEF IInv, Sound
<1>4. Handle("board", task, Outcome(c, {}), session) /\ merged' = merged
  BY <1>1 DEF SetStatus
<1> QED BY <1>2, <1>3, <1>4, Edited DEF IInv, Sound, Right, SamePR

LEMMA BlockerSet ==
  ASSUME IInv, NEW yes, SetBlocker(yes)
  PROVE  IInv'
<1>1. PICK c : c = [task EXCEPT !.sub = IF yes THEN "blocked" ELSE "active", !.blocker = yes]
  OBVIOUS
<1>2. Fields(c) /\ SamePR(c, task) /\ c.workers = task.workers
  BY <1>1 DEF IInv, Sound, Fields, SamePR
<1>3. Handle("board", task, Outcome(c, {}), session) /\ merged' = merged
  BY <1>1 DEF SetBlocker
<1> QED BY <1>2, <1>3, Edited DEF IInv, Sound, Right, SamePR

\* A task that gets its pull request again keeps what it says of it.
LEMMA PRGiven ==
  ASSUME NEW m \in SUBSET PullRequests, NEW c, Sound(c, m), NEW pr \in URLs
  PROVE  Sound(WithPR(c, pr), m)
<1>1. PICK d : d = WithPR(c, pr)
  OBVIOUS
<1>2. /\ Fields(d) /\ d.workers = c.workers /\ d.isMerged = c.isMerged
      /\ d.pr = IF pr = NoPR THEN c.pr ELSE pr
  BY <1>1 DEF WithPR, Sound, Fields
<1>3. Right(d, m)
  <2> SUFFICES ASSUME OnePR, d.isMerged PROVE d.pr \in m
    BY <1>2 DEF Sound, Right
  <2>1. c.pr \in m
    BY <1>2 DEF Sound, Right
  <2>2. CASE pr = NoPR
    BY <1>2, <2>1, <2>2
  <2>3. CASE pr # NoPR
    BY <1>2, <2>1, <2>3 DEF URLs, OnePR
  <2> QED BY <2>2, <2>3
<1> QED BY <1>1, <1>2, <1>3 DEF Sound

LEMMA PRSet ==
  ASSUME IInv, NEW pr \in URLs, SetPR(pr)
  PROVE  IInv'
<1>1. PICK c : c = [task EXCEPT !.pr = NoPR, !.isMerged = FALSE]
  OBVIOUS
<1>2. Fields(c) /\ c.pr = NoPR /\ c.isMerged = FALSE /\ c.workers = task.workers
  BY <1>1 DEF IInv, Sound, Fields
<1>3. Sound(IF pr # NoPR THEN WithPR(task, pr) ELSE c, merged)
  BY <1>2, PRGiven DEF IInv, Sound, Right, URLs
<1>4. /\ Handle("board", task, Outcome(IF pr # NoPR THEN WithPR(task, pr) ELSE c, {}), session)
      /\ merged' = merged
  BY <1>1 DEF SetPR
<1> QED BY <1>3, <1>4, SoundHandled, Plain DEF IInv

LEMMA EventTold ==
  ASSUME IInv, NEW pr \in PullRequests, TaskEvent(pr)
  PROVE  IInv'
<1>1. PICK c : c = [task EXCEPT !.pr = pr, !.isMerged = FALSE,
                      !.sub = IF task.status = "IN_PROGRESS" THEN "in_review" ELSE @,
                      !.status = IF @ = "IN_PROGRESS" THEN "REVIEW" ELSE @]
  OBVIOUS
<1>2. Fields(c) /\ c.pr = pr /\ c.isMerged = FALSE /\ c.workers = task.workers
  BY <1>1 DEF IInv, Sound, Fields
<1>3. Handle("board", task, Outcome(c, {}), session) /\ merged' = merged
  BY <1>1 DEF TaskEvent
<1> QED BY <1>2, <1>3, Edited DEF IInv, Sound, URLs

LEMMA Shipping ==
  ASSUME NEW m, NEW c, Sound(c, m), NEW s
  PROVE  Sound(Shipped(c, s), m)
<1>1. PICK d : d = Shipped(c, s)
  OBVIOUS
<1>2. PICK ws : ws = {s} \cup ActiveWorkers(c)
  OBVIOUS
<1>3. Fields(d) /\ d.workers = MoveWorkers(c.workers, ws, 11) /\ SamePR(d, c)
  BY <1>1, <1>2 DEF Shipped, Sound, Fields, SamePR
<1> QED BY <1>1, <1>3, Moved DEF Sound, Right, SamePR

LEMMA Noticed ==
  ASSUME IInv, NEW s, NEW pr \in URLs, Telemetry(s, pr)
  PROVE  IInv'
<1>1. PICK c : c = WithPR(task, pr)
  OBVIOUS
<1>2. Sound(c, merged)
  BY <1>1, PRGiven DEF IInv
<1>3. Handle("hook", task, Outcome(Shipped(c, s), {}), session) /\ merged' = merged
  BY <1>1 DEF Telemetry
<1> QED BY <1>2, <1>3, Shipping, SoundHandled, Plain DEF IInv

LEMMA Ingested ==
  ASSUME IInv, NEW node, NEW repo, NEW pr \in URLs, WorkflowRun(node, repo, pr)
  PROVE  IInv'
<1>1. PICK c : c = WithPR(task, pr)
  OBVIOUS
<1>2. Sound(c, merged)
  BY <1>1, PRGiven DEF IInv
<1>3. PICK told \in Told(c) :
        merged' = merged /\ Handle("file", task, News(Ingest(c, node, repo, told)), session)
  BY <1>1 DEF WorkflowRun
<1> DEFINE current(d) == Max({node} \cup {d.workers[s].node : s \in ActiveWorkers(d)}
                                    \cup {d.streams[r].node : r \in Meant(repo)})
           to(d)    == Reach(d, IF d.pr # NoPR THEN Advance(current(d), 11) ELSE current(d),
                             SessionState(d), told)
           card(d)  == Move(d, to(d).card, Meant(repo), to(d).node, to(d).isMerged)
           moved(d) == [card(d) EXCEPT !.workers = MoveWorkers(@, ActiveWorkers(d), to(d).node)]
           after(d) == IF to(d).card.status = "DONE" THEN Unlock(moved(d), repo) ELSE moved(d)
           ends(d)  == after(d).status = "DONE" /\ to(d).node = 15
<1>4. OnePR => (to(c).isMerged => c.pr \in merged)
  <2>1. told => c.pr \in merged
    BY DEF Told
  <2> HIDE DEF current
  <2> QED BY <1>2, <2>1, Reached
<1>5. Sound(card(c), merged)
  <2> HIDE DEF to
  <2> QED BY <1>2, <1>4, MovedCard
<1>6. Sound(moved(c), merged)
  <2>1. PICK d : d = moved(c)
    OBVIOUS
  <2>2. PICK ws : ws = ActiveWorkers(c)
    OBVIOUS
  <2> HIDE DEF card, to
  <2>3. /\ Fields(d) /\ SamePR(d, card(c))
        /\ d.workers = MoveWorkers(card(c).workers, ws, to(c).node)
    BY <1>5, <2>1, <2>2 DEF Sound, Fields, SamePR
  <2>4. Sound(d, merged)
    BY <1>5, <2>3, Moved DEF Sound, Right, SamePR
  <2> QED BY <2>1, <2>4
<1>7. Sound(after(c), merged)
  <2> HIDE DEF moved, to
  <2> QED BY <1>6, Unlocked
<1>8. Ingest(c, node, repo, told) = IF ends(c) THEN CloseAll(after(c)) ELSE Outcome(after(c), {})
  BY DEF Ingest
<1> HIDE DEF after, ends
<1>9. Sound(News(Ingest(c, node, repo, told)).task, merged)
  <2>1. CASE ends(c)
    BY <1>7, <1>8, <2>1, Closed
  <2>2. CASE ~ends(c)
    BY <1>7, <1>8, <2>2, Plain
  <2> QED BY <2>1, <2>2
<1> QED BY <1>3, <1>9, SoundHandled DEF IInv

LEMMA Reconciled ==
  ASSUME IInv, Reconcile
  PROVE  IInv'
<1>1. PICK c : c = [task EXCEPT !.isMerged = TRUE, !.status = "DONE", !.sub = "completed"]
  OBVIOUS
<1>2. Fields(c) /\ c.workers = task.workers /\ c.pr = task.pr
  BY <1>1 DEF IInv, Sound, Fields
<1>3. task.pr \in merged /\ merged' = merged /\ Handle("github", task, CloseAll(c), session)
  BY <1>1 DEF Reconcile
<1>4. Sound(c, merged)
  BY <1>2, <1>3 DEF IInv, Sound, Right
<1> QED BY <1>3, <1>4, Closed, SoundHandled DEF IInv

LEMMA MergedByBoard ==
  ASSUME IInv, NEW repo, MergePR(repo)
  PROVE  IInv'
<1>1. PICK c : c = [task EXCEPT !.status = "DONE", !.sub = "completed", !.isMerged = TRUE,
                                !.blocker = FALSE]
  OBVIOUS
<1>2. Fields(c) /\ c.workers = task.workers /\ c.pr = task.pr
  BY <1>1 DEF IInv, Sound, Fields
<1>3. merged' = merged \cup {task.pr} /\ Handle("github", task, Outcome(Unlock(c, repo), {}), session)
  BY <1>1 DEF MergePR
<1>4. Sound(c, merged') /\ Sound(task, merged')
  BY <1>2, <1>3 DEF IInv, Sound, Right
<1>5. Sound(Unlock(c, repo), merged')
  BY <1>4, Unlocked
<1>6. merged' \subseteq PullRequests
  BY <1>3 DEF MergePR, Open, IInv, Sound, Right, URLs
<1> QED BY <1>3, <1>4, <1>5, <1>6, SoundHandled, Plain

LEMMA Committed ==
  ASSUME IInv, NEW o, Commit(o)
  PROVE  IInv'
<1>1. o \in jobs /\ jobs' \subseteq jobs /\ merged' = merged /\ Write(o, session)
  BY DEF Commit
<1>2. Sound(task', merged')
  BY <1>1, Stored DEF IInv
<1> QED BY <1>1, <1>2 DEF IInv
-------------------------------------------------------------------------------
(* The theorems.                                                           *)

LEMMA Unmanned == Manned(NoWorkers)
<1>1. PICK ws : ws = NoWorkers
  OBVIOUS
<1>2. \A s \in Sessions : ws[s] = [active |-> FALSE, repo |-> NoRepo, node |-> NoNode]
  BY <1>1 DEF NoWorkers, Unbound
<1>3. \A s \in Sessions : /\ ws[s].active = FALSE /\ ws[s].repo = NoRepo
                          /\ ws[s].node = NoNode
  BY <1>2
<1>4. ws = [s \in Sessions |-> [active |-> ws[s].active, repo |-> ws[s].repo,
                                 node |-> ws[s].node]]
  BY <1>1, <1>2, <1>3 DEF NoWorkers, Unbound
<1>5. OneActive(ws)
  BY <1>3 DEF OneActive
<1> QED BY <1>1, <1>3, <1>4, <1>5 DEF Manned

LEMMA SoundInit == Init => IInv
<1> SUFFICES ASSUME Init PROVE IInv
  OBVIOUS
<1>1. Fields(task) /\ task.pr = NoPR /\ task.isMerged = FALSE /\ task.workers = NoWorkers
  BY DEF Init, Fields
<1> QED BY <1>1, Unmanned DEF Init, IInv, Sound, Right, URLs

LEMMA Deleted ==
  ASSUME IInv, Delete
  PROVE  IInv'
<1>1. PICK d : d = [task EXCEPT !.workers = NoWorkers]
  OBVIOUS
<1>2. Fields(d) /\ SamePR(d, task) /\ d.workers = NoWorkers
  BY <1>1 DEF IInv, Sound, Fields, SamePR
<1>3. Sound(d, merged)
  BY <1>2, Unmanned DEF IInv, Sound, Right, SamePR
<1> QED BY <1>1, <1>3 DEF Delete, IInv

LEMMA SoundStep == IInv /\ [Next]_vars => IInv'
<1> SUFFICES ASSUME IInv, [Next]_vars PROVE IInv'
  OBVIOUS
<1>1. ASSUME NEW s \in Sessions, NEW repo, Spawn(s, repo) PROVE IInv'
  BY <1>1, Started
<1>2. ASSUME NEW s \in Sessions, NEW state, Hook(s, state) PROVE IInv'
  BY <1>2, HookedUp
<1>3. ASSUME NEW s \in Sessions, NEW pr \in URLs, Telemetry(s, pr) PROVE IInv'
  BY <1>3, Noticed
<1>4. ASSUME NEW node, NEW repo, Report(node, repo) PROVE IInv'
  BY <1>4, Reported DEF Report
<1>5. ASSUME NEW status, NEW repo, SetStatus(status, repo) PROVE IInv'
  BY <1>5, StatusSet
<1>6. ASSUME NEW node, NEW repo, NEW pr \in URLs, WorkflowRun(node, repo, pr)
      PROVE  IInv'
  BY <1>6, Ingested
<1>7. ASSUME NEW repo, MergePR(repo) PROVE IInv'
  BY <1>7, MergedByBoard
<1>8. ASSUME NEW yes, SetBlocker(yes) PROVE IInv'
  BY <1>8, BlockerSet
<1>9. ASSUME NEW pr \in URLs, SetPR(pr) PROVE IInv'
  BY <1>9, PRSet
<1>10. ASSUME NEW pr \in PullRequests, TaskEvent(pr) PROVE IInv'
  BY <1>10, EventTold
<1>11. CASE Reconcile
  BY <1>11, Reconciled
<1>12. CASE Delete \/ UNCHANGED vars
  BY <1>12, Deleted DEF vars, IInv
<1>13. CASE MergeOnGitHub
  BY <1>13 DEF MergeOnGitHub, IInv, Sound, Right
<1>14. ASSUME NEW o, Commit(o) PROVE IInv'
  BY <1>14, Committed
<1> QED BY <1>1, <1>2, <1>3, <1>4, <1>5, <1>6, <1>7, <1>8, <1>9, <1>10, <1>11, <1>12,
       <1>13, <1>14 DEF Next

LEMMA SoundAlways == Spec => []IInv
BY SoundInit, SoundStep, PTL DEF Spec

\* A task has one active worker for each repository, whoever writes it and in
\* whatever order (InsertTaskWorker, UpdateTask).
THEOREM OneWorker == Spec => []OneActiveWorker
<1>1. IInv => OneActiveWorker
  BY DEF IInv, Sound, Manned, OneActiveWorker
<1> QED BY <1>1, SoundAlways, PTL

\* A task that has one pull request at most, and calls it merged, is right, also
\* when it was written from an old copy (SyncSessionTaskWorker,
\* reconcileOpenPRTasks).
THEOREM MergedIsTrue ==
  ASSUME \A p, q \in PullRequests : p = q
  PROVE  Spec => []MergedIsMerged
<1>1. IInv => MergedIsMerged
  BY DEF IInv, Sound, Right, OnePR, MergedIsMerged
<1> QED BY <1>1, SoundAlways, PTL

-----------------------------------------------------------------------------
(***************************************************************************)
(* What each handler computes: the card it decides on (Guarded, Reach),    *)
(* the workstreams that go with it (Ahead), and those that Unlock starts.  *)
(* Good and Hold say what the result keeps of the copy that was read;      *)
(* Handled carries them over to what is written.                           *)
(***************************************************************************)
Cards    == [status : Statuses, sub : Substatuses]

\* The greatest of some nodes is one of them.
LEMMA Greatest ==
  ASSUME NEW S \in SUBSET Ranks, S # {}
  PROVE  Max(S) \in S
<1>1. \E x \in S : \A y \in S : x >= y
  <2> SUFFICES ASSUME \A x \in S : \E y \in S : ~(x >= y) PROVE FALSE
    OBVIOUS
  <2>1. \A x \in S : x \in -1..15
    BY DEF Ranks, NoNode
  <2>2. 15 \notin S /\ 14 \notin S /\ 13 \notin S /\ 12 \notin S
    BY <2>1
  <2>3. 11 \notin S /\ 10 \notin S /\ 9 \notin S /\ 8 \notin S
    BY <2>1, <2>2
  <2>4. 7 \notin S /\ 6 \notin S /\ 5 \notin S /\ 4 \notin S
    BY <2>1, <2>2, <2>3
  <2>5. 3 \notin S /\ 2 \notin S /\ 1 \notin S /\ 0 \notin S
    BY <2>1, <2>2, <2>3, <2>4
  <2>6. \A x \in S : x = -1
    BY <2>1, <2>2, <2>3, <2>4, <2>5
  <2> QED BY <2>6
<1> QED BY <1>1 DEF Max

\* The parts of a task.
LEMMA Parts ==
  ASSUME NEW c \in Tasks
  PROVE  /\ c.status \in Statuses /\ c.sub \in Substatuses /\ c.blocker \in BOOLEAN
         /\ c.pr \in URLs /\ c.isMerged \in BOOLEAN
         /\ c.workers \in [Sessions -> Workers] /\ c.streams \in [Repos -> Streams]
         /\ c = [status |-> c.status, sub |-> c.sub, blocker |-> c.blocker, pr |-> c.pr,
                 isMerged |-> c.isMerged, workers |-> c.workers, streams |-> c.streams]
BY DEF Tasks, URLs

LEMMA Whole ==
  ASSUME NEW c,
         c = [status |-> c.status, sub |-> c.sub, blocker |-> c.blocker, pr |-> c.pr,
              isMerged |-> c.isMerged, workers |-> c.workers, streams |-> c.streams],
         c.status \in Statuses, c.sub \in Substatuses, c.blocker \in BOOLEAN, c.pr \in URLs,
         c.isMerged \in BOOLEAN, c.workers \in [Sessions -> Workers],
         c.streams \in [Repos -> Streams]
  PROVE  c \in Tasks
BY DEF Tasks, URLs

LEMMA WorkerParts ==
  ASSUME NEW w \in Workers
  PROVE  w.active \in BOOLEAN /\ w.repo \in Paths /\ w.node \in Ranks
BY DEF Workers, Paths

LEMMA StreamParts ==
  ASSUME NEW w \in Streams
  PROVE  w.status \in Statuses \cup {"QUEUED"} /\ w.node \in 0..15
BY DEF Streams

LEMMA Advanced ==
  ASSUME NEW a \in Ranks, NEW b \in Ranks
  PROVE  Advance(a, b) \in Ranks /\ Advance(a, b) >= a /\ (a \in 0..15 => Advance(a, b) \in 0..15)
BY DEF Advance, Ranks, NoNode
-------------------------------------------------------------------------------
(* Workers.                                                                *)

LEMMA InsertTyped ==
  ASSUME NEW ws \in [Sessions -> Workers], NEW who, NEW active \in BOOLEAN,
         NEW repo \in Paths, NEW node \in Ranks
  PROVE  InsertWorker(ws, [who |-> who, active |-> active, repo |-> repo, node |-> node])
           \in [Sessions -> Workers]
<1>1. ASSUME NEW t \in Sessions
      PROVE  /\ [active |-> active, repo |-> IF repo = NoRepo THEN ws[t].repo ELSE repo,
                 node |-> node] \in Workers
             /\ [ws[t] EXCEPT !.active = FALSE] \in Workers
             /\ ws[t] \in Workers
  BY DEF Workers, Paths
<1> QED BY <1>1 DEF InsertWorker

LEMMA DeactivatedTyped ==
  ASSUME NEW ws \in [Sessions -> Workers]
  PROVE  Deactivated(ws) \in [Sessions -> Workers]
<1>1. ASSUME NEW t \in Sessions PROVE [ws[t] EXCEPT !.active = FALSE] \in Workers
  BY DEF Workers
<1> QED BY <1>1 DEF Deactivated

LEMMA MoveWorkersTyped ==
  ASSUME NEW ws \in [Sessions -> Workers], NEW some, NEW node \in Ranks
  PROVE  MoveWorkers(ws, some, node) \in [Sessions -> Workers]
<1>1. ASSUME NEW t \in Sessions PROVE [ws[t] EXCEPT !.node = Advance(@, node)] \in Workers
  BY Advanced DEF Workers
<1> QED BY <1>1 DEF MoveWorkers

LEMMA ActiveTyped ==
  ASSUME NEW c
  PROVE  ActiveWorkers(c) \in SUBSET Sessions
BY DEF ActiveWorkers
-------------------------------------------------------------------------------
(* Cards and workstreams.                                                  *)

LEMMA Classified ==
  ASSUME NEW node \in Ranks, NEW state, NEW blocker
  PROVE  Classify(node, state, blocker) \in Cards
BY DEF Classify, Card, Cards, Statuses, Substatuses

LEMMA GuardedTyped ==
  ASSUME NEW c \in Tasks, NEW v \in Cards
  PROVE  Guarded(c, v) \in Cards
<1>1. c.status \in Statuses /\ c.sub \in Substatuses /\ v.status \in Statuses /\ v.sub \in Substatuses
  BY Parts DEF Cards
<1> DEFINE w == IF v.status = "NEW" /\ c.status # "NEW"
                THEN Card(c.status, IF c.sub # "ready" THEN c.sub ELSE "active") ELSE v
<1>2. w \in Cards
  BY <1>1 DEF Card, Cards, Substatuses
<1>3. Card("REVIEW", IF c.sub \in {"pr_review", "in_review", "plan_review"}
                     THEN c.sub ELSE "pr_review") \in Cards
  BY <1>1 DEF Card, Cards, Statuses, Substatuses
<1> QED BY <1>2, <1>3 DEF Guarded

LEMMA ReachTyped ==
  ASSUME NEW c \in Tasks, NEW node \in Ranks, NEW state, NEW told \in BOOLEAN
  PROVE  /\ Reach(c, node, state, told).card \in Cards
         /\ Reach(c, node, state, told).node \in Ranks
         /\ Reach(c, node, state, told).isMerged \in BOOLEAN
<1> DEFINE v == Guarded(c, Classify(node, state, c.sub = "blocked" /\ c.blocker))
           held == Unmerged(c, v) /\ ~told
<1>1. v \in Cards
  BY Classified, GuardedTyped
<1>2. Card("REVIEW", "pr_review") \in Cards
  BY DEF Card, Cards, Statuses, Substatuses
<1>3. 13 \in Ranks
  BY DEF Ranks, NoNode
<1>4. c.isMerged \in BOOLEAN
  BY Parts
<1> HIDE DEF v
<1>5. Reach(c, node, state, told) =
        [card |-> IF held THEN Card("REVIEW", "pr_review") ELSE v,
         node |-> IF held /\ node > 13 THEN 13 ELSE node,
         isMerged |-> c.isMerged \/ (Unmerged(c, v) /\ told)]
  BY DEF Reach, v
<1> HIDE DEF held
<1>6. (c.isMerged \/ (Unmerged(c, v) /\ told)) \in BOOLEAN
  OBVIOUS
<1> QED BY <1>1, <1>2, <1>3, <1>5, <1>6

LEMMA MoveStreamsTyped ==
  ASSUME NEW ss \in [Repos -> Streams], NEW rs, NEW status \in Statuses, NEW node \in Ranks
  PROVE  MoveStreams(ss, rs, status, node) \in [Repos -> Streams]
<1>1. ASSUME NEW r \in Repos
      PROVE  [status |-> IF status = "NEW" /\ ss[r].status \notin {"NEW", "QUEUED"}
                         THEN ss[r].status ELSE status,
              node |-> Advance(ss[r].node, node)] \in Streams
  <2>1. ss[r].status \in Statuses \cup {"QUEUED"} /\ ss[r].node \in 0..15
    BY StreamParts
  <2>2. ss[r].node \in Ranks
    BY <2>1 DEF Ranks, NoNode
  <2>3. Advance(ss[r].node, node) \in 0..15
    BY <2>1, <2>2, Advanced
  <2> QED BY <2>1, <2>3 DEF Streams
<1> QED BY <1>1 DEF MoveStreams

LEMMA MoveTyped ==
  ASSUME NEW c \in Tasks, NEW card \in Cards, NEW rs, NEW node \in Ranks, NEW m \in BOOLEAN
  PROVE  Move(c, card, rs, node, m) \in Tasks
<1>1. PICK ss : ss = MoveStreams(c.streams, rs, card.status, node)
  OBVIOUS
<1>2. PICK d : d = [c EXCEPT !.status = card.status, !.sub = card.sub, !.isMerged = m,
                             !.streams = ss]
  OBVIOUS
<1>3. card.status \in Statuses /\ card.sub \in Substatuses
  BY DEF Cards
<1>4. ss \in [Repos -> Streams]
  BY <1>1, <1>3, Parts, MoveStreamsTyped
<1>5. d \in Tasks
  BY <1>2, <1>3, <1>4 DEF Tasks
<1>6. Move(c, card, rs, node, m) = d
  BY <1>1, <1>2 DEF Move
<1> QED BY <1>5, <1>6

\* The workstreams that Unlock leaves, and those that it starts.
Completed(c, repo) == [r \in Repos |-> IF r = repo THEN [c.streams[r] EXCEPT !.status = "DONE"]
                                       ELSE c.streams[r]]
Starting(ss) == {r \in Repos : /\ ss[r].status \in {"QUEUED", "NEW"} /\ DependsOn[r] # NoRepo
                               /\ ss[DependsOn[r]].status = "DONE"}

LEMMA Unlocking ==
  ASSUME NEW c \in Tasks, NEW repo
  PROVE  /\ Unlock(c, repo) \in Tasks
         /\ Unlock(c, repo).workers = c.workers
         /\ \/ Unlock(c, repo).status = c.status
            \/ /\ c.status = "DONE" /\ Unlock(c, repo).status = "IN_PROGRESS"
               /\ Starting(Completed(c, repo)) # {}
         /\ Unlock(c, repo).streams =
              [r \in Repos |-> IF r \in Starting(Completed(c, repo))
                               THEN [status |-> "IN_PROGRESS", node |-> 0]
                               ELSE Completed(c, repo)[r]]
<1> DEFINE ss == [r \in Repos |-> IF r \in Starting(Completed(c, repo))
                                  THEN [status |-> "IN_PROGRESS", node |-> 0]
                                  ELSE Completed(c, repo)[r]]
<1>1. Completed(c, repo) \in [Repos -> Streams]
  BY Parts DEF Completed, Streams, Statuses
<1>2. ss \in [Repos -> Streams]
  BY <1>1 DEF Streams, Statuses
<1>3. PICK moved : moved = [c EXCEPT !.streams = ss]
  OBVIOUS
<1>4. /\ moved = [status |-> moved.status, sub |-> moved.sub, blocker |-> moved.blocker,
                  pr |-> moved.pr, isMerged |-> moved.isMerged, workers |-> moved.workers,
                  streams |-> moved.streams]
      /\ moved.streams = ss /\ moved.workers = c.workers
      /\ moved.status = c.status /\ moved.sub = c.sub /\ moved.blocker = c.blocker
      /\ moved.pr = c.pr /\ moved.isMerged = c.isMerged
  <2> HIDE DEF ss
  <2> QED BY <1>3, Parts
<1>5. moved \in Tasks
  BY <1>2, <1>4, Parts, Whole
<1>6. PICK d : d = [moved EXCEPT !.status = "IN_PROGRESS", !.sub = "active"]
  OBVIOUS
<1>7. d \in Tasks /\ d.workers = moved.workers /\ d.streams = moved.streams
      /\ d.status = "IN_PROGRESS"
  BY <1>5, <1>6 DEF Tasks, Statuses, Substatuses
<1>8. \/ Unlock(c, repo) = moved
      \/ /\ Unlock(c, repo) = d /\ c.status = "DONE" /\ Starting(Completed(c, repo)) # {}
  BY <1>3, <1>6 DEF Unlock, Starting, Completed
<1> QED BY <1>4, <1>5, <1>7, <1>8
-------------------------------------------------------------------------------
(* What a handler makes of the workstreams ss that it has read.            *)

Waiting == {"QUEUED", "NEW"}

\* No workstream goes back, but for those that start; none is left waiting for one
\* that is completed, unless the task was done.
Onward(ss, tt) ==
  \A r \in Repos : \/ tt[r].node >= ss[r].node
                   \/ /\ ss[r].status \in Waiting /\ tt[r].status = "IN_PROGRESS"
                      /\ DependsOn[r] # NoRepo /\ tt[DependsOn[r]].status = "DONE"
Awake(ss, tt) ==
  \A r \in Repos : (/\ DependsOn[r] # NoRepo /\ ss[DependsOn[r]].status # "DONE"
                    /\ tt[DependsOn[r]].status = "DONE") => tt[r].status # "QUEUED"
Good(c, d) == Onward(c.streams, d.streams)
              /\ (c.status # "DONE" => Awake(c.streams, d.streams))

\* What a card does to them: no node goes back, and none waits that did not.
Ahead(ss, tt) == \A r \in Repos : /\ tt[r].node >= ss[r].node
                                  /\ tt[r].status \in Waiting => ss[r].status \in Waiting
NoneDone(ss, tt) == \A r \in Repos : tt[r].status = "DONE" => ss[r].status = "DONE"

\* News does not take a task back, unless it starts a workstream that waited.
Hold(c, d) ==
  /\ c.status # "NEW" => d.status # "NEW"
  /\ c.status = "REVIEW" /\ d.status = "IN_PROGRESS"
       => \E r \in Repos : c.streams[r].status \in Waiting /\ d.streams[r].status = "IN_PROGRESS"

LEMMA NodesInt ==
  ASSUME NEW ss \in [Repos -> Streams], NEW r \in Repos
  PROVE  ss[r].node \in Int
BY StreamParts

LEMMA Unmoved ==
  ASSUME NEW c \in Tasks, NEW d, d.streams = c.streams
  PROVE  Good(c, d) /\ Ahead(c.streams, d.streams)
BY Parts, NodesInt DEF Good, Onward, Awake, Ahead

LEMMA NobodyDone ==
  ASSUME NEW c, NEW d, NoneDone(c.streams, d.streams),
         \A r \in Repos : d.streams[r].node >= c.streams[r].node
  PROVE  Good(c, d)
BY RepoAssumption DEF Good, Onward, Awake, NoneDone

\* Unlock starts whatever waits for a workstream that is done.
LEMMA Unlocks ==
  ASSUME NEW c \in Tasks, NEW d \in Tasks, NEW repo, Ahead(c.streams, d.streams)
  PROVE  Good(c, Unlock(d, repo))
<1> DEFINE ss == c.streams
           dd == Completed(d, repo)
           tt == Unlock(d, repo).streams
<1>1. tt = [r \in Repos |-> IF r \in Starting(dd) THEN [status |-> "IN_PROGRESS", node |-> 0]
                            ELSE dd[r]]
  BY Unlocking
<1>2. ASSUME NEW r \in Repos
      PROVE  /\ dd[r].node = d.streams[r].node
             /\ dd[r].status \in Waiting => d.streams[r].status \in Waiting
  <2>1. d.streams[r] = [status |-> d.streams[r].status, node |-> d.streams[r].node]
    BY Parts DEF Streams
  <2> QED BY <2>1 DEF Completed, Waiting
<1>3. ASSUME NEW r \in Repos, r \in Starting(dd)
      PROVE  /\ tt[r].status = "IN_PROGRESS" /\ DependsOn[r] \in Repos
             /\ dd[DependsOn[r]].status = "DONE" /\ dd[r].status \in Waiting
  BY <1>1, <1>3, RepoAssumption DEF Starting, Waiting
<1>4. ASSUME NEW r \in Repos, dd[r].status = "DONE"
      PROVE  tt[r].status = "DONE"
  BY <1>1, <1>4 DEF Starting
<1>5. ASSUME NEW r \in Repos, r \notin Starting(dd)
      PROVE  tt[r] = dd[r]
  BY <1>1, <1>5
<1> HIDE DEF tt, dd
<1>6. Onward(ss, tt)
  <2> SUFFICES ASSUME NEW r \in Repos
               PROVE  \/ tt[r].node >= ss[r].node
                      \/ /\ ss[r].status \in Waiting /\ tt[r].status = "IN_PROGRESS"
                         /\ DependsOn[r] # NoRepo /\ tt[DependsOn[r]].status = "DONE"
    BY DEF Onward
  <2>1. CASE r \in Starting(dd)
    <3>1. tt[r].status = "IN_PROGRESS" /\ DependsOn[r] \in Repos
          /\ tt[DependsOn[r]].status = "DONE" /\ DependsOn[r] # NoRepo
      BY <1>3, <1>4, <2>1, RepoAssumption
    <3>2. ss[r].status \in Waiting
      BY <1>2, <1>3, <2>1 DEF Ahead
    <3> QED BY <3>1, <3>2
  <2>2. CASE r \notin Starting(dd)
    BY <1>2, <1>5, <2>2 DEF Ahead
  <2> QED BY <2>1, <2>2
<1>7. ASSUME NEW r \in Repos, DependsOn[r] # NoRepo, tt[DependsOn[r]].status = "DONE"
      PROVE  tt[r].status # "QUEUED"
  <2>1. DependsOn[r] \in Repos
    BY <1>7, RepoAssumption
  <2>2. DependsOn[r] \notin Starting(dd)
    BY <1>3, <1>7, <2>1
  <2>3. dd[DependsOn[r]].status = "DONE"
    BY <1>5, <1>7, <2>1, <2>2
  <2>4. CASE r \in Starting(dd)
    BY <1>3, <2>4
  <2>5. CASE r \notin Starting(dd)
    BY <1>5, <1>7, <2>3, <2>5 DEF Starting
  <2> QED BY <2>4, <2>5
<1> QED BY <1>6, <1>7 DEF Good, Awake, tt

\* ... and takes a task back only for those.
LEMMA UnlockHolds ==
  ASSUME NEW c \in Tasks, NEW d \in Tasks, NEW repo, Ahead(c.streams, d.streams),
         c.status # "NEW" => d.status # "NEW", c.status = "REVIEW" => d.status # "IN_PROGRESS"
  PROVE  Hold(c, Unlock(d, repo))
<1> DEFINE dd == Completed(d, repo)
           u  == Unlock(d, repo)
<1>1. CASE u.status = d.status
  BY <1>1 DEF Hold
<1>2. CASE u.status = "IN_PROGRESS" /\ Starting(dd) # {}
  <2>1. PICK r \in Repos : r \in Starting(dd)
    BY <1>2 DEF Starting
  <2>2. dd[r].status \in Waiting
    BY <2>1 DEF Starting, Waiting
  <2>3. d.streams[r] = [status |-> d.streams[r].status, node |-> d.streams[r].node]
    BY Parts DEF Streams
  <2>4. d.streams[r].status \in Waiting
    BY <2>2, <2>3 DEF Completed, Waiting
  <2>5. u.streams[r].status = "IN_PROGRESS"
    <3>1. u.streams = [q \in Repos |-> IF q \in Starting(dd)
                                       THEN [status |-> "IN_PROGRESS", node |-> 0] ELSE dd[q]]
      BY Unlocking
    <3> HIDE DEF u, dd
    <3> QED BY <2>1, <3>1
  <2> QED BY <1>2, <2>4, <2>5 DEF Hold, Ahead
<1> QED BY <1>1, <1>2, Unlocking

\* A card that the guards have seen is not taken back.
LEMMA GuardedHolds ==
  ASSUME NEW c \in Tasks, NEW v \in Cards
  PROVE  /\ c.status # "NEW" => Guarded(c, v).status # "NEW"
         /\ c.status = "REVIEW" => Guarded(c, v).status # "IN_PROGRESS"
BY DEF Guarded, Card, Cards

LEMMA ReachHolds ==
  ASSUME NEW c \in Tasks, NEW node \in Ranks, NEW state, NEW told
  PROVE  /\ c.status # "NEW" => Reach(c, node, state, told).card.status # "NEW"
         /\ c.status = "REVIEW" => Reach(c, node, state, told).card.status # "IN_PROGRESS"
<1> DEFINE v == Guarded(c, Classify(node, state, c.sub = "blocked" /\ c.blocker))
<1>1. /\ c.status # "NEW" => v.status # "NEW"
      /\ c.status = "REVIEW" => v.status # "IN_PROGRESS"
  BY Classified, GuardedHolds
<1>2. Reach(c, node, state, told).card \in {Card("REVIEW", "pr_review"), v}
  BY DEF Reach
<1> HIDE DEF v
<1> QED BY <1>1, <1>2 DEF Card

\* A card moves the workstreams forward, and completes some only when it is done.
LEMMA MovesAhead ==
  ASSUME NEW c \in Tasks, NEW card \in Cards, NEW rs, NEW node \in Ranks, NEW m
  PROVE  /\ Ahead(c.streams, Move(c, card, rs, node, m).streams)
         /\ Move(c, card, rs, node, m).status = card.status
         /\ card.status # "DONE" => NoneDone(c.streams, Move(c, card, rs, node, m).streams)
<1> DEFINE ss == c.streams
           tt == Move(c, card, rs, node, m).streams
<1>1. tt = MoveStreams(ss, rs, card.status, node)
  <2>1. PICK uu : uu = MoveStreams(ss, rs, card.status, node)
    OBVIOUS
  <2>2. [c EXCEPT !.status = card.status, !.sub = card.sub, !.isMerged = m,
                  !.streams = uu].streams = uu
    BY Parts
  <2> QED BY <2>1, <2>2 DEF Move
<1>2. card.status \in Statuses
  BY DEF Cards
<1>3. ASSUME NEW r \in Repos
      PROVE  /\ tt[r].node >= ss[r].node
             /\ tt[r].status \in Waiting => ss[r].status \in Waiting
             /\ card.status # "DONE" /\ tt[r].status = "DONE" => ss[r].status = "DONE"
  <2>1. ss[r].node \in Ranks /\ ss[r].node \in Int
    BY Parts, StreamParts DEF Ranks, NoNode
  <2>2. CASE r \notin rs
    <3>1. tt[r] = ss[r]
      BY <1>1, <2>2 DEF MoveStreams
    <3> QED BY <2>1, <3>1
  <2>3. CASE r \in rs
    <3>1. tt[r] = [status |-> IF card.status = "NEW" /\ ss[r].status \notin {"NEW", "QUEUED"}
                              THEN ss[r].status ELSE card.status,
                   node |-> Advance(ss[r].node, node)]
      BY <1>1, <2>3 DEF MoveStreams
    <3>2. Advance(ss[r].node, node) >= ss[r].node
      BY <2>1, Advanced
    <3>3. tt[r].node >= ss[r].node
      BY <3>1, <3>2
    <3> QED BY <1>2, <3>1, <3>3 DEF Waiting, Statuses
  <2> QED BY <2>2, <2>3
<1>4. Move(c, card, rs, node, m).status = card.status
  <2>1. PICK uu : uu = MoveStreams(ss, rs, card.status, node)
    OBVIOUS
  <2>2. [c EXCEPT !.status = card.status, !.sub = card.sub, !.isMerged = m,
                  !.streams = uu].status = card.status
    BY Parts
  <2> QED BY <2>1, <2>2 DEF Move
<1> QED BY <1>3, <1>4 DEF Ahead, NoneDone

LEMMA MoveOnly ==
  ASSUME NEW c \in Tasks, NEW card \in Cards, NEW rs, NEW node \in Ranks, NEW m,
         card.status # "DONE"
  PROVE  Good(c, Move(c, card, rs, node, m))
BY MovesAhead, NobodyDone DEF Ahead
-------------------------------------------------------------------------------
(* What the handlers write.                                                *)

LEMMA OutcomeTyped ==
  ASSUME NEW c \in Tasks, NEW closed \in SUBSET Sessions
  PROVE  /\ Outcome(c, closed) \in Outcomes /\ News(Outcome(c, closed)) \in Outcomes
         /\ Outcome(c, closed).task = c /\ News(Outcome(c, closed)).task = c
BY DEF Outcome, News, Outcomes

\* Other workers, and the same workstreams.
LEMMA OtherWorkers ==
  ASSUME NEW c \in Tasks, NEW ws \in [Sessions -> Workers]
  PROVE  /\ [c EXCEPT !.workers = ws] \in Tasks
         /\ [c EXCEPT !.workers = ws].streams = c.streams
         /\ [c EXCEPT !.workers = ws].status = c.status
         /\ [c EXCEPT !.workers = ws].workers = ws
BY DEF Tasks

LEMMA CloseAllTyped ==
  ASSUME NEW b \in Tasks, NEW c \in Tasks, Good(b, c)
  PROVE  /\ CloseAll(c) \in Outcomes /\ News(CloseAll(c)) \in Outcomes
         /\ Good(b, CloseAll(c).task) /\ Good(b, News(CloseAll(c)).task)
         /\ Hold(b, c) => Hold(b, News(CloseAll(c)).task)
<1>1. PICK ws \in [Sessions -> Workers] : ws = Deactivated(c.workers)
  BY Parts, DeactivatedTyped
<1>2. PICK d \in Tasks : d = [c EXCEPT !.workers = ws] /\ d.streams = c.streams
                         /\ d.status = c.status
  BY OtherWorkers
<1>3. CloseAll(c) = Outcome(d, ActiveWorkers(c))
  BY <1>1, <1>2 DEF CloseAll
<1>4. Good(b, d) /\ (Hold(b, c) => Hold(b, d))
  BY <1>2 DEF Good, Hold
<1> QED BY <1>3, <1>4, ActiveTyped, OutcomeTyped

Sess == [Sessions -> {"none", "resting", "Working"}]

\* A handler wrote o, or has it still to write.
Result(c, o, sess) == /\ c \in Tasks /\ c.streams = task.streams
                      /\ o \in Outcomes /\ Good(task, o.task)
                      /\ sess \in Sess
Kept == \A c \in Made : Good(task, c)

LEMMA Handled ==
  ASSUME TypeOK, NEW kind, NEW c, NEW o, NEW sess, Handle(kind, c, o, sess), Result(c, o, sess),
         merged' \subseteq PullRequests
  PROVE  TypeOK' /\ Kept
<1>1. /\ o.task \in Tasks /\ o.closed \in SUBSET Sessions
      /\ task \in Tasks /\ Good(task, c)
  BY Unmoved DEF Result, Outcomes, TypeOK
<1>2. CASE Write(o, sess) /\ UNCHANGED jobs
  <2>1. PICK ws \in [Sessions -> Workers] :
          ws = IF o.task.workers = NoWorkers THEN task.workers ELSE o.task.workers
    BY <1>1, Parts
  <2>2. task' = [o.task EXCEPT !.workers = ws]
    BY <1>1, <1>2, <2>1 DEF Write
  <2>3. task' \in Tasks /\ task'.streams = o.task.streams
    BY <1>1, <2>2, OtherWorkers
  <2>4. session' \in Sess
    BY <1>2 DEF Write, Result, Sess
  <2>5. deleted' = FALSE /\ jobs' = jobs /\ handled' \in 0..MaxHandled
    BY <1>2, NodeAssumption DEF TypeOK, Write, Handle
  <2>6. TypeOK'
    BY <2>3, <2>4, <2>5 DEF TypeOK, Sess
  <2>7. Made = {task'}
    BY <1>2 DEF Made
  <2> QED BY <2>3, <2>6, <2>7 DEF Kept, Good, Result
<1>3. CASE jobs' = jobs \cup {o} /\ task' = c /\ session' = sess /\ UNCHANGED deleted
  <2>1. TypeOK'
    BY <1>3, NodeAssumption DEF TypeOK, Handle, Result, Sess
  <2>2. Made \subseteq {c, o.task}
    BY <1>3 DEF Made
  <2> QED BY <1>1, <2>1, <2>2 DEF Kept, Result
<1> QED BY <1>2, <1>3 DEF Handle
\* The task that a step leaves holds, when what the handler writes does.
LEMMA Holding ==
  ASSUME TypeOK, NEW kind, NEW c, NEW o \in Outcomes, NEW sess, Handle(kind, c, o, sess),
         c.status = task.status, Hold(task, o.task)
  PROVE  Hold(task, task')
<1>1. CASE task' = c
  BY <1>1 DEF Hold
<1>2. CASE Write(o, sess)
  <2>1. o.task \in Tasks /\ task \in Tasks
    BY DEF Outcomes, TypeOK
  <2>2. PICK ws \in [Sessions -> Workers] :
          ws = IF o.task.workers = NoWorkers THEN task.workers ELSE o.task.workers
    BY <2>1, Parts
  <2>3. task' = [o.task EXCEPT !.workers = ws]
    BY <1>2, <2>2 DEF Write
  <2>4. task'.status = o.task.status /\ task'.streams = o.task.streams
    BY <2>1, <2>3, OtherWorkers
  <2> QED BY <2>4 DEF Hold
<1> QED BY <1>1, <1>2 DEF Handle
-------------------------------------------------------------------------------
(* The handlers.                                                           *)

\* A stream that starts, or goes on, where it is.
LEMMA StartedStreams ==
  ASSUME NEW ss \in [Repos -> Streams], NEW rs, NEW tt,
         tt = [r \in Repos |-> IF r \in rs /\ ss[r].status = "NEW"
                               THEN [ss[r] EXCEPT !.status = "IN_PROGRESS"] ELSE ss[r]]
  PROVE  /\ tt \in [Repos -> Streams] /\ NoneDone(ss, tt)
         /\ \A r \in Repos : tt[r].node >= ss[r].node
<1>1. ASSUME NEW r \in Repos
      PROVE  /\ tt[r] \in Streams /\ tt[r].node >= ss[r].node
             /\ tt[r].status = "DONE" => ss[r].status = "DONE"
  <2>1. ss[r] \in Streams /\ ss[r].node \in 0..15
    BY StreamParts
  <2>2. [ss[r] EXCEPT !.status = "IN_PROGRESS"] \in Streams
        /\ [ss[r] EXCEPT !.status = "IN_PROGRESS"].node = ss[r].node
        /\ [ss[r] EXCEPT !.status = "IN_PROGRESS"].status = "IN_PROGRESS"
    BY <2>1 DEF Streams, Statuses
  <2> QED BY <2>1, <2>2
<1>2. tt \in [Repos -> Streams]
  BY <1>1
<1> QED BY <1>1, <1>2 DEF NoneDone

LEMMA SpawnStep ==
  ASSUME TypeOK, NEW s \in Sessions, NEW repo \in Paths, Spawn(s, repo)
  PROVE  TypeOK' /\ Kept
<1>1. task \in Tasks
  BY DEF TypeOK
<1>2. 0 \in Ranks
  BY DEF Ranks, NoNode
<1>3. PICK ws \in [Sessions -> Workers] :
        ws = InsertWorker(task.workers, [who |-> s, active |-> TRUE, repo |-> repo, node |-> 0])
  BY <1>1, <1>2, Parts, InsertTyped
<1>4. PICK c \in Tasks : c = [task EXCEPT !.workers = ws] /\ c.streams = task.streams
                         /\ c.status = task.status
  BY <1>1, OtherWorkers
<1>5. PICK ss : ss = [r \in Repos |-> IF r \in Meant(repo) /\ c.streams[r].status = "NEW"
                                     THEN [c.streams[r] EXCEPT !.status = "IN_PROGRESS"]
                                     ELSE c.streams[r]]
  OBVIOUS
<1>6. /\ ss \in [Repos -> Streams] /\ NoneDone(c.streams, ss)
      /\ \A r \in Repos : ss[r].node >= c.streams[r].node
  BY <1>5, Parts, StartedStreams
<1>7. PICK d : d = [c EXCEPT !.status = IF @ = "NEW" THEN "IN_PROGRESS" ELSE @,
                             !.sub = IF c.status = "NEW" /\ @ = "ready" THEN "active" ELSE @,
                             !.streams = ss]
  OBVIOUS
<1>8. d \in Tasks /\ d.streams = ss
  BY <1>6, <1>7 DEF Tasks, Statuses, Substatuses
<1>9. Good(task, d)
  BY <1>4, <1>6, <1>8, NobodyDone
<1>10. PICK sess : sess = [session EXCEPT ![s] = "resting"]
  OBVIOUS
<1>11. sess \in Sess
  BY <1>10 DEF TypeOK, Sess
<1>12. Handle("spawn", c, Outcome(d, {}), sess) /\ merged' = merged
  BY <1>3, <1>4, <1>5, <1>7, <1>10 DEF Spawn
<1>13. Result(c, Outcome(d, {}), sess)
  BY <1>4, <1>8, <1>9, <1>11, OutcomeTyped DEF Result, Sess
<1> QED BY <1>12, <1>13, Handled DEF TypeOK

LEMMA NodeOfTyped ==
  ASSUME NEW c \in Tasks, NEW s \in Sessions, NEW repo \in Paths
  PROVE  NodeOf(c, s, repo) \in Ranks
<1> DEFINE S == {c.workers[s].node} \cup {c.streams[r].node : r \in Meant(repo)}
<1>1. c.workers[s].node \in Ranks
  BY Parts, WorkerParts
<1>2. ASSUME NEW r \in Meant(repo), repo = NoRepo \/ repo \in Repos
      PROVE  c.streams[r].node \in Ranks
  <2>1. r \in Repos
    BY <1>2 DEF Meant
  <2> QED BY <2>1, Parts, StreamParts DEF Ranks, NoNode
<1>3. S \in SUBSET Ranks /\ S # {}
  BY <1>1, <1>2 DEF Paths
<1> HIDE DEF S
<1>4. Max(S) \in Ranks
  BY <1>3, Greatest
<1> QED BY <1>4 DEF NodeOf, S

\* A hook of an idle session takes the task as far as its worker has come.
LEMMA IdleStep ==
  ASSUME NEW c \in Tasks, NEW s \in Sessions, NEW repo, NEW node \in Ranks, NEW told \in BOOLEAN
  PROVE  /\ News(AtIdle(c, s, repo, node, told)) \in Outcomes
         /\ Good(c, News(AtIdle(c, s, repo, node, told)).task)
         /\ Hold(c, News(AtIdle(c, s, repo, node, told)).task)
<1>1. PICK to : to = Reach(c, node, "Idle", told)
  OBVIOUS
<1>2. to.card \in Cards /\ to.node \in Ranks /\ to.isMerged \in BOOLEAN
  BY <1>1, ReachTyped
<1>3. PICK moved : moved = Move(c, to.card, Meant(repo), to.node, to.isMerged)
  OBVIOUS
<1>4. /\ moved \in Tasks /\ Ahead(c.streams, moved.streams)
      /\ to.card.status # "DONE" => Good(c, moved)
      /\ moved.status = to.card.status
  BY <1>2, <1>3, MoveTyped, MovesAhead, MoveOnly
<1>5. /\ c.status # "NEW" => moved.status # "NEW"
      /\ c.status = "REVIEW" => moved.status # "IN_PROGRESS"
  BY <1>1, <1>4, ReachHolds
<1>6. PICK done : done = IF to.card.status = "DONE" THEN Unlock(moved, repo) ELSE moved
  OBVIOUS
<1>7. done \in Tasks /\ Good(c, done) /\ Hold(c, done)
  <2>1. CASE to.card.status = "DONE"
    BY <1>4, <1>5, <1>6, <2>1, Unlocking, Unlocks, UnlockHolds
  <2>2. CASE to.card.status # "DONE"
    BY <1>4, <1>5, <1>6, <2>2 DEF Hold
  <2> QED BY <2>1, <2>2
<1>8. PICK ws \in [Sessions -> Workers] : ws = Deactivated(done.workers)
  BY <1>7, Parts, DeactivatedTyped
<1>9. PICK freed \in Tasks : freed = [done EXCEPT !.workers = ws] /\ freed.streams = done.streams
                             /\ freed.status = done.status
  BY <1>7, OtherWorkers
<1>10. Good(c, freed) /\ Hold(c, freed)
  BY <1>7, <1>9 DEF Good, Hold
<1>11. \/ AtIdle(c, s, repo, node, told) = Outcome(freed, {s})
       \/ AtIdle(c, s, repo, node, told) = Outcome(done, {})
  BY <1>1, <1>3, <1>6, <1>8, <1>9 DEF AtIdle
<1> QED BY <1>7, <1>9, <1>10, <1>11, OutcomeTyped

LEMMA SyncStep ==
  ASSUME NEW c \in Tasks, NEW s \in Sessions, NEW state, NEW repo, NEW told \in BOOLEAN
  PROVE  /\ Synced(c, s, state, repo, told) \in Outcomes
         /\ Good(c, Synced(c, s, state, repo, told).task)
         /\ state = "Idle" => Hold(c, Synced(c, s, state, repo, told).task)
<1>1. AtEnd(c) \in Tasks /\ AtEnd(c).streams = c.streams
  BY DEF AtEnd, Tasks, Substatuses
<1>2. PICK b : b = [c EXCEPT !.sub = "blocked", !.blocker = TRUE]
  OBVIOUS
<1>3. b \in Tasks /\ b.streams = c.streams
  BY <1>2 DEF Tasks, Substatuses
<1>4. AtWork(c, repo) \in Tasks /\ Good(c, AtWork(c, repo))
  <2>1. PICK ss : ss = [r \in Repos |-> IF r \in Meant(repo) /\ c.streams[r].status = "NEW"
                                       THEN [c.streams[r] EXCEPT !.status = "IN_PROGRESS"]
                                       ELSE c.streams[r]]
    OBVIOUS
  <2>2. /\ ss \in [Repos -> Streams] /\ NoneDone(c.streams, ss)
        /\ \A r \in Repos : ss[r].node >= c.streams[r].node
    BY <2>1, Parts, StartedStreams
  <2>3. PICK d : d = [c EXCEPT !.status = "IN_PROGRESS", !.sub = "active", !.blocker = FALSE,
                               !.streams = ss]
    OBVIOUS
  <2>4. d \in Tasks /\ d.streams = ss
    BY <2>2, <2>3 DEF Tasks, Statuses, Substatuses
  <2>5. Good(c, d)
    BY <2>2, <2>4, NobodyDone
  <2>6. AtWork(c, repo) \in {c, d}
    BY <2>1, <2>3 DEF AtWork
  <2> QED BY <2>4, <2>5, <2>6, Unmoved
<1>5. c.workers[s].node \in Ranks
  BY Parts, WorkerParts
<1>6. /\ News(AtIdle(c, s, repo, c.workers[s].node, told)) \in Outcomes
      /\ Good(c, News(AtIdle(c, s, repo, c.workers[s].node, told)).task)
      /\ Hold(c, News(AtIdle(c, s, repo, c.workers[s].node, told)).task)
  BY <1>5, IdleStep
<1> DEFINE y == Synced(c, s, state, repo, told)
<1>7. \/ y = Outcome(AtEnd(c), {}) \/ y = Outcome(b, {}) \/ y = Outcome(AtWork(c, repo), {})
      \/ y = News(AtIdle(c, s, repo, c.workers[s].node, told))
  BY <1>2 DEF Synced
<1>8. state = "Idle" => y = News(AtIdle(c, s, repo, c.workers[s].node, told))
  BY DEF Synced
<1> HIDE DEF y
<1>9. ASSUME NEW d \in Tasks, Good(c, d), y = Outcome(d, {})
      PROVE  y \in Outcomes /\ Good(c, y.task)
  BY <1>9, OutcomeTyped
<1>10. Good(c, AtEnd(c)) /\ Good(c, b)
  BY <1>1, <1>3, Unmoved
<1>11. y \in Outcomes /\ Good(c, y.task)
  BY <1>1, <1>3, <1>4, <1>6, <1>7, <1>9, <1>10
<1>12. state = "Idle" => Hold(c, y.task)
  BY <1>6, <1>8
<1> QED BY <1>11, <1>12 DEF y

LEMMA ToldTyped ==
  ASSUME NEW c, NEW told \in Told(c)
  PROVE  told \in BOOLEAN
<1>1. (c.pr \in merged) \in BOOLEAN
  OBVIOUS
<1>2. told = FALSE \/ told = (c.pr \in merged)
  BY DEF Told
<1> QED BY <1>1, <1>2

LEMMA HookStep ==
  ASSUME TypeOK, NEW s \in Sessions, NEW state, Hook(s, state)
  PROVE  TypeOK' /\ Kept /\ (state = "Idle" => Hold(task, task'))
<1>1. PICK sess : sess = [session EXCEPT ![s] = IF state = "Working" THEN "Working" ELSE "resting"]
  OBVIOUS
<1>2. sess \in Sess
  BY <1>1 DEF TypeOK, Sess
<1>3. task \in Tasks
  BY DEF TypeOK
<1>4. ASSUME NEW repo \in ReposOf(task, s), NEW told \in Told(task), merged' = merged,
             Handle("hook", Joined(task, s, state, repo),
                    Synced(Joined(task, s, state, repo), s, state, repo, told), sess)
      PROVE  TypeOK' /\ Kept /\ (state = "Idle" => Hold(task, task'))
  <2>1. repo \in Paths /\ told \in BOOLEAN
    <3>1. task.workers[s].repo \in Paths
      BY <1>3, Parts, WorkerParts
    <3>2. repo \in Paths
      BY <3>1 DEF ReposOf, Paths
    <3>3. told \in BOOLEAN
      BY ToldTyped
    <3> QED BY <3>2, <3>3
  <2>2. PICK node \in Ranks : node = NodeOf(task, s, repo)
    BY <1>3, <2>1, NodeOfTyped
  <2>3. PICK active \in BOOLEAN : active = (state # "Ended")
    OBVIOUS
  <2>4. PICK ws \in [Sessions -> Workers] :
          ws = InsertWorker(task.workers, [who |-> s, active |-> active, repo |-> repo,
                                           node |-> node])
    BY <1>3, <2>1, Parts, InsertTyped
  <2>5. PICK c \in Tasks : c = [task EXCEPT !.workers = ws] /\ c.streams = task.streams
                           /\ c.status = task.status
    BY <1>3, OtherWorkers
  <2>6. c = Joined(task, s, state, repo)
    BY <2>2, <2>3, <2>4, <2>5 DEF Joined
  <2>7. PICK o : o = Synced(c, s, state, repo, told)
    OBVIOUS
  <2>8. o \in Outcomes /\ Good(c, o.task) /\ (state = "Idle" => Hold(c, o.task))
    BY <2>1, <2>7, SyncStep
  <2>9. Result(c, o, sess)
    BY <1>2, <2>5, <2>8 DEF Result, Good
  <2>10. state = "Idle" => Hold(task, o.task)
    BY <2>5, <2>8 DEF Hold
  <2>11. TypeOK' /\ Kept
    BY <1>4, <2>6, <2>7, <2>9, Handled DEF TypeOK
  <2>12. state = "Idle" => Hold(task, task')
    BY <1>4, <2>5, <2>6, <2>7, <2>8, <2>10, Holding
  <2> QED BY <2>11, <2>12
<1>5. CASE Bound(s)
  BY <1>1, <1>4, <1>5 DEF Hook
<1>6. CASE ~Bound(s)
  <2>1. session' = sess /\ UNCHANGED <<task, deleted, merged, jobs, handled>>
    BY <1>1, <1>6 DEF Hook
  <2>2. TypeOK'
    BY <1>2, <2>1 DEF TypeOK, Sess
  <2>3. Made = {task'}
    BY <2>1 DEF Made
  <2> QED BY <1>3, <2>1, <2>2, <2>3, Unmoved DEF Kept, Hold
<1> QED BY <1>5, <1>6

LEMMA ShippedTyped ==
  ASSUME NEW c \in Tasks, NEW s \in Sessions
  PROVE  Shipped(c, s) \in Tasks /\ Good(c, Shipped(c, s))
<1>1. 11 \in Ranks
  BY DEF Ranks, NoNode
<1>2. PICK ws \in [Sessions -> Workers] :
        ws = MoveWorkers(c.workers, {s} \cup ActiveWorkers(c), 11)
  BY <1>1, Parts, MoveWorkersTyped
<1>3. PICK ss : ss = [r \in Repos |->
               IF (c.streams[r].status = "IN_PROGRESS" \/ Cardinality(Repos) = 1)
                  /\ c.streams[r].node < 11
               THEN [status |-> "REVIEW", node |-> 11] ELSE c.streams[r]]
  OBVIOUS
<1>4. ASSUME NEW r \in Repos
      PROVE  /\ ss[r] \in Streams /\ ss[r].node >= c.streams[r].node
             /\ ss[r].status = "DONE" => c.streams[r].status = "DONE"
  <2>1. c.streams[r] \in Streams /\ c.streams[r].node \in 0..15
    BY Parts, StreamParts
  <2>2. CASE ss[r] = [status |-> "REVIEW", node |-> 11] /\ c.streams[r].node < 11
    <3>1. ss[r] \in Streams
      BY <2>2 DEF Streams, Statuses
    <3> QED BY <2>1, <2>2, <3>1
  <2>3. CASE ss[r] = c.streams[r]
    BY <2>1, <2>3
  <2> QED BY <1>3, <2>2, <2>3
<1>5. ss \in [Repos -> Streams]
  BY <1>3, <1>4
<1>6. PICK d : d = [c EXCEPT !.status = "REVIEW", !.sub = "pr_review", !.workers = ws,
                             !.streams = ss]
  OBVIOUS
<1>7. d \in Tasks /\ d.streams = ss
  BY <1>5, <1>6 DEF Tasks, Statuses, Substatuses
<1>8. Good(c, d)
  BY <1>4, <1>7, NobodyDone DEF NoneDone
<1>9. Shipped(c, s) = d
  BY <1>2, <1>3, <1>6 DEF Shipped
<1> QED BY <1>7, <1>8, <1>9

LEMMA WithPRTyped ==
  ASSUME NEW c \in Tasks, NEW pr \in URLs
  PROVE  WithPR(c, pr) \in Tasks /\ WithPR(c, pr).streams = c.streams
         /\ WithPR(c, pr).status = c.status
<1>1. PICK p \in URLs : p = IF pr = NoPR THEN c.pr ELSE pr
  BY Parts
<1>2. WithPR(c, pr) = [c EXCEPT !.pr = p]
  BY <1>1, Parts DEF WithPR
<1> QED BY <1>1, <1>2 DEF Tasks, URLs

\* A handler that changes a copy of the row, and other workers and sessions at most.
LEMMA Straight ==
  ASSUME TypeOK, NEW kind, NEW o, Handle(kind, task, o, session),
         o \in Outcomes, Good(task, o.task), merged' \subseteq PullRequests
  PROVE  TypeOK' /\ Kept /\ (Hold(task, o.task) => Hold(task, task'))
<1>1. Result(task, o, session)
  BY DEF Result, TypeOK, Sess
<1> QED BY <1>1, Handled, Holding

LEMMA TelemetryStep ==
  ASSUME TypeOK, NEW s \in Sessions, NEW pr \in URLs, Telemetry(s, pr)
  PROVE  TypeOK' /\ Kept
<1>1. PICK c \in Tasks : c = WithPR(task, pr) /\ c.streams = task.streams
                         /\ c.status = task.status
  BY WithPRTyped DEF TypeOK
<1>2. Shipped(c, s) \in Tasks /\ Good(task, Shipped(c, s))
  BY <1>1, ShippedTyped DEF Good
<1>3. Handle("hook", task, Outcome(Shipped(c, s), {}), session) /\ merged' = merged
  BY <1>1 DEF Telemetry
<1> QED BY <1>2, <1>3, OutcomeTyped, Straight DEF TypeOK

LEMMA ReportStep ==
  ASSUME TypeOK, NEW node \in 0..15, NEW target, NEW from, ReportNode(node, target, from)
  PROVE  TypeOK' /\ Kept /\ Hold(task, task')
<1> DEFINE some  == {s \in from : SameOrEmpty(task.workers[s].repo, target)}
           card(d)  == Guarded(d, Classify(node, SessionState(d), d.sub = "blocked" /\ d.blocker))
<1>1. task \in Tasks /\ node \in Ranks
  BY DEF TypeOK, Ranks, NoNode
<1>2. PICK ws \in [Sessions -> Workers] : ws = MoveWorkers(task.workers, some, node)
  BY <1>1, Parts, MoveWorkersTyped
<1>3. PICK d \in Tasks : d = [task EXCEPT !.workers = ws] /\ d.streams = task.streams
                         /\ d.status = task.status
  BY <1>1, OtherWorkers
<1>4. PICK v \in Cards : v = card(d)
  BY <1>1, Classified, GuardedTyped
<1>5. v.status = "DONE" => node \in {14, 15} \/ d.status = "DONE"
  BY <1>4 DEF Guarded, Classify, Card
<1>6. PICK moved : moved = Move(d, v, {target}, node, d.isMerged)
  OBVIOUS
<1>7. /\ moved \in Tasks /\ Ahead(d.streams, moved.streams)
      /\ v.status # "DONE" => NoneDone(d.streams, moved.streams)
      /\ moved.status = v.status
  BY <1>1, <1>6, Parts, MoveTyped, MovesAhead
<1>8. PICK after : after = IF node \in {14, 15} THEN Unlock(moved, target) ELSE moved
  OBVIOUS
<1>9. after \in Tasks /\ Good(d, after)
  <2>1. CASE node \in {14, 15}
    BY <1>7, <1>8, <2>1, Unlocking, Unlocks
  <2>2. CASE node \notin {14, 15} /\ d.status # "DONE"
    BY <1>5, <1>7, <1>8, <2>2, NobodyDone DEF Ahead
  <2>3. CASE node \notin {14, 15} /\ d.status = "DONE"
    BY <1>7, <1>8, <2>3 DEF Good, Onward, Ahead
  <2> QED BY <2>1, <2>2, <2>3
<1>10. /\ d.status # "NEW" => moved.status # "NEW"
       /\ d.status = "REVIEW" => moved.status # "IN_PROGRESS"
  BY <1>1, <1>4, <1>7, Classified, GuardedHolds
<1>11. Hold(d, after)
  <2>1. CASE node \in {14, 15}
    BY <1>7, <1>8, <1>10, <2>1, UnlockHolds
  <2>2. CASE node \notin {14, 15}
    BY <1>8, <1>10, <2>2 DEF Hold
  <2> QED BY <2>1, <2>2
<1>12. Good(task, after) /\ Hold(task, after)
  BY <1>3, <1>9, <1>11 DEF Good, Hold
<1>13. PICK o : o = News(IF node = 15 THEN CloseAll(after) ELSE Outcome(after, {}))
  OBVIOUS
<1>14. o \in Outcomes /\ Good(task, o.task) /\ Hold(task, o.task)
  <2>1. CASE node = 15
    BY <1>1, <1>9, <1>12, <1>13, <2>1, CloseAllTyped
  <2>2. CASE node # 15
    BY <1>9, <1>12, <1>13, <2>2, OutcomeTyped
  <2> QED BY <2>1, <2>2
<1>15. Handle("report", task, o, session) /\ merged' = merged
  BY <1>2, <1>3, <1>4, <1>6, <1>8, <1>13 DEF ReportNode
<1> QED BY <1>14, <1>15, Straight DEF TypeOK

LEMMA StatusStep ==
  ASSUME TypeOK, NEW status \in Statuses, NEW repo, SetStatus(status, repo)
  PROVE  TypeOK' /\ Kept
<1>1. task \in Tasks
  BY DEF TypeOK
<1>2. PICK rs : rs = IF status = "DONE" \/ (repo = NoRepo /\ Cardinality(Repos) = 1) THEN Repos
                     ELSE {repo} \ {NoRepo}
  OBVIOUS
<1>3. PICK ss : ss = [r \in Repos |-> IF r \in rs THEN [task.streams[r] EXCEPT !.status = status]
                                      ELSE task.streams[r]]
  OBVIOUS
<1>4. ASSUME NEW r \in Repos
      PROVE  /\ ss[r] \in Streams /\ ss[r].node >= task.streams[r].node
             /\ ss[r].status = IF r \in rs THEN status ELSE task.streams[r].status
  <2>1. task.streams[r] \in Streams /\ task.streams[r].node \in 0..15
    BY <1>1, Parts, StreamParts
  <2>2. [task.streams[r] EXCEPT !.status = status] \in Streams
        /\ [task.streams[r] EXCEPT !.status = status].node = task.streams[r].node
        /\ [task.streams[r] EXCEPT !.status = status].status = status
    BY <2>1 DEF Streams, Statuses
  <2> QED BY <1>3, <2>1, <2>2
<1>5. PICK ws \in [Sessions -> Workers] :
        ws = IF status = "DONE" THEN Deactivated(task.workers) ELSE task.workers
  BY <1>1, Parts, DeactivatedTyped
<1>6. Normalized(status, task.sub) \in Substatuses
  BY <1>1, Parts DEF Normalized, Substatuses
<1>7. PICK sub \in Substatuses : sub = Normalized(status, task.sub)
  BY <1>6
<1>8. PICK b \in BOOLEAN : b = (task.blocker /\ status # "DONE")
  OBVIOUS
<1>9. PICK c : c = [task EXCEPT !.status = status, !.sub = sub, !.blocker = b, !.workers = ws,
                                !.streams = ss]
  OBVIOUS
<1>10. c \in Tasks /\ c.streams = ss
  <2>1. ss \in [Repos -> Streams]
    BY <1>3, <1>4
  <2> QED BY <1>1, <1>9, <2>1 DEF Tasks
<1>11. Good(task, c)
  <2>1. CASE status = "DONE"
    <3>1. \A r \in Repos : ss[r].status = "DONE"
      BY <1>2, <1>4, <2>1
    <3> QED BY <1>4, <1>10, <3>1 DEF Good, Onward, Awake
  <2>2. CASE status # "DONE"
    <3>1. NoneDone(task.streams, c.streams)
      BY <1>4, <1>10, <2>2 DEF NoneDone
    <3> QED BY <1>4, <1>10, <3>1, NobodyDone
  <2> QED BY <2>1, <2>2
<1>12. Handle("board", task, Outcome(c, {}), session) /\ merged' = merged
  BY <1>2, <1>3, <1>5, <1>7, <1>8, <1>9 DEF SetStatus
<1> QED BY <1>10, <1>11, <1>12, OutcomeTyped, Straight DEF TypeOK

LEMMA BlockerStep ==
  ASSUME TypeOK, NEW yes \in BOOLEAN, SetBlocker(yes)
  PROVE  TypeOK' /\ Kept
<1>1. task \in Tasks
  BY DEF TypeOK
<1>2. PICK c : c = [task EXCEPT !.sub = IF yes THEN "blocked" ELSE "active", !.blocker = yes]
  OBVIOUS
<1>3. c \in Tasks /\ c.streams = task.streams
  BY <1>1, <1>2 DEF Tasks, Substatuses
<1>4. Handle("board", task, Outcome(c, {}), session) /\ merged' = merged
  BY <1>2 DEF SetBlocker
<1> QED BY <1>1, <1>3, <1>4, Unmoved, OutcomeTyped, Straight DEF TypeOK

LEMMA PRStep ==
  ASSUME TypeOK, NEW pr \in URLs, SetPR(pr)
  PROVE  TypeOK' /\ Kept
<1>1. task \in Tasks
  BY DEF TypeOK
<1>2. PICK c : c = [task EXCEPT !.pr = NoPR, !.isMerged = FALSE]
  OBVIOUS
<1>3. c \in Tasks /\ c.streams = task.streams
  BY <1>1, <1>2 DEF Tasks
<1>4. PICK d : d = IF pr # NoPR THEN WithPR(task, pr) ELSE c
  OBVIOUS
<1>5. d \in Tasks /\ d.streams = task.streams
  BY <1>1, <1>3, <1>4, WithPRTyped
<1>6. Handle("board", task, Outcome(d, {}), session) /\ merged' = merged
  BY <1>2, <1>4 DEF SetPR
<1> QED BY <1>1, <1>5, <1>6, Unmoved, OutcomeTyped, Straight DEF TypeOK

LEMMA EventStep ==
  ASSUME TypeOK, NEW pr \in PullRequests, TaskEvent(pr)
  PROVE  TypeOK' /\ Kept
<1>1. task \in Tasks
  BY DEF TypeOK
<1>2. PICK c : c = [task EXCEPT !.pr = pr, !.isMerged = FALSE,
                        !.sub = IF task.status = "IN_PROGRESS" THEN "in_review" ELSE @,
                        !.status = IF @ = "IN_PROGRESS" THEN "REVIEW" ELSE @]
  OBVIOUS
<1>3. c \in Tasks /\ c.streams = task.streams
  BY <1>1, <1>2 DEF Tasks, Statuses, Substatuses
<1>4. Handle("board", task, Outcome(c, {}), session) /\ merged' = merged
  BY <1>2 DEF TaskEvent
<1> QED BY <1>1, <1>3, <1>4, Unmoved, OutcomeTyped, Straight DEF TypeOK

\* What a workflow file makes of a copy.
LEMMA IngestTyped ==
  ASSUME NEW c \in Tasks, NEW node \in 0..15, NEW repo \in Paths, NEW told \in BOOLEAN
  PROVE  /\ News(Ingest(c, node, repo, told)) \in Outcomes
         /\ Good(c, News(Ingest(c, node, repo, told)).task)
         /\ Hold(c, News(Ingest(c, node, repo, told)).task)
<1> DEFINE S == {node} \cup {c.workers[s].node : s \in ActiveWorkers(c)}
                       \cup {c.streams[r].node : r \in Meant(repo)}
<1>1. S \in SUBSET Ranks /\ S # {}
  <2>1. ASSUME NEW s \in ActiveWorkers(c) PROVE c.workers[s].node \in Ranks
    BY Parts, WorkerParts DEF ActiveWorkers
  <2>2. ASSUME NEW r \in Meant(repo) PROVE c.streams[r].node \in Ranks
    <3>1. r \in Repos
      BY <2>2 DEF Meant, Paths
    <3> QED BY <3>1, Parts, StreamParts DEF Ranks, NoNode
  <2>3. node \in Ranks
    BY DEF Ranks, NoNode
  <2> QED BY <2>1, <2>2, <2>3
<1>2. PICK current \in Ranks : current = Max(S)
  <2> HIDE DEF S
  <2> QED BY <1>1, Greatest
<1>3. PICK at \in Ranks : at = IF c.pr # NoPR THEN Advance(current, 11) ELSE current
  <2>1. 11 \in Ranks
    BY DEF Ranks, NoNode
  <2> QED BY <2>1, Advanced
<1>4. PICK to : to = Reach(c, at, SessionState(c), told)
  OBVIOUS
<1>5. to.card \in Cards /\ to.node \in Ranks /\ to.isMerged \in BOOLEAN
  BY <1>4, ReachTyped
<1>6. PICK carded : carded = Move(c, to.card, Meant(repo), to.node, to.isMerged)
  OBVIOUS
<1>7. /\ carded \in Tasks /\ Ahead(c.streams, carded.streams)
      /\ to.card.status # "DONE" => Good(c, carded)
      /\ carded.status = to.card.status
  BY <1>5, <1>6, MoveTyped, MovesAhead, MoveOnly
<1>8. PICK ws \in [Sessions -> Workers] :
        ws = MoveWorkers(carded.workers, ActiveWorkers(c), to.node)
  BY <1>5, <1>7, Parts, MoveWorkersTyped
<1>9. PICK moved \in Tasks : moved = [carded EXCEPT !.workers = ws]
                             /\ moved.streams = carded.streams
                             /\ moved.status = carded.status
  BY <1>7, OtherWorkers
<1>10. /\ c.status # "NEW" => moved.status # "NEW"
       /\ c.status = "REVIEW" => moved.status # "IN_PROGRESS"
  BY <1>4, <1>7, <1>9, ReachHolds
<1>11. PICK after : after = IF to.card.status = "DONE" THEN Unlock(moved, repo) ELSE moved
  OBVIOUS
<1>12. after \in Tasks /\ Good(c, after) /\ Hold(c, after)
  <2>1. CASE to.card.status = "DONE"
    BY <1>7, <1>9, <1>10, <1>11, <2>1, Unlocking, Unlocks, UnlockHolds
  <2>2. CASE to.card.status # "DONE"
    BY <1>7, <1>9, <1>10, <1>11, <2>2 DEF Good, Hold
  <2> QED BY <2>1, <2>2
<1> HIDE DEF S
<1>13. Ingest(c, node, repo, told) = CloseAll(after) \/ Ingest(c, node, repo, told) = Outcome(after, {})
  BY ZenonT(40), <1>2, <1>3, <1>4, <1>6, <1>8, <1>9, <1>11 DEF Ingest, S
<1> QED BY <1>12, <1>13, CloseAllTyped, OutcomeTyped

LEMMA FileStep ==
  ASSUME TypeOK, NEW node \in 0..15, NEW repo \in Paths, NEW pr \in URLs,
         WorkflowRun(node, repo, pr)
  PROVE  TypeOK' /\ Kept /\ Hold(task, task')
<1>1. PICK c \in Tasks : c = WithPR(task, pr) /\ c.streams = task.streams
                         /\ c.status = task.status
  BY WithPRTyped DEF TypeOK
<1>2. PICK told \in Told(c) :
        merged' = merged /\ Handle("file", task, News(Ingest(c, node, repo, told)), session)
  BY <1>1 DEF WorkflowRun
<1>3. /\ News(Ingest(c, node, repo, told)) \in Outcomes
      /\ Good(c, News(Ingest(c, node, repo, told)).task)
      /\ Hold(c, News(Ingest(c, node, repo, told)).task)
  BY ToldTyped, IngestTyped
<1>4. /\ Good(task, News(Ingest(c, node, repo, told)).task)
      /\ Hold(task, News(Ingest(c, node, repo, told)).task)
  BY <1>1, <1>3 DEF Good, Hold
<1> QED BY <1>2, <1>3, <1>4, Straight DEF TypeOK

LEMMA ReconcileStep ==
  ASSUME TypeOK, Reconcile
  PROVE  TypeOK' /\ Kept
<1>1. task \in Tasks
  BY DEF TypeOK
<1>2. PICK c : c = [task EXCEPT !.isMerged = TRUE, !.status = "DONE", !.sub = "completed"]
  OBVIOUS
<1>3. c \in Tasks /\ c.streams = task.streams
  BY <1>1, <1>2 DEF Tasks, Statuses, Substatuses
<1>4. Handle("github", task, CloseAll(c), session) /\ merged' = merged
  BY <1>2 DEF Reconcile
<1>5. Good(task, c)
  BY <1>1, <1>3, Unmoved
<1> QED BY <1>1, <1>3, <1>4, <1>5, CloseAllTyped, Straight DEF TypeOK

LEMMA MergeStep ==
  ASSUME TypeOK, NEW repo, MergePR(repo)
  PROVE  TypeOK' /\ Kept
<1>1. task \in Tasks
  BY DEF TypeOK
<1>2. PICK c : c = [task EXCEPT !.status = "DONE", !.sub = "completed", !.isMerged = TRUE,
                                !.blocker = FALSE]
  OBVIOUS
<1>3. c \in Tasks /\ c.streams = task.streams
  BY <1>1, <1>2 DEF Tasks, Statuses, Substatuses
<1>4. /\ merged' = merged \cup {task.pr} /\ task.pr # NoPR
      /\ Handle("github", task, Outcome(Unlock(c, repo), {}), session)
  BY <1>2 DEF MergePR, Open
<1>5. merged' \subseteq PullRequests
  BY <1>1, <1>4, Parts DEF URLs, TypeOK
<1>6. Unlock(c, repo) \in Tasks /\ Good(task, Unlock(c, repo))
  <2>1. Ahead(task.streams, c.streams)
    BY <1>1, <1>3, Unmoved
  <2> QED BY <1>1, <1>3, <2>1, Unlocking, Unlocks
<1> QED BY <1>4, <1>5, <1>6, OutcomeTyped, Straight
-------------------------------------------------------------------------------
(* The theorems.                                                           *)

LEMMA Untouched ==
  ASSUME TypeOK, task'.streams = task.streams, jobs' \subseteq jobs
  PROVE  Kept
<1>1. Made \subseteq {task'}
  BY DEF Made
<1>2. task \in Tasks
  BY DEF TypeOK
<1> QED BY <1>1, <1>2, Unmoved DEF Kept

LEMMA CommitStep ==
  ASSUME TypeOK, NEW o \in jobs, Commit(o)
  PROVE  TypeOK' /\ Kept
<1>1. o.task \in Tasks /\ o.closed \in SUBSET Sessions /\ task \in Tasks
  BY DEF TypeOK, Outcomes
<1>2. /\ jobs' = jobs \ {o} /\ Write(o, session) /\ UNCHANGED <<merged, handled>>
  BY DEF Commit
<1>3. PICK ws \in [Sessions -> Workers] :
        ws = IF o.task.workers = NoWorkers THEN task.workers ELSE o.task.workers
  BY <1>1, Parts
<1>4. task' = [o.task EXCEPT !.workers = ws]
  BY <1>1, <1>2, <1>3 DEF Write
<1>5. task' \in Tasks
  BY <1>1, <1>4, OtherWorkers
<1>6. session' \in Sess /\ deleted' = FALSE
  BY <1>2 DEF Write, TypeOK, Sess
<1>7. TypeOK'
  BY <1>2, <1>5, <1>6 DEF TypeOK, Sess
<1>8. Made = {}
  BY <1>2 DEF Made
<1> QED BY <1>7, <1>8 DEF Kept

LEMMA DeleteStep ==
  ASSUME TypeOK, Delete
  PROVE  TypeOK' /\ Kept
<1>1. NoWorkers \in [Sessions -> Workers]
  BY DEF NoWorkers, Unbound, Workers, Ranks, NoNode
<1>2. task' \in Tasks /\ task'.streams = task.streams
  BY <1>1, OtherWorkers DEF Delete, TypeOK
<1> QED BY <1>2, Untouched DEF Delete, TypeOK

LEMMA Initially == Init => TypeOK
<1> SUFFICES ASSUME Init PROVE TypeOK
  OBVIOUS
<1>1. NoWorkers \in [Sessions -> Workers]
  BY DEF NoWorkers, Unbound, Workers, Ranks, NoNode
<1>2. PICK ss : ss = [r \in Repos |-> [status |-> IF DependsOn[r] = NoRepo THEN "IN_PROGRESS"
                                                  ELSE "QUEUED", node |-> 0]]
  OBVIOUS
<1>3. ss \in [Repos -> Streams]
  BY <1>2 DEF Streams, Statuses
<1>4. task = [status |-> "NEW", sub |-> "ready", blocker |-> FALSE, pr |-> NoPR,
              isMerged |-> FALSE, workers |-> NoWorkers, streams |-> ss]
  BY <1>2 DEF Init
<1>5. task \in Tasks
  BY <1>1, <1>3, <1>4 DEF Tasks, Statuses, Substatuses
<1>6. handled \in 0..MaxHandled
  BY NodeAssumption DEF Init
<1>7. session \in [Sessions -> {"none", "resting", "Working"}] /\ jobs \in SUBSET Outcomes
  BY DEF Init
<1>8. deleted \in BOOLEAN /\ merged \in SUBSET PullRequests
  BY DEF Init
<1> QED BY <1>5, <1>6, <1>7, <1>8 DEF TypeOK

LEMMA EveryStep == TypeOK /\ [Next]_vars => TypeOK' /\ Kept
<1> SUFFICES ASSUME TypeOK, [Next]_vars PROVE TypeOK' /\ Kept
  OBVIOUS
<1>1. ASSUME NEW s \in Sessions, NEW repo \in Paths, Spawn(s, repo) PROVE TypeOK' /\ Kept
  BY <1>1, SpawnStep
<1>2. ASSUME NEW s \in Sessions, NEW state, Hook(s, state) PROVE TypeOK' /\ Kept
  BY <1>2, HookStep
<1>3. ASSUME NEW s \in Sessions, NEW pr \in URLs, Telemetry(s, pr) PROVE TypeOK' /\ Kept
  BY <1>3, TelemetryStep
<1>4. ASSUME NEW node \in Nodes, NEW repo, Report(node, repo) PROVE TypeOK' /\ Kept
  BY <1>4, ReportStep, NodeAssumption DEF Report
<1>5. ASSUME NEW status \in Statuses, NEW repo, SetStatus(status, repo) PROVE TypeOK' /\ Kept
  BY <1>5, StatusStep
<1>6. ASSUME NEW node \in Nodes, NEW repo \in Paths, NEW pr \in URLs, WorkflowRun(node, repo, pr)
      PROVE  TypeOK' /\ Kept
  BY <1>6, FileStep, NodeAssumption
<1>7. ASSUME NEW repo, MergePR(repo) PROVE TypeOK' /\ Kept
  BY <1>7, MergeStep
<1>8. ASSUME NEW yes \in BOOLEAN, SetBlocker(yes) PROVE TypeOK' /\ Kept
  BY <1>8, BlockerStep
<1>9. ASSUME NEW pr \in URLs, SetPR(pr) PROVE TypeOK' /\ Kept
  BY <1>9, PRStep
<1>10. ASSUME NEW pr \in PullRequests, TaskEvent(pr) PROVE TypeOK' /\ Kept
  BY <1>10, EventStep
<1>11. ASSUME NEW o \in jobs, Commit(o) PROVE TypeOK' /\ Kept
  BY <1>11, CommitStep
<1>12. CASE MergeOnGitHub \/ UNCHANGED vars
  BY <1>12, Untouched DEF MergeOnGitHub, vars, TypeOK
<1> QED BY <1>1, <1>2, <1>3, <1>4, <1>5, <1>6, <1>7, <1>8, <1>9, <1>10, <1>11, <1>12,
       ReconcileStep, DeleteStep DEF Next

\* The variables, and the copies that handlers have still to write, keep their types.
THEOREM Typing == Spec => []TypeOK
BY Initially, EveryStep, PTL DEF Spec

\* Whatever handlers overtake each other, none makes a task of what it has read in
\* which a workstream waits for one that it has completed (unlockSequentialWorkstreams).
THEOREM NobodyForgotten == Spec => NoneLeftWaiting
<1>1. ASSUME TypeOK, [Next]_vars
      PROVE  [\A c \in Made, r \in Repos :
                (/\ DependsOn[r] # NoRepo /\ task.status # "DONE"
                 /\ task.streams[DependsOn[r]].status # "DONE"
                 /\ c.streams[DependsOn[r]].status = "DONE")
                => c.streams[r].status # "QUEUED"]_vars
  BY <1>1, EveryStep DEF Kept, Good, Awake
<1> QED BY <1>1, Typing, PTL DEF Spec, NoneLeftWaiting

\* ... and none takes a workstream back to an earlier node that it does not start
\* (shouldAdvanceWorkflowNode, unlockSequentialWorkstreams).
THEOREM OnlyForward == Spec => NodeForward
<1>1. ASSUME TypeOK, [Next]_vars
      PROVE  [\A c \in Made, r \in Repos :
                \/ c.streams[r].node >= task.streams[r].node
                \/ /\ Starts(r, c) /\ DependsOn[r] # NoRepo
                   /\ c.streams[DependsOn[r]].status = "DONE"]_vars
  BY <1>1, EveryStep DEF Kept, Good, Onward, Starts, Waiting
<1> QED BY <1>1, Typing, PTL DEF Spec, NodeForward
-------------------------------------------------------------------------------
(* No news is late when nothing overtakes the handlers that bring it.      *)

Timely == Overtaken \cap {"hook", "report", "file"} = {}
NoNews == \A o \in jobs : ~o.news

LEMMA Queued ==
  ASSUME NoNews, NEW kind, NEW c, NEW o, NEW sess, Handle(kind, c, o, sess),
         kind \notin Overtaken \/ ~o.news
  PROVE  NoNews'
BY DEF NoNews, Handle

LEMMA Silent ==
  ASSUME NEW c, NEW closed
  PROVE  ~Outcome(c, closed).news /\ ~CloseAll(c).news
BY DEF Outcome, CloseAll

LEMMA NoNewsStep ==
  ASSUME Timely, NoNews, [Next]_vars
  PROVE  NoNews'
<1>1. ASSUME NEW s, NEW repo, Spawn(s, repo) PROVE NoNews'
  <2>1. PICK c, sess, d : Handle("spawn", c, Outcome(d, {}), sess)
    BY <1>1 DEF Spawn
  <2> QED BY <2>1, Silent, Queued
<1>2. ASSUME NEW s, NEW state, Hook(s, state) PROVE NoNews'
  <2>1. UNCHANGED jobs \/ \E c, o, sess : Handle("hook", c, o, sess)
    BY <1>2 DEF Hook
  <2> QED BY <2>1, Queued DEF Timely, NoNews
<1>3. ASSUME NEW s, NEW pr, Telemetry(s, pr) PROVE NoNews'
  BY <1>3, Queued DEF Telemetry, Timely
<1>4. ASSUME NEW node, NEW repo, Report(node, repo) PROVE NoNews'
  <2>1. \E o : Handle("report", task, o, session)
    BY <1>4 DEF Report, ReportNode
  <2> QED BY <2>1, Queued DEF Timely
<1>5. ASSUME NEW status, NEW repo, SetStatus(status, repo) PROVE NoNews'
  <2>1. \E d : Handle("board", task, Outcome(d, {}), session)
    BY <1>5 DEF SetStatus
  <2> QED BY <2>1, Silent, Queued
<1>6. ASSUME NEW node, NEW repo, NEW pr, WorkflowRun(node, repo, pr) PROVE NoNews'
  <2>1. \E o : Handle("file", task, o, session)
    BY <1>6 DEF WorkflowRun
  <2> QED BY <2>1, Queued DEF Timely
<1>7. ASSUME NEW repo, MergePR(repo) PROVE NoNews'
  <2>1. \E d : Handle("github", task, Outcome(d, {}), session)
    BY <1>7 DEF MergePR
  <2> QED BY <2>1, Silent, Queued
<1>8. ASSUME NEW yes, SetBlocker(yes) PROVE NoNews'
  BY <1>8, Silent, Queued DEF SetBlocker
<1>9. ASSUME NEW pr, SetPR(pr) \/ TaskEvent(pr) PROVE NoNews'
  <2>1. \E d : Handle("board", task, Outcome(d, {}), session)
    BY <1>9 DEF SetPR, TaskEvent
  <2> QED BY <2>1, Silent, Queued
<1>10. CASE Reconcile
  <2>1. \E d : Handle("github", task, CloseAll(d), session)
    BY <1>10 DEF Reconcile
  <2> QED BY <2>1, Silent, Queued
<1>11. ASSUME NEW o, Commit(o) PROVE NoNews'
  BY <1>11 DEF Commit, NoNews
<1>12. CASE Delete \/ MergeOnGitHub \/ UNCHANGED vars
  BY <1>12 DEF Delete, MergeOnGitHub, vars, NoNews
<1> QED BY <1>1, <1>2, <1>3, <1>4, <1>5, <1>6, <1>7, <1>8, <1>9, <1>10, <1>11, <1>12 DEF Next

\* When nothing overtakes a hook, a report or a workflow file between its reading
\* and its writing, none of them takes a task back (SyncSessionTaskWorker,
\* handleTaskUpsert, ingestSingleWorkflowRun); TaskLate.cfg shows that a late report
\* does.
THEOREM NewsKeepsCard ==
  ASSUME Overtaken \cap {"hook", "report", "file"} = {}
  PROVE  Spec => NeverRegresses
<1>1. Init => NoNews
  BY DEF Init, NoNews
<1>2. Timely
  BY DEF Timely
<1>3. NoNews /\ [Next]_vars => NoNews'
  BY <1>2, NoNewsStep
<1>4. ASSUME TypeOK, NoNews, LateNews
      PROVE  Hold(task, task')
  <2>1. ASSUME NEW s \in Sessions, Hook(s, "Idle") PROVE Hold(task, task')
    BY <1>4, <2>1, HookStep
  <2>2. ASSUME NEW node \in Nodes, NEW repo, Report(node, repo) PROVE Hold(task, task')
    BY <1>4, <2>2, ReportStep, NodeAssumption DEF Report
  <2>3. ASSUME NEW node \in Nodes, NEW repo \in Paths, NEW pr \in URLs, WorkflowRun(node, repo, pr)
        PROVE  Hold(task, task')
    BY <1>4, <2>3, FileStep, NodeAssumption
  <2> QED BY <1>4, <2>1, <2>2, <2>3 DEF LateNews, NoNews
<1>5. ASSUME TypeOK, NoNews, [Next]_vars
      PROVE  [LateNews =>
                /\ task.status # "NEW" => task'.status # "NEW"
                /\ task.status = "REVIEW" /\ Open(task) /\ task'.status = "IN_PROGRESS"
                     => \E r \in Repos : Starts(r, task')]_vars
  BY <1>4, <1>5 DEF Hold, Starts, Waiting
<1> QED BY <1>1, <1>3, <1>5, Typing, PTL DEF Spec, NeverRegresses
=============================================================================
