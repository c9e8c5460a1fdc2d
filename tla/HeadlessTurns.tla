----------------------------- MODULE HeadlessTurns -----------------------------
(***************************************************************************)
(* The headless engine of ackbard (internal/daemon/headless.go) for one    *)
(* session: its child process, the FIFO of prompts, the pause flag, the    *)
(* pending question, and the HTTP handlers, turn goroutines and liveness   *)
(* scanner that work on them and on the session's row in SQLite.  A step   *)
(* is one critical section of h.mu, one database write or one event of the *)
(* child process; between two steps any other goroutine may run.           *)
(*                                                                         *)
(* A prompt starts at most one turn (module PromptLedger), so a turn is    *)
(* named by its prompt, and pc[p] is where the work on prompt p stands:    *)
(*   new -> enqueue -> queued -> launch          (handler, queue)          *)
(*   new -> brief -> launch                      (handover)                *)
(*   new -> drain -> unpause -> saveAns -> launch (answer to a question)   *)
(*   launch -> started -> stream -> reaped -> take -> ... -> done  (turn)  *)
(***************************************************************************)
EXTENDS Naturals, Sequences, SequencesExt

CONSTANTS Prompts,     \* prompts submitted through /v1/sessions/prompt or spawn
          Answers,     \* answers submitted through /v1/sessions/respond
          NoTurn,      \* no entry in h.processes
          Unhurried    \* TRUE: RunTurn is never entered while the goroutine of
                       \* an earlier turn is between cmd.Wait and its return

ASSUME UnhurriedAssumption == Unhurried \in BOOLEAN
ASSUME WorkAssumption == NoTurn \notin Prompts \cup Answers

Work == Prompts \cup Answers

VARIABLES
  pc,          \* progress of each prompt: handler, launcher, turn goroutine
  child,       \* the child process of each turn
  proc,        \* h.processes[sess.ID]
  queue,       \* h.queues[sess.ID]
  paused,      \* h.paused[sess.ID]
  block,       \* h.interactiveBlocks has an entry for the session
  responded,   \* h.respondedWhileStopping[sess.ID]
  db,          \* the session's row: state, and whether blocked_* is set
  asked,       \* what became of the question of each turn (history)
  drain,       \* the turn that the handler of each answer found running
  cancel,      \* the cancel handler: where it is, and its copy of blocked_*
  resume,      \* the queue/resume handler
  scan         \* verifyHeadlessLiveness: where it is and its copy of the row

vars == <<pc, child, proc, queue, paused, block, responded, db, asked,
          drain, cancel, resume, scan>>

BeforeLaunch == {"new", "enqueue", "brief", "briefBlocked",
                 "drain", "unpause", "saveAns"}
Streaming    == {"started", "stream", "blkSave", "blkPause", "blkStop"}
Settling     == {"reaped", "take", "errPause", "saveBlocked", "saveIdle",
                 "check", "dequeue", "unwind"}
Phases == BeforeLaunch \cup Streaming \cup Settling
            \cup {"queued", "launch", "lost", "removed", "done"}

Rows == [state : {"Idle", "Working", "Blocked"}, blocked : BOOLEAN]

\* isProcessAlive sends signal 0: an exited child answers until it is reaped.
Alive(p) == child[p] \in {"running", "signalled", "exited"}

IsRunning == proc # NoTurn /\ Alive(proc)
\* IsRunning deletes the entry of a dead process as it looks.
Pruned == IF IsRunning THEN proc ELSE NoTurn

\* The only turn of the session, unless two overlap.
Settled == \A p \in Work : pc[p] \notin Settling

Init == /\ pc = [p \in Work |-> "new"]
        /\ child = [p \in Work |-> "none"]
        /\ proc = NoTurn
        /\ queue = <<>>
        /\ paused = FALSE /\ block = FALSE /\ responded = FALSE
        /\ db = [state |-> "Idle", blocked |-> FALSE]
        /\ asked = [p \in Work |-> "no"]
        /\ drain = [p \in Answers |-> NoTurn]
        /\ cancel = [at |-> "idle", blocked |-> FALSE]
        /\ resume = "idle"
        /\ scan = [at |-> "idle", state |-> "Idle", blocked |-> FALSE]

Goto(p, phase) == pc' = [pc EXCEPT ![p] = phase]
\* Mutant of SaveRow: the state column is written from an unset field.
SaveRowUnset(st, bl) == db' = [state |-> "", blocked |-> bl]
SaveRow(st, bl) == db' = [state |-> st, blocked |-> bl]
-------------------------------------------------------------------------------
(* HTTP handlers: prompt, spawn and handover, the queue.                   *)

\* handlePrompt: IsRunning decides between the queue and a launcher.
Prompt(p) ==
  /\ p \in Prompts /\ pc[p] = "new"
  /\ Goto(p, IF IsRunning THEN "enqueue" ELSE "launch")
  /\ proc' = Pruned
  /\ UNCHANGED <<child, queue, paused, block, responded, db, asked,
                 drain, cancel, resume, scan>>

\* handleSpawn's first prompt skips the queue.
SpawnPrompt(p) ==
  /\ p \in Prompts /\ \A q \in Work : pc[q] = "new"
  /\ Goto(p, "launch")
  /\ UNCHANGED <<child, proc, queue, paused, block, responded, db, asked,
                 drain, cancel, resume, scan>>

\* handleSessionHandover refuses a Working session and keeps the row it read.
Handover(p) ==
  /\ p \in Prompts /\ pc[p] = "new" /\ db.state # "Working"
  /\ Goto(p, IF db.blocked THEN "briefBlocked" ELSE "brief")
  /\ UNCHANGED <<child, proc, queue, paused, block, responded, db, asked,
                 drain, cancel, resume, scan>>

\* executeSessionHandover saves that row as Working; its briefing prompt skips
\* the queue as well.
HandoverSave(p) ==
  /\ pc[p] \in {"brief", "briefBlocked"}
  /\ SaveRow("Working", pc[p] = "briefBlocked")
  /\ Goto(p, "launch")
  /\ UNCHANGED <<child, proc, queue, paused, block, responded, asked,
                 drain, cancel, resume, scan>>

EnqueuePrompt(p) ==
  /\ pc[p] = "enqueue"
  /\ queue' = Append(queue, p)
  /\ Goto(p, "queued")
  /\ UNCHANGED <<child, proc, paused, block, responded, db, asked,
                 drain, cancel, resume, scan>>

DeletePromptQueueItem(i) ==
  /\ i \in 1..Len(queue)
  /\ queue' = RemoveAt(queue, i)
  /\ Goto(queue[i], "removed")
  /\ UNCHANGED <<child, proc, paused, block, responded, db, asked,
                 drain, cancel, resume, scan>>

ClearPromptQueue ==
  /\ queue # <<>> \/ paused
  /\ queue' = <<>>
  /\ paused' = FALSE
  /\ pc' = [p \in Work |-> IF pc[p] = "queued" THEN "removed" ELSE pc[p]]
  /\ UNCHANGED <<child, proc, block, responded, db, asked, drain, cancel, resume, scan>>

\* Mutants of DequeueThen: it peeks without popping; it pops the newest.
DequeuePeeks(next) ==
  IF queue = <<>>
    THEN pc' = next /\ UNCHANGED queue
    ELSE /\ pc' = [next EXCEPT ![Head(queue)] = "launch"]
         /\ UNCHANGED queue
DequeueNewest(next) ==
  IF queue = <<>>
    THEN pc' = next /\ UNCHANGED queue
    ELSE /\ pc' = [next EXCEPT ![Last(queue)] = "launch"]
         /\ queue' = Front(queue)

\* DequeuePrompt, and the goroutine that will run what it returns.
DequeueThen(next) ==
  IF queue = <<>>
    THEN pc' = next /\ UNCHANGED queue
    ELSE /\ pc' = [next EXCEPT ![Head(queue)] = "launch"]
         /\ queue' = Tail(queue)

\* handlePromptQueueResume.
ResumeUnpause ==
  /\ resume = "idle"
  /\ paused' = FALSE
  /\ resume' = "check"
  /\ UNCHANGED <<pc, child, proc, queue, block, responded, db, asked, drain, cancel, scan>>

ResumeCheck ==
  /\ resume = "check"
  /\ proc' = Pruned
  /\ resume' = IF IsRunning THEN "idle" ELSE "dequeue"
  /\ UNCHANGED <<pc, child, queue, paused, block, responded, db, asked, drain, cancel, scan>>

ResumeDequeue ==
  /\ resume = "dequeue"
  /\ DequeueThen(pc)
  /\ resume' = "idle"
  /\ UNCHANGED <<child, proc, paused, block, responded, db, asked, drain, cancel, scan>>
-------------------------------------------------------------------------------
(* handleRespond on a headless session.                                    *)

\* An answer, whatever the row shows.
ClearInteractiveBlock(p) ==
  /\ p \in Answers /\ pc[p] = "new"
  /\ block' = FALSE
  /\ responded' = TRUE
  /\ Goto(p, IF proc = NoTurn THEN "unpause" ELSE "drain")
  /\ asked' = [q \in Work |-> IF asked[q] = "open" THEN "answered" ELSE asked[q]]
  /\ drain' = [drain EXCEPT ![p] = proc]
  /\ UNCHANGED <<child, proc, queue, paused, db, cancel, resume, scan>>

\* ... AndWait: it polls IsRunning; after 200 ms it kills the turn it found.
DrainKill(p) ==
  /\ p \in Answers /\ pc[p] = "drain" /\ IsRunning
  /\ drain[p] # NoTurn /\ child[drain[p]] = "running"
  /\ child' = [child EXCEPT ![drain[p]] = "signalled"]
  /\ UNCHANGED <<pc, proc, queue, paused, block, responded, db, asked,
                 drain, cancel, resume, scan>>

\* The loop ends when nothing runs, or at its deadline of three seconds.
DrainEnd(p) ==
  /\ p \in Answers /\ pc[p] = "drain"
  /\ proc' = Pruned
  /\ drain' = [drain EXCEPT ![p] = NoTurn]
  /\ Goto(p, "unpause")
  /\ UNCHANGED <<child, queue, paused, block, responded, db, asked,
                 cancel, resume, scan>>

AnswerUnpause(p) ==
  /\ pc[p] = "unpause"
  /\ paused' = FALSE
  /\ Goto(p, "saveAns")
  /\ UNCHANGED <<child, proc, queue, block, responded, db, asked,
                 drain, cancel, resume, scan>>

AnswerSave(p) ==
  /\ pc[p] = "saveAns"
  /\ SaveRow("Working", FALSE)
  /\ Goto(p, "launch")
  /\ UNCHANGED <<child, proc, queue, paused, block, responded, asked,
                 drain, cancel, resume, scan>>
-------------------------------------------------------------------------------
(* handleCancelTurn.                                                       *)

\* It works on the copy of the row that it read first.
CancelSignal ==
  /\ cancel.at = "idle"
  /\ IF proc = NoTurn
       THEN /\ cancel' = [at |-> "save", blocked |-> db.blocked]
            /\ UNCHANGED child
       ELSE /\ cancel' = [at |-> "pause", blocked |-> db.blocked]
            /\ child' = IF child[proc] = "running"
                          THEN [child EXCEPT ![proc] = "signalled"] ELSE child
  /\ UNCHANGED <<pc, proc, queue, paused, block, responded, db, asked, drain, resume, scan>>

CancelPause ==
  /\ cancel.at = "pause"
  /\ paused' = TRUE
  /\ cancel' = [cancel EXCEPT !.at = "save"]
  /\ UNCHANGED <<pc, child, proc, queue, block, responded, db, asked, drain, resume, scan>>

CancelSave ==
  /\ cancel.at = "save"
  /\ SaveRow("Idle", cancel.blocked)
  /\ cancel' = [at |-> "idle", blocked |-> FALSE]
  /\ UNCHANGED <<pc, child, proc, queue, paused, block, responded, asked, drain, resume, scan>>
-------------------------------------------------------------------------------
(* RunTurn, and the goroutine of the turn.                                 *)

\* Mutant of RunTurn: it trusts the caller's IsRunning and does not look again.
RunTurnUnchecked(p) ==
  /\ pc[p] = "launch"
  /\ Unhurried => Settled
  /\ proc' = p
  /\ child' = [child EXCEPT ![p] = "running"]
  /\ Goto(p, "started")
  /\ UNCHANGED <<queue, paused, block, responded, db, asked, drain, cancel, resume, scan>>

\* The critical section of RunTurn: a turn is in progress, or the CLI does not
\* start, or it does.  Every caller ignores the error, and the prompt is gone.
RunTurn(p) ==
  /\ pc[p] = "launch"
  /\ Unhurried => Settled
  /\ \/ Goto(p, "lost") /\ UNCHANGED <<proc, child>>
     \/ /\ proc = NoTurn
        /\ proc' = p
        /\ child' = [child EXCEPT ![p] = "running"]
        /\ Goto(p, "started")
  /\ UNCHANGED <<queue, paused, block, responded, db, asked, drain, cancel, resume, scan>>

SaveWorking(p) ==
  /\ pc[p] = "started"
  /\ SaveRow("Working", FALSE)
  /\ Goto(p, "stream")
  /\ UNCHANGED <<child, proc, queue, paused, block, responded, asked,
                 drain, cancel, resume, scan>>

\* triggerInteractiveBlock: the stream shows an interactive tool.
TriggerBlock(p) ==
  /\ pc[p] = "stream" /\ child[p] # "none"
  /\ asked[p] = "no"
  /\ asked' = [asked EXCEPT ![p] = "open"]
  /\ block' = TRUE
  /\ Goto(p, "blkSave")
  /\ UNCHANGED <<child, proc, queue, paused, responded, db, drain, cancel, resume, scan>>

BlockSave(p) ==
  /\ pc[p] = "blkSave"
  /\ SaveRow("Blocked", TRUE)
  /\ Goto(p, "blkPause")
  /\ UNCHANGED <<child, proc, queue, paused, block, responded, asked,
                 drain, cancel, resume, scan>>

BlockPause(p) ==
  /\ pc[p] = "blkPause"
  /\ paused' = TRUE
  /\ Goto(p, "blkStop")
  /\ UNCHANGED <<child, proc, queue, block, responded, db, asked,
                 drain, cancel, resume, scan>>

\* stopProcessGraceful looks the process up by session: not always its own.
BlockStop(p) ==
  /\ pc[p] = "blkStop"
  /\ child' = IF proc # NoTurn /\ child[proc] = "running"
                THEN [child EXCEPT ![proc] = "signalled"] ELSE child
  /\ Goto(p, "stream")
  /\ UNCHANGED <<proc, queue, paused, block, responded, db, asked,
                 drain, cancel, resume, scan>>

\* External: the CLI finishes its turn, or SIGINT and then SIGKILL end it.
ChildExit(p) ==
  /\ child[p] \in {"running", "signalled"}
  /\ child' = [child EXCEPT ![p] = "exited"]
  /\ UNCHANGED <<pc, proc, queue, paused, block, responded, db, asked,
                 drain, cancel, resume, scan>>

\* cmd.Wait reaps the child; it returns only when stderr is copied as well.
Reap(p) ==
  /\ pc[p] = "stream" /\ child[p] = "exited"
  /\ child' = [child EXCEPT ![p] = "gone"]
  /\ Goto(p, "reaped")
  /\ UNCHANGED <<proc, queue, paused, block, responded, db, asked,
                 drain, cancel, resume, scan>>

\* The entry is deleted by session, whichever turn it belongs to.
Settle(p) ==
  /\ pc[p] = "reaped"
  /\ proc' = NoTurn
  /\ responded' = FALSE
  /\ Goto(p, IF responded THEN "unwind" ELSE "take")
  /\ UNCHANGED <<child, queue, paused, block, db, asked, drain, cancel, resume, scan>>

\* Mutant of TakeBlock: the exit status is looked at first.
TakeBlockOnError(p) ==
  /\ pc[p] = "take"
  /\ \/ Goto(p, "saveIdle") /\ UNCHANGED block
     \/ Goto(p, IF block THEN "saveBlocked" ELSE "errPause") /\ block' = FALSE
  /\ UNCHANGED <<child, proc, queue, paused, responded, db, asked,
                 drain, cancel, resume, scan>>

\* takeInteractiveBlock; without a block the exit status decides.
TakeBlock(p) ==
  /\ pc[p] = "take"
  /\ block' = FALSE
  /\ IF block THEN Goto(p, "saveBlocked")
              ELSE Goto(p, "saveIdle") \/ Goto(p, "errPause")
  /\ UNCHANGED <<child, proc, queue, paused, responded, db, asked,
                 drain, cancel, resume, scan>>

PauseOnError(p) ==
  /\ pc[p] = "errPause"
  /\ paused' = TRUE
  /\ Goto(p, "saveIdle")
  /\ UNCHANGED <<child, proc, queue, block, responded, db, asked,
                 drain, cancel, resume, scan>>

SaveOutcome(p) ==
  /\ pc[p] \in {"saveBlocked", "saveIdle"}
  /\ IF pc[p] = "saveBlocked"
       THEN SaveRow("Blocked", TRUE) /\ Goto(p, "unwind")
       ELSE SaveRow("Idle", FALSE) /\ Goto(p, "check")
  /\ UNCHANGED <<child, proc, queue, paused, block, responded, asked,
                 drain, cancel, resume, scan>>

\* The automatic dispatch of the next prompt: IsQueuePaused, then Dequeue.
CheckPaused(p) ==
  /\ pc[p] = "check"
  /\ Goto(p, IF paused THEN "unwind" ELSE "dequeue")
  /\ UNCHANGED <<child, proc, queue, paused, block, responded, db, asked,
                 drain, cancel, resume, scan>>

DispatchNext(p) ==
  /\ pc[p] = "dequeue"
  /\ DequeueThen([pc EXCEPT ![p] = "unwind"])
  /\ UNCHANGED <<child, proc, paused, block, responded, db, asked,
                 drain, cancel, resume, scan>>

\* The deferred function of the goroutine deletes the entry once more.
Unwind(p) ==
  /\ pc[p] = "unwind"
  /\ proc' = NoTurn
  /\ Goto(p, "done")
  /\ UNCHANGED <<child, queue, paused, block, responded, db, asked,
                 drain, cancel, resume, scan>>
-------------------------------------------------------------------------------
(* verifyHeadlessLiveness, every 30 seconds and on client requests.        *)

ScanRead ==
  /\ scan.at = "idle"
  /\ scan' = [at |-> "read", state |-> db.state, blocked |-> db.blocked]
  /\ UNCHANGED <<pc, child, proc, queue, paused, block, responded, db, asked,
                 drain, cancel, resume>>

\* Mutant of ScanCheck: it wakes sessions and never puts one back to Idle.
ScanCheckOnlyWakes ==
  /\ scan.at = "read"
  /\ proc' = Pruned
  /\ scan' = [scan EXCEPT !.at =
                IF IsRunning /\ scan.state # "Working" THEN "setWorking" ELSE "idle"]
  /\ UNCHANGED <<pc, child, queue, paused, block, responded, db, asked,
                 drain, cancel, resume>>

ScanCheck ==
  /\ scan.at = "read"
  /\ proc' = Pruned
  /\ scan' = [scan EXCEPT !.at =
                CASE IsRunning /\ scan.state # "Working"  -> "setWorking"
                  [] ~IsRunning /\ scan.state = "Working" -> "setIdle"
                  [] OTHER                                -> "idle"]
  /\ UNCHANGED <<pc, child, queue, paused, block, responded, db, asked,
                 drain, cancel, resume>>

ScanSave ==
  /\ scan.at \in {"setWorking", "setIdle"}
  /\ IF scan.at = "setWorking" THEN SaveRow("Working", scan.blocked)
                               ELSE SaveRow("Idle", FALSE)
  /\ scan' = [scan EXCEPT !.at = "idle"]
  /\ UNCHANGED <<pc, child, proc, queue, paused, block, responded, asked,
                 drain, cancel, resume>>
-------------------------------------------------------------------------------
\* The daemon stops and starts again: all but the row lives in memory, and
\* InitDB takes a Working headless row back to Idle.
Restart ==
  /\ pc' = [p \in Work |->
              CASE pc[p] \in {"queued", "launch"} \cup (BeforeLaunch \ {"new"}) -> "lost"
                [] pc[p] \in Streaming \cup Settling -> "done"
                [] OTHER -> pc[p]]
  /\ child' = [p \in Work |-> IF child[p] = "none" THEN "none" ELSE "gone"]
  /\ proc' = NoTurn /\ queue' = <<>>
  /\ paused' = FALSE /\ block' = FALSE /\ responded' = FALSE
  /\ drain' = [p \in Answers |-> NoTurn]
  /\ db' = [db EXCEPT !.state = IF @ = "Working" THEN "Idle" ELSE @]
  /\ cancel' = [at |-> "idle", blocked |-> FALSE]
  /\ resume' = "idle"
  /\ scan' = [at |-> "idle", state |-> "Idle", blocked |-> FALSE]
  /\ UNCHANGED asked

Handler(p) == \/ EnqueuePrompt(p) \/ HandoverSave(p)
              \/ DrainKill(p) \/ DrainEnd(p) \/ AnswerUnpause(p) \/ AnswerSave(p)
Turn(p) == \/ RunTurn(p) \/ SaveWorking(p) \/ BlockSave(p) \/ BlockPause(p)
           \/ BlockStop(p) \/ ChildExit(p) \/ Reap(p) \/ Settle(p)
           \/ TakeBlock(p) \/ PauseOnError(p) \/ SaveOutcome(p)
           \/ CheckPaused(p) \/ DispatchNext(p) \/ Unwind(p)
Client(p) == \/ Prompt(p) \/ SpawnPrompt(p) \/ Handover(p)
             \/ ClearInteractiveBlock(p)
ResumeSteps == ResumeCheck \/ ResumeDequeue
CancelSteps == CancelPause \/ CancelSave
ScanSteps == ScanRead \/ ScanCheck \/ ScanSave

Next == \/ \E p \in Work : Client(p) \/ Handler(p) \/ Turn(p) \/ TriggerBlock(p)
        \/ \E i \in 1..Len(queue) : DeletePromptQueueItem(i)
        \/ ClearPromptQueue
        \/ ResumeUnpause \/ ResumeSteps
        \/ CancelSignal \/ CancelSteps
        \/ ScanSteps
        \/ Restart

Spec == Init /\ [][Next]_vars

\* Every goroutine that can step does, the scanner comes back, and the child
\* ends; nothing obliges a client to send, or the daemon to restart.
Fairness == /\ \A p \in Work : WF_vars(Handler(p)) /\ WF_vars(Turn(p))
            /\ WF_vars(ResumeSteps) /\ WF_vars(CancelSteps) /\ WF_vars(ScanSteps)

FairSpec == Spec /\ Fairness
-------------------------------------------------------------------------------
(* Properties.                                                             *)

\* Types of the variables.
TypeOK ==
  /\ pc \in [Work -> Phases]
  /\ child \in [Work -> {"none", "running", "signalled", "exited", "gone"}]
  /\ proc \in Work \cup {NoTurn}
  /\ queue \in Seq(Work)
  /\ paused \in BOOLEAN /\ block \in BOOLEAN /\ responded \in BOOLEAN
  /\ db \in Rows
  /\ asked \in [Work -> {"no", "open", "answered"}]
  /\ drain \in [Answers -> Work \cup {NoTurn}]
  /\ cancel \in [at : {"idle", "pause", "save"}, blocked : BOOLEAN]
  /\ resume \in {"idle", "check", "dequeue"}
  /\ scan \in [at : {"idle", "read", "setWorking", "setIdle"},
               state : {"Idle", "Working", "Blocked"}, blocked : BOOLEAN]

\* The queue holds exactly the prompts that wait in it, each of them once: no
\* interleaving of the handlers, the two dispatchers and the removals hands a
\* prompt to two launchers or loses it from the queue (EnqueuePrompt,
\* DequeuePrompt, DeletePromptQueueItem, ClearPromptQueue).
QueueExact ==
  /\ \A i \in 1..Len(queue) : pc[queue[i]] = "queued"
  /\ \A i, j \in 1..Len(queue) : queue[i] = queue[j] => i = j
  /\ \A p \in Work : pc[p] = "queued" => \E i \in 1..Len(queue) : queue[i] = p

\* A live child process is the one that h.processes holds, so there is at most
\* one for the session and IsRunning sees it: what RunTurn's ErrTurnInProgress
\* and every reader of IsRunning rely on.
RunningIsTracked == \A p \in Work : Alive(p) => proc = p

\* Why it holds when callers are unhurried: turns do not overlap, and the entry
\* is of the turn whose child has not been settled yet.
Busy(p) == pc[p] \in Streaming \cup Settling
OneTurn ==
  /\ \A p \in Work : Alive(p) <=> pc[p] \in Streaming
  /\ \A p \in Work : pc[p] \in Streaming => proc = p
  /\ \A p, q \in Work : Busy(p) /\ Busy(q) => p = q
  /\ proc # NoTurn => pc[proc] \in Streaming \cup {"reaped"}

\* The engine implements the ledger of prompts: FIFO, at most one turn each.
Fate(phase) ==
  CASE phase \in BeforeLaunch -> "new"
    [] phase = "queued"  -> "queued"
    [] phase = "launch"  -> "taken"
    [] phase = "lost"    -> "dropped"
    [] phase = "removed" -> "removed"
    [] OTHER             -> "started"
Ledger == INSTANCE PromptLedger WITH fate <- [p \in Work |-> Fate(pc[p])],
                                     line <- queue
LedgerSpec == Ledger!Spec

\* A turn that ends without writing its outcome (the respondedWhileStopping
\* return of the goroutine) is one that was stopped for a question.
SkippedTurnWasAsking ==
  [][\A p \in Work : Settle(p) /\ responded => asked[p] = "answered"]_vars

\* The row of a session without work never stays Working: whichever goroutine
\* skipped or overwrote the last write, the scanner repairs it.
Quiet == \A p \in Work : pc[p] \in {"new", "queued", "lost", "removed", "done"}
StaleWorkingRepaired ==
  (Quiet /\ db.state = "Working") ~> (~Quiet \/ db.state # "Working")

\* A turn completes as Idle only if it asked nothing or what it asked has been
\* answered: setInteractiveBlock, ClearInteractiveBlockAndWait and
\* takeInteractiveBlock never lose an open question between them.
QuestionReachesOutcome ==
  \A p \in Work : pc[p] \in {"errPause", "saveIdle", "check"} => asked[p] # "open"

\* verifyHeadlessLiveness never flips an idle headless session to Working.
ScannerWakesOnlyRunning ==
  [][ScanSave /\ scan.at = "setWorking" /\ db.state = "Idle" => IsRunning]_vars

\* A prompt that waits in a queue that is not paused does not wait forever.
QueueDrains ==
  \A p \in Work : (pc[p] = "queued" /\ ~paused) ~> (pc[p] # "queued" \/ paused)
================================================================================
