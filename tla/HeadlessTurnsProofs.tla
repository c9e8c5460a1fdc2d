-------------------------- MODULE HeadlessTurnsProofs --------------------------
(* Proofs about HeadlessTurns for any prompts and answers. *)
EXTENDS HeadlessTurns, SequenceTheorems, TLAPS

\* Removing an element leaves a sequence over the same set.
LEMMA RemoveAtType ==
  ASSUME NEW S, NEW s \in Seq(S), NEW i \in 1..Len(s)
  PROVE  /\ RemoveAt(s, i) \in Seq(S)
         /\ Len(RemoveAt(s, i)) = Len(s) - 1
         /\ \A j \in 1..Len(s)-1 :
              RemoveAt(s, i)[j] = IF j < i THEN s[j] ELSE s[j+1]
<1> DEFINE a == SubSeq(s, 1, i - 1)
           b == SubSeq(s, i + 1, Len(s))
<1>1. a \in Seq(S) /\ Len(a) = i - 1 /\ \A j \in 1..i-1 : a[j] = s[j]
  BY SubSeqProperties
<1>2. b \in Seq(S) /\ Len(b) = Len(s) - i
      /\ \A j \in 1..Len(s)-i : b[j] = s[i + j]
  BY SubSeqProperties
<1>3. RemoveAt(s, i) = a \o b
  BY DEF RemoveAt
<1> HIDE DEF a, b
<1>4. /\ a \o b \in Seq(S) /\ Len(a \o b) = Len(a) + Len(b)
      /\ \A j \in 1..Len(a)+Len(b) :
           (a \o b)[j] = IF j <= Len(a) THEN a[j] ELSE b[j - Len(a)]
  BY <1>1, <1>2, ConcatProperties
<1>5. ASSUME NEW j \in 1..Len(s)-1
      PROVE  (a \o b)[j] = IF j < i THEN s[j] ELSE s[j+1]
  <2>1. (a \o b)[j] = IF j <= Len(a) THEN a[j] ELSE b[j - Len(a)]
    BY <1>1, <1>2, <1>4
  <2>2. CASE j < i
    BY <2>1, <2>2, <1>1
  <2>3. CASE ~(j < i)
    <3>1. j - (i - 1) \in 1..Len(s)-i /\ i + (j - (i - 1)) = j + 1
      BY <2>3
    <3>2. (a \o b)[j] = b[j - (i - 1)]
      BY <2>1, <2>3, <1>1
    <3> QED BY <2>3, <3>1, <3>2, <1>2
  <2> QED BY <2>2, <2>3
<1> QED BY <1>1, <1>2, <1>3, <1>4, <1>5

\* What the code writes to the row is a row.
LEMMA RowTyping ==
  ASSUME NEW st \in {"Idle", "Working", "Blocked"}, NEW bl \in BOOLEAN
  PROVE  [state |-> st, blocked |-> bl] \in Rows
BY DEF Rows

\* DequeuePrompt keeps the types of the queue and of the control state.
LEMMA DequeueTyping ==
  ASSUME queue \in Seq(Work), NEW next \in [Work -> Phases], DequeueThen(next)
  PROVE  pc' \in [Work -> Phases] /\ queue' \in Seq(Work)
<1>1. CASE queue = <<>>
  BY <1>1 DEF DequeueThen
<1>2. CASE queue # <<>>
  <2>1. Head(queue) \in Work /\ Tail(queue) \in Seq(Work)
    BY <1>2, HeadTailProperties
  <2> QED BY <1>2, <2>1 DEF DequeueThen, Phases
<1> QED BY <1>1, <1>2

\* The type invariant holds in every reachable state.
THEOREM Typing == Spec => []TypeOK
<1> USE DEF Phases, BeforeLaunch, Streaming, Settling, Rows
<1>1. ASSUME Init PROVE TypeOK
  <2>1. paused \in BOOLEAN /\ block \in BOOLEAN /\ responded \in BOOLEAN
    BY <1>1, Zenon DEF Init
  <2>2. db \in Rows
    BY <1>1, RowTyping DEF Init
  <2> QED BY <1>1, <2>1, <2>2 DEF Init, TypeOK
<1>2. ASSUME TypeOK, [Next]_vars PROVE TypeOK'
  <2> USE <1>2 DEF TypeOK
  <2>1. ASSUME NEW p \in Work, Client(p) PROVE TypeOK'
    <3>1. CASE Prompt(p)
      BY <3>1 DEF Prompt, Goto, Pruned
    <3>2. CASE SpawnPrompt(p) \/ Handover(p)
      BY <3>2 DEF SpawnPrompt, Handover, Goto
    <3>3. CASE ClearInteractiveBlock(p)
      <4>1. paused' \in BOOLEAN /\ block' \in BOOLEAN /\ responded' \in BOOLEAN
        BY <3>3, Zenon DEF ClearInteractiveBlock, Goto
      <4> QED BY <3>3, <4>1 DEF ClearInteractiveBlock, Goto
    <3> QED BY <2>1, <3>1, <3>2, <3>3 DEF Client
  <2>2. ASSUME NEW p \in Work, Handler(p) PROVE TypeOK'
    <3>1. CASE EnqueuePrompt(p)
      BY <3>1 DEF EnqueuePrompt, Goto
    <3>2. CASE DrainKill(p)
      BY <3>2 DEF DrainKill
    <3>3. CASE DrainEnd(p)
      BY <3>3 DEF DrainEnd, Goto, Pruned
    <3>4. CASE AnswerUnpause(p)
      <4>1. paused' \in BOOLEAN /\ block' \in BOOLEAN /\ responded' \in BOOLEAN
        BY <3>4, Zenon DEF AnswerUnpause, Goto
      <4> QED BY <3>4, <4>1 DEF AnswerUnpause, Goto
    <3>5. CASE AnswerSave(p)
      BY <3>5 DEF AnswerSave, Goto, SaveRow
    <3>6. CASE HandoverSave(p)
      <4>1. (pc[p] = "briefBlocked") \in BOOLEAN
        BY Zenon
      <4> QED BY <3>6, <4>1 DEF HandoverSave, Goto, SaveRow
    <3> QED BY <2>2, <3>1, <3>2, <3>3, <3>4, <3>5, <3>6 DEF Handler
  <2>3. ASSUME NEW p \in Work, Turn(p) PROVE TypeOK'
    <3>1. CASE RunTurn(p)
      BY <3>1 DEF RunTurn, Goto
    <3>2. CASE SaveWorking(p)
      BY <3>2 DEF SaveWorking, Goto, SaveRow
    <3>3. CASE BlockSave(p)
      BY <3>3 DEF BlockSave, Goto, SaveRow
    <3>4. CASE BlockPause(p)
      BY <3>4 DEF BlockPause, Goto
    <3>5. CASE BlockStop(p)
      BY <3>5 DEF BlockStop, Goto
    <3>6. CASE ChildExit(p)
      BY <3>6 DEF ChildExit
    <3>7. CASE Reap(p)
      BY <3>7 DEF Reap, Goto
    <3>8. CASE Settle(p)
      <4>1. paused' \in BOOLEAN /\ block' \in BOOLEAN /\ responded' \in BOOLEAN
        BY <3>8, Zenon DEF Settle, Goto
      <4> QED BY <3>8, <4>1 DEF Settle, Goto
    <3>9. CASE TakeBlock(p)
      <4>1. paused' \in BOOLEAN /\ block' \in BOOLEAN /\ responded' \in BOOLEAN
        BY <3>9, Zenon DEF TakeBlock, Goto
      <4> QED BY <3>9, <4>1 DEF TakeBlock, Goto
    <3>10. CASE PauseOnError(p)
      BY <3>10 DEF PauseOnError, Goto
    <3>11. CASE SaveOutcome(p)
      <4>1. CASE pc[p] = "saveBlocked"
        <5>1. db' \in Rows
          BY <3>11, <4>1, RowTyping DEF SaveOutcome, SaveRow
        <5> QED BY <3>11, <4>1, <5>1 DEF SaveOutcome, Goto
      <4>2. CASE pc[p] = "saveIdle"
        <5>1. db' = [state |-> "Idle", blocked |-> FALSE]
          BY <3>11, <4>2, "saveIdle" # "saveBlocked", Zenon DEF SaveOutcome, SaveRow
        <5>2. db' \in Rows
          BY <5>1, RowTyping, FALSE \in BOOLEAN
        <5> QED BY <3>11, <4>2, <5>2 DEF SaveOutcome, Goto
      <4> QED BY <3>11, <4>1, <4>2 DEF SaveOutcome
    <3>12. CASE CheckPaused(p)
      BY <3>12 DEF CheckPaused, Goto
    <3>13. CASE DispatchNext(p)
      <4>1. pc' \in [Work -> Phases] /\ queue' \in Seq(Work)
        BY <3>13, DequeueTyping DEF DispatchNext
      <4> QED BY <3>13, <4>1 DEF DispatchNext
    <3>14. CASE Unwind(p)
      BY <3>14 DEF Unwind, Goto
    <3> QED BY <2>3, <3>1, <3>2, <3>3, <3>4, <3>5, <3>6, <3>7, <3>8, <3>9, <3>10, <3>11, <3>12, <3>13, <3>14 DEF Turn
  <2>4. ASSUME NEW p \in Work, TriggerBlock(p) PROVE TypeOK'
    BY <2>4 DEF TriggerBlock, Goto
  <2>5. ASSUME NEW i \in 1..Len(queue), DeletePromptQueueItem(i) PROVE TypeOK'
    <3>1. RemoveAt(queue, i) \in Seq(Work)
      BY RemoveAtType
    <3> QED BY <2>5, <3>1 DEF DeletePromptQueueItem, Goto
  <2>6. CASE ClearPromptQueue
    <3>1. paused' \in BOOLEAN /\ block' \in BOOLEAN /\ responded' \in BOOLEAN
      BY <2>6, Zenon DEF ClearPromptQueue
    <3> QED BY <2>6, <3>1 DEF ClearPromptQueue
  <2>7. CASE ResumeUnpause
    <3>1. paused' \in BOOLEAN /\ block' \in BOOLEAN /\ responded' \in BOOLEAN
      BY <2>7, Zenon DEF ResumeUnpause
    <3> QED BY <2>7, <3>1 DEF ResumeUnpause
  <2>8. CASE ResumeCheck
    BY <2>8 DEF ResumeCheck, Pruned
  <2>9. CASE ResumeDequeue
    <3>1. pc' \in [Work -> Phases] /\ queue' \in Seq(Work)
      BY <2>9, DequeueTyping DEF ResumeDequeue
    <3> QED BY <2>9, <3>1 DEF ResumeDequeue
  <2>10. CASE CancelSignal
    BY <2>10 DEF CancelSignal
  <2>11. CASE CancelPause
    BY <2>11 DEF CancelPause
  <2>12. CASE CancelSave
    BY <2>12 DEF CancelSave, SaveRow
  <2>13. CASE ScanRead
    BY <2>13 DEF ScanRead
  <2>14. CASE ScanCheck
    BY <2>14 DEF ScanCheck, Pruned
  <2>15. CASE ScanSave
    <3>1. CASE scan.at = "setWorking"
      BY <2>15, <3>1 DEF ScanSave, SaveRow
    <3>2. CASE scan.at = "setIdle"
      <4>1. db' = [state |-> "Idle", blocked |-> FALSE]
        BY <2>15, <3>2, "setIdle" # "setWorking", Zenon DEF ScanSave, SaveRow
      <4>2. db' \in Rows
        BY <4>1, RowTyping, FALSE \in BOOLEAN
      <4> QED BY <2>15, <3>2, <4>2 DEF ScanSave
    <3> QED BY <2>15, <3>1, <3>2 DEF ScanSave
  <2>16. CASE Restart
    <3>1. paused' \in BOOLEAN /\ block' \in BOOLEAN /\ responded' \in BOOLEAN
      BY <2>16, Zenon DEF Restart
    <3> QED BY <2>16, <3>1 DEF Restart
  <2>17. CASE UNCHANGED vars
    BY <2>17 DEF vars
  <2> QED BY <2>1, <2>2, <2>3, <2>4, <2>5, <2>6, <2>7, <2>8, <2>9, <2>10, <2>11, <2>12, <2>13, <2>14, <2>15, <2>16, <2>17 DEF Next, ResumeSteps, CancelSteps, ScanSteps
<1> QED BY <1>1, <1>2, PTL DEF Spec

\* A step that moves one prompt outside the queue leaves the queue exact.
LEMMA QueueFrame ==
  ASSUME TypeOK, QueueExact, UNCHANGED queue,
         NEW p \in Work, NEW phase, Goto(p, phase),
         pc[p] # "queued", phase # "queued"
  PROVE  QueueExact'
BY DEF TypeOK, QueueExact, Goto

\* So does DequeuePrompt, when next is pc or moves a prompt that is not queued.
LEMMA QueueDequeue ==
  ASSUME TypeOK, QueueExact, NEW next \in [Work -> Phases], DequeueThen(next),
         \A p \in Work : next[p] = "queued" <=> pc[p] = "queued"
  PROVE  QueueExact'
<1> USE DEF TypeOK
<1>1. CASE queue = <<>>
  BY <1>1 DEF DequeueThen, QueueExact
<1>2. CASE queue # <<>>
  <2>1. /\ Head(queue) = queue[1] /\ Tail(queue) \in Seq(Work)
        /\ Len(Tail(queue)) = Len(queue) - 1
        /\ \A i \in 1..Len(queue)-1 : Tail(queue)[i] = queue[i+1]
    BY <1>2, HeadTailProperties
  <2>2. /\ queue' = Tail(queue) /\ pc' = [next EXCEPT ![queue[1]] = "launch"]
        /\ Len(queue) \in Nat \ {0} /\ \A i \in 1..Len(queue) : queue[i] \in Work
    BY <1>2, <2>1, EmptySeq DEF DequeueThen
  <2>3. \A i \in 1..Len(queue') : /\ queue'[i] = queue[i+1]
                                  /\ i+1 \in 1..Len(queue) /\ i+1 # 1
    BY <2>1, <2>2
  <2>4. \A i \in 1..Len(queue') : pc'[queue'[i]] = "queued"
    BY <2>2, <2>3 DEF QueueExact
  <2>5. \A i, j \in 1..Len(queue') : queue'[i] = queue'[j] => i = j
    BY <2>2, <2>3 DEF QueueExact
  <2>6. ASSUME NEW p \in Work, pc'[p] = "queued"
        PROVE  \E i \in 1..Len(queue') : queue'[i] = p
    <3>1. pc[p] = "queued" /\ p # queue[1]
      BY <2>2, <2>6
    <3>2. PICK k \in 1..Len(queue) : queue[k] = p
      BY <3>1 DEF QueueExact
    <3>3. k - 1 \in 1..Len(queue') /\ queue'[k-1] = p
      BY <2>1, <2>2, <3>1, <3>2
    <3> QED BY <3>3
  <2> QED BY <2>4, <2>5, <2>6 DEF QueueExact
<1> QED BY <1>1, <1>2

\* The queue and the control state of the prompts agree in every reachable
\* state, for any number of prompts and answers.
THEOREM QueueConsistent == Spec => []QueueExact
<1> USE DEF Phases, BeforeLaunch, Streaming, Settling
<1>1. ASSUME Init PROVE QueueExact
  <2>1. queue = <<>> /\ pc = [p \in Work |-> "new"]
    BY <1>1, Zenon DEF Init
  <2> QED BY <2>1 DEF QueueExact
<1>2. ASSUME TypeOK, QueueExact, [Next]_vars PROVE QueueExact'
  <2>1. ASSUME NEW p \in Work, Client(p) PROVE QueueExact'
    <3>1. UNCHANGED queue /\ pc[p] = "new"
          /\ \E phase \in {"enqueue", "launch", "brief", "briefBlocked",
                             "unpause", "drain"} : Goto(p, phase)
      BY <2>1 DEF Client, Prompt, SpawnPrompt, Handover, ClearInteractiveBlock
    <3> QED BY <1>2, <3>1, QueueFrame
  <2>2. ASSUME NEW p \in Work, Handler(p) PROVE QueueExact'
    <3>1. CASE EnqueuePrompt(p)
      <4>1. queue' = Append(queue, p) /\ pc' = [pc EXCEPT ![p] = "queued"]
            /\ pc[p] = "enqueue"
        BY <3>1 DEF EnqueuePrompt, Goto
      <4>2. /\ Len(queue') = Len(queue) + 1 /\ queue'[Len(queue) + 1] = p
            /\ \A i \in 1..Len(queue) : queue'[i] = queue[i]
        BY <1>2, <4>1, AppendProperties DEF TypeOK
      <4>3. Len(queue) \in Nat /\ \A i \in 1..Len(queue) : queue[i] \in Work /\ queue[i] # p
        BY <1>2, <4>1 DEF TypeOK, QueueExact
      <4>4. \A q \in Work : pc'[q] = IF q = p THEN "queued" ELSE pc[q]
        BY <1>2, <4>1 DEF TypeOK
      <4>5. \A i \in 1..Len(queue') :
              \/ i \in 1..Len(queue) /\ queue'[i] = queue[i] /\ queue'[i] # p
              \/ i = Len(queue) + 1 /\ queue'[i] = p
        BY <4>2, <4>3
      <4>6. \A i \in 1..Len(queue') : pc'[queue'[i]] = "queued"
        BY <1>2, <4>3, <4>4, <4>5 DEF QueueExact
      <4>7. \A i, j \in 1..Len(queue') : queue'[i] = queue'[j] => i = j
        BY <1>2, <4>5 DEF QueueExact
      <4>8. ASSUME NEW q \in Work, pc'[q] = "queued"
            PROVE  \E i \in 1..Len(queue') : queue'[i] = q
        <5>1. CASE q = p
          BY <4>2, <4>3, <5>1
        <5>2. CASE q # p
          <6>1. PICK i \in 1..Len(queue) : queue[i] = q
            BY <1>2, <4>4, <4>8, <5>2 DEF QueueExact
          <6> QED BY <4>2, <4>3, <6>1
        <5> QED BY <5>1, <5>2
      <4> QED BY <4>6, <4>7, <4>8 DEF QueueExact
    <3>2. CASE DrainKill(p)
      BY <1>2, <3>2 DEF DrainKill, QueueExact
    <3>3. CASE DrainEnd(p) \/ AnswerUnpause(p) \/ AnswerSave(p) \/ HandoverSave(p)
      <4>1. UNCHANGED queue /\ pc[p] # "queued"
            /\ \E phase \in {"unpause", "saveAns", "launch"} : Goto(p, phase)
        BY <3>3 DEF DrainEnd, AnswerUnpause, AnswerSave, HandoverSave
      <4> QED BY <1>2, <4>1, QueueFrame
    <3> QED BY <2>2, <3>1, <3>2, <3>3 DEF Handler
  <2>3. ASSUME NEW p \in Work, Turn(p) \/ TriggerBlock(p) PROVE QueueExact'
    <3>1. CASE ChildExit(p)
      BY <1>2, <3>1 DEF ChildExit, QueueExact
    <3>2. CASE DispatchNext(p)
      <4> DEFINE next == [pc EXCEPT ![p] = "unwind"]
      <4>1. next \in [Work -> Phases] /\ DequeueThen(next)
            /\ \A q \in Work : next[q] = "queued" <=> pc[q] = "queued"
        BY <1>2, <3>2 DEF DispatchNext, TypeOK
      <4> QED BY <1>2, <4>1, QueueDequeue
    <3>3. CASE RunTurn(p) \/ SaveWorking(p) \/ TriggerBlock(p) \/ BlockSave(p)
                \/ BlockPause(p) \/ BlockStop(p) \/ Reap(p) \/ Settle(p)
      <4>1. UNCHANGED queue /\ pc[p] # "queued"
            /\ \E phase \in Streaming \cup Settling \cup {"lost"} : Goto(p, phase)
        BY <3>3 DEF RunTurn, SaveWorking, TriggerBlock, BlockSave, BlockPause,
                    BlockStop, Reap, Settle, Goto
      <4> QED BY <1>2, <4>1, QueueFrame
    <3>4. CASE TakeBlock(p) \/ PauseOnError(p) \/ SaveOutcome(p)
                \/ CheckPaused(p) \/ Unwind(p)
      <4>1. UNCHANGED queue /\ pc[p] # "queued"
            /\ \E phase \in Settling \cup {"done"} : Goto(p, phase)
        BY <3>4 DEF TakeBlock, PauseOnError, SaveOutcome, CheckPaused, Unwind, Goto
      <4> QED BY <1>2, <4>1, QueueFrame
    <3> QED BY <2>3, <3>1, <3>2, <3>3, <3>4 DEF Turn
  <2>4. ASSUME NEW i \in 1..Len(queue), DeletePromptQueueItem(i) PROVE QueueExact'
    <3>1. queue' = RemoveAt(queue, i) /\ pc' = [pc EXCEPT ![queue[i]] = "removed"]
      BY <2>4 DEF DeletePromptQueueItem, Goto
    <3>2. /\ Len(queue') = Len(queue) - 1
          /\ \A j \in 1..Len(queue)-1 :
               queue'[j] = IF j < i THEN queue[j] ELSE queue[j+1]
      <4>1. queue \in Seq(Work)
        BY <1>2 DEF TypeOK
      <4> QED BY ONLY <4>1, <3>1, <2>4, RemoveAtType
    <3>3. Len(queue) \in Nat /\ \A j \in 1..Len(queue) : queue[j] \in Work
      BY <1>2 DEF TypeOK
    <3>4. ASSUME NEW j \in 1..Len(queue')
          PROVE  \E k \in 1..Len(queue) : queue'[j] = queue[k] /\ k # i
      <4>1. CASE j < i
        BY <4>1, <3>2, <3>3
      <4>2. CASE ~(j < i)
        <5>1. j+1 \in 1..Len(queue) /\ queue'[j] = queue[j+1] /\ j+1 # i
          BY <4>2, <3>2, <3>3
        <5> QED BY <5>1
      <4> QED BY <4>1, <4>2
    <3>5. \A j \in 1..Len(queue') : pc'[queue'[j]] = "queued"
      BY <1>2, <3>1, <3>3, <3>4 DEF QueueExact, TypeOK
    <3>6. ASSUME NEW j \in 1..Len(queue'), NEW k \in 1..Len(queue'), queue'[j] = queue'[k]
          PROVE  j = k
      <4> DEFINE at(n) == IF n < i THEN n ELSE n+1
      <4>1. at(j) \in 1..Len(queue) /\ queue'[j] = queue[at(j)]
        BY <3>2, <3>3
      <4>2. at(k) \in 1..Len(queue) /\ queue'[k] = queue[at(k)]
        BY <3>2, <3>3
      <4>3. at(j) = at(k)
        <5> HIDE DEF at
        <5> QED BY <1>2, <3>6, <4>1, <4>2 DEF QueueExact
      <4> QED BY <3>2, <3>3, <4>3
    <3>7. ASSUME NEW p \in Work, pc'[p] = "queued"
          PROVE  \E j \in 1..Len(queue') : queue'[j] = p
      <4>1. pc[p] = "queued" /\ p # queue[i]
        BY <1>2, <3>1, <3>3, <3>7 DEF TypeOK
      <4>2. PICK k \in 1..Len(queue) : queue[k] = p
        BY <1>2, <4>1 DEF QueueExact
      <4>3. CASE k < i
        BY <4>2, <4>3, <3>2, <3>3
      <4>4. CASE k > i
        <5>1. k-1 \in 1..Len(queue') /\ queue'[k-1] = queue[k]
          BY <4>4, <3>2, <3>3
        <5> QED BY <5>1, <4>2
      <4> QED BY <4>1, <4>2, <4>3, <4>4
    <3> QED BY <3>5, <3>6, <3>7 DEF QueueExact
  <2>5. CASE ResumeDequeue
    BY <1>2, <2>5, QueueDequeue DEF ResumeDequeue, TypeOK
  <2>6. CASE ClearPromptQueue
    BY <1>2, <2>6 DEF ClearPromptQueue, QueueExact
  <2>7. CASE Restart
    BY <1>2, <2>7 DEF Restart, QueueExact
  <2>8. CASE UNCHANGED <<pc, queue>>
    BY <1>2, <2>8 DEF QueueExact
  <2>9. CASE \/ ResumeUnpause \/ ResumeCheck \/ CancelSignal \/ CancelSteps
             \/ ScanSteps \/ UNCHANGED vars
    BY <2>8, <2>9 DEF ResumeUnpause, ResumeCheck, CancelSignal, CancelSteps,
       CancelPause, CancelSave, ScanSteps, ScanRead, ScanCheck, ScanSave, vars
  <2> QED
    BY <1>2, <2>1, <2>2, <2>3, <2>4, <2>5, <2>6, <2>7, <2>9 DEF Next, ResumeSteps
<1> QED BY Typing, <1>1, <1>2, PTL DEF Spec

\* With unhurried callers turns do not overlap.
LEMMA TurnsApart == ASSUME Unhurried PROVE Spec => []OneTurn
<1> USE DEF Phases, BeforeLaunch, Streaming, Settling
<1>1. ASSUME Init PROVE OneTurn
  <2>1. proc = NoTurn /\ pc = [p \in Work |-> "new"] /\ child = [p \in Work |-> "none"]
    BY <1>1, Zenon DEF Init
  <2> QED BY <2>1 DEF OneTurn, Alive, Busy
<1>2. ASSUME TypeOK, QueueExact, OneTurn, [Next]_vars PROVE OneTurn'
  <2> USE <1>2, WorkAssumption DEF TypeOK, OneTurn, Alive, Busy, Work
  <2>1. ASSUME NEW p \in Work, Client(p) PROVE OneTurn'
    <3>1. CASE Prompt(p)
      BY <3>1 DEF Prompt, Goto, Pruned, IsRunning
    <3>2. CASE SpawnPrompt(p) \/ Handover(p)
      BY <3>2 DEF SpawnPrompt, Handover, Goto
    <3>3. CASE ClearInteractiveBlock(p)
      BY <3>3 DEF ClearInteractiveBlock, Goto
    <3> QED BY <2>1, <3>1, <3>2, <3>3 DEF Client
  <2>2. ASSUME NEW p \in Work, Handler(p) PROVE OneTurn'
    <3>1. CASE EnqueuePrompt(p)
      BY <3>1 DEF EnqueuePrompt, Goto
    <3>2. CASE DrainKill(p)
      BY <3>2 DEF DrainKill
    <3>3. CASE DrainEnd(p)
      BY <3>3 DEF DrainEnd, Goto, Pruned, IsRunning
    <3>4. CASE AnswerUnpause(p)
      BY <3>4 DEF AnswerUnpause, Goto
    <3>5. CASE AnswerSave(p)
      BY <3>5 DEF AnswerSave, Goto
    <3>6. CASE HandoverSave(p)
      BY <3>6 DEF HandoverSave, Goto
    <3> QED BY <2>2, <3>1, <3>2, <3>3, <3>4, <3>5, <3>6 DEF Handler
  <2>3. ASSUME NEW p \in Work, Turn(p) PROVE OneTurn'
    <3>1. CASE RunTurn(p)
      BY <3>1 DEF RunTurn, Goto, Settled
    <3>2. CASE SaveWorking(p)
      BY <3>2 DEF SaveWorking, Goto
    <3>3. CASE BlockSave(p)
      BY <3>3 DEF BlockSave, Goto
    <3>4. CASE BlockPause(p)
      BY <3>4 DEF BlockPause, Goto
    <3>5. CASE BlockStop(p)
      BY <3>5 DEF BlockStop, Goto
    <3>6. CASE ChildExit(p)
      BY <3>6 DEF ChildExit
    <3>7. CASE Reap(p)
      BY <3>7 DEF Reap, Goto
    <3>8. CASE Settle(p)
      BY <3>8 DEF Settle, Goto
    <3>9. CASE TakeBlock(p)
      BY <3>9 DEF TakeBlock, Goto
    <3>10. CASE PauseOnError(p)
      BY <3>10 DEF PauseOnError, Goto
    <3>11. CASE SaveOutcome(p)
      <4>1. pc[p] \in {"saveBlocked", "saveIdle"} /\ UNCHANGED <<child, proc>>
            /\ \E phase \in {"unwind", "check"} : pc' = [pc EXCEPT ![p] = phase]
        BY <3>11 DEF SaveOutcome, Goto
      <4> QED BY <4>1
    <3>12. CASE CheckPaused(p)
      BY <3>12 DEF CheckPaused, Goto
    <3>13. CASE DispatchNext(p)
      BY <3>13 DEF DispatchNext, DequeueThen
    <3>14. CASE Unwind(p)
      BY <3>14 DEF Unwind, Goto
    <3> QED BY <2>3, <3>1, <3>2, <3>3, <3>4, <3>5, <3>6, <3>7, <3>8, <3>9, <3>10, <3>11, <3>12, <3>13, <3>14 DEF Turn
  <2>4. ASSUME NEW p \in Work, TriggerBlock(p) PROVE OneTurn'
    BY <2>4 DEF TriggerBlock, Goto
  <2>5. ASSUME NEW i \in 1..Len(queue), DeletePromptQueueItem(i) PROVE OneTurn'
    <3>1. queue[i] \in Work /\ pc[queue[i]] = "queued"
      BY DEF QueueExact
    <3> QED BY <2>5, <3>1 DEF DeletePromptQueueItem, Goto
  <2>6. CASE ClearPromptQueue
    BY <2>6 DEF ClearPromptQueue
  <2>7. CASE ResumeUnpause
    BY <2>7 DEF ResumeUnpause
  <2>8. CASE ResumeCheck
    BY <2>8 DEF ResumeCheck, Pruned, IsRunning
  <2>9. CASE ResumeDequeue
    <3>1. CASE queue = <<>>
      BY <2>9, <3>1 DEF ResumeDequeue, DequeueThen
    <3>2. CASE queue # <<>>
      <4>1. Head(queue) \in Work /\ pc[Head(queue)] = "queued"
        BY <3>2, HeadTailProperties, EmptySeq DEF QueueExact
      <4>2. pc' = [pc EXCEPT ![Head(queue)] = "launch"] /\ UNCHANGED <<proc, child>>
        BY <2>9, <3>2 DEF ResumeDequeue, DequeueThen
      <4>3. \A q \in Work : \/ pc'[q] = pc[q]
                            \/ pc[q] = "queued" /\ pc'[q] = "launch"
        BY <4>1, <4>2
      <4> QED BY <4>2, <4>3
    <3> QED BY <3>1, <3>2
  <2>10. CASE CancelSignal
    BY <2>10 DEF CancelSignal
  <2>11. CASE CancelPause
    BY <2>11 DEF CancelPause
  <2>12. CASE CancelSave
    BY <2>12 DEF CancelSave
  <2>13. CASE ScanRead
    BY <2>13 DEF ScanRead
  <2>14. CASE ScanCheck
    BY <2>14 DEF ScanCheck, Pruned, IsRunning
  <2>15. CASE ScanSave
    BY <2>15 DEF ScanSave
  <2>16. CASE Restart
    BY <2>16 DEF Restart
  <2>17. CASE UNCHANGED vars
    BY <2>17 DEF vars
  <2> QED BY <2>1, <2>2, <2>3, <2>4, <2>5, <2>6, <2>7, <2>8, <2>9, <2>10, <2>11, <2>12, <2>13, <2>14, <2>15, <2>16, <2>17 DEF Next, ResumeSteps, CancelSteps, ScanSteps
<1> QED BY Typing, QueueConsistent, <1>1, <1>2, PTL DEF Spec

\* With unhurried callers a live child is the tracked one, for any number of
\* prompts and answers (RunTurn, IsRunning, the deletions of h.processes).
THEOREM SingleTurn == ASSUME Unhurried PROVE Spec => []RunningIsTracked
<1>1. OneTurn => RunningIsTracked
  BY DEF OneTurn, RunningIsTracked
<1> QED BY TurnsApart, <1>1, PTL

\* An open question is of a turn that began, and its block is there until the
\* goroutine of that turn takes it.
Unanswered == Streaming \cup {"reaped", "take"}
Pending ==
  \A p \in Work : asked[p] = "open" =>
    /\ pc[p] \in Unanswered \cup {"saveBlocked", "unwind", "done"}
    /\ pc[p] \in Unanswered => block

\* A step that moves one prompt, and neither asks nor clears a block.
LEMMA PendingKept ==
  ASSUME TypeOK, Pending, NEW p \in Work, NEW phase, Goto(p, phase),
         UNCHANGED <<asked, block>>,
         asked[p] = "open" =>
           /\ phase \in Unanswered \cup {"saveBlocked", "unwind", "done"}
           /\ phase \in Unanswered => block
  PROVE  Pending'
BY DEF TypeOK, Pending, Goto

\* DequeuePrompt moves a prompt that waited.
LEMMA PendingDequeue ==
  ASSUME TypeOK, QueueExact, Pending, NEW next, DequeueThen(next),
         UNCHANGED <<asked, block>>,
         \A p \in Work : next[p] = pc[p] \/ next[p] = "unwind",
         next \in [Work -> Phases]
  PROVE  Pending'
<1> USE DEF Unanswered, Streaming, Pending
<1>1. CASE queue = <<>>
  BY <1>1 DEF DequeueThen
<1>2. CASE queue # <<>>
  <2>1. Head(queue) \in Work /\ pc[Head(queue)] = "queued"
    BY <1>2, HeadTailProperties, EmptySeq DEF QueueExact, TypeOK
  <2>2. pc' = [next EXCEPT ![Head(queue)] = "launch"]
    BY <1>2 DEF DequeueThen
  <2>3. asked[Head(queue)] # "open"
    BY <2>1
  <2> QED BY <2>1, <2>2, <2>3
<1> QED BY <1>1, <1>2

\* With unhurried callers an open question always ends in a Blocked row, an
\* answer or a restart: no turn that asked completes as Idle.
THEOREM QuestionAnswered == ASSUME Unhurried PROVE Spec => []QuestionReachesOutcome
<1> USE DEF Unanswered, Streaming
<1>1. ASSUME Init PROVE Pending
  BY <1>1 DEF Init, Pending
<1>2. ASSUME TypeOK, QueueExact, OneTurn, Pending, [Next]_vars PROVE Pending'
  <2> USE <1>2
  <2>1. ASSUME NEW p \in Work, Client(p) PROVE Pending'
    <3>1. pc[p] = "new" /\ asked[p] # "open"
      BY <2>1 DEF Client, Prompt, SpawnPrompt, Handover, ClearInteractiveBlock, Pending
    <3>2. CASE Prompt(p) \/ SpawnPrompt(p) \/ Handover(p)
      <4>1. UNCHANGED <<asked, block>> /\ \E phase \in Phases : Goto(p, phase)
        BY <3>2 DEF Prompt, SpawnPrompt, Handover, Phases, BeforeLaunch
      <4> QED BY <3>1, <4>1, PendingKept
    <3>3. CASE ClearInteractiveBlock(p)
      BY <3>3 DEF ClearInteractiveBlock, Pending
    <3> QED BY <2>1, <3>2, <3>3 DEF Client
  <2>2. ASSUME NEW p \in Work, Handler(p) PROVE Pending'
    <3>1. CASE DrainKill(p)
      BY <3>1 DEF DrainKill, Pending
    <3>2. CASE ~DrainKill(p)
      <4>1. /\ UNCHANGED <<asked, block>>
            /\ pc[p] \in {"enqueue", "brief", "briefBlocked", "drain", "unpause", "saveAns"}
            /\ \E phase \in Phases : Goto(p, phase)
        BY <2>2, <3>2 DEF Handler, EnqueuePrompt, HandoverSave, DrainEnd, AnswerUnpause,
           AnswerSave, Phases, BeforeLaunch
      <4>2. asked[p] # "open"
        BY <4>1 DEF Pending
      <4> QED BY <4>1, <4>2, PendingKept
    <3> QED BY <3>1, <3>2
  <2>3. ASSUME NEW p \in Work, Turn(p) PROVE Pending'
    <3>1. CASE ChildExit(p)
      BY <3>1 DEF ChildExit, Pending
    <3>2. CASE RunTurn(p)
      <4>1. /\ UNCHANGED <<asked, block>> /\ pc[p] = "launch"
            /\ \E phase \in Phases : Goto(p, phase)
        BY <3>2 DEF RunTurn, Phases
      <4>2. asked[p] # "open"
        BY <4>1 DEF Pending
      <4> QED BY <4>1, <4>2, PendingKept
    <3>3. CASE SaveWorking(p) \/ BlockSave(p) \/ BlockPause(p) \/ BlockStop(p) \/ Reap(p)
               \/ Settle(p)
      <4>1. /\ UNCHANGED <<asked, block>> /\ pc[p] \in Unanswered
            /\ \E phase \in Unanswered \cup {"unwind"} : Goto(p, phase)
        BY <3>3 DEF SaveWorking, BlockSave, BlockPause, BlockStop, Reap, Settle
      <4>2. asked[p] = "open" => block
        BY <4>1 DEF Pending
      <4> QED BY <4>1, <4>2, PendingKept
    <3>4. CASE TakeBlock(p)
      <4>1. pc[p] = "take" /\ ~block' /\ UNCHANGED asked
        BY <3>4 DEF TakeBlock
      <4>2. ASSUME NEW q \in Work, asked[q] = "open"
            PROVE  /\ pc'[q] \in {"saveBlocked", "unwind", "done"}
        <5>1. CASE q = p
          BY <3>4, <4>1, <4>2, <5>1 DEF TakeBlock, Pending, Goto, TypeOK
        <5>2. CASE q # p
          <6>1. ~Busy(q)
            BY <4>1, <5>2 DEF OneTurn, Busy, Settling
          <6>2. pc[q] = "done"
            BY <4>2, <6>1 DEF Busy, Settling, Pending
          <6>3. pc'[q] = pc[q]
            BY <3>4, <5>2 DEF TakeBlock, Goto, TypeOK
          <6> QED BY <6>2, <6>3
        <5> QED BY <5>1, <5>2
      <4> QED BY <4>1, <4>2 DEF Pending
    <3>5. CASE PauseOnError(p) \/ SaveOutcome(p) \/ CheckPaused(p) \/ Unwind(p)
      <4>1. /\ UNCHANGED <<asked, block>>
            /\ pc[p] \in {"errPause", "saveBlocked", "saveIdle", "check", "unwind"}
            /\ \E phase \in {"saveIdle", "unwind", "check", "dequeue", "done"} : Goto(p, phase)
            /\ pc[p] \in {"saveBlocked", "unwind"} => Goto(p, "unwind") \/ Goto(p, "done")
        BY <3>5 DEF PauseOnError, SaveOutcome, CheckPaused, Unwind
      <4>2. asked[p] = "open" => pc[p] \in {"saveBlocked", "unwind"}
        BY <4>1 DEF Pending
      <4> QED BY <4>1, <4>2, PendingKept
    <3>6. CASE DispatchNext(p)
      <4> DEFINE next == [pc EXCEPT ![p] = "unwind"]
      <4>1. /\ DequeueThen(next) /\ UNCHANGED <<asked, block>>
            /\ next \in [Work -> Phases]
            /\ \A q \in Work : next[q] = pc[q] \/ next[q] = "unwind"
        BY <3>6 DEF DispatchNext, TypeOK, Phases, Settling
      <4> QED BY <4>1, PendingDequeue
    <3> QED BY <2>3, <3>1, <3>2, <3>3, <3>4, <3>5, <3>6 DEF Turn
  <2>4. ASSUME NEW p \in Work, TriggerBlock(p) PROVE Pending'
    BY <2>4 DEF TriggerBlock, Goto, Pending, TypeOK
  <2>5. ASSUME NEW i \in 1..Len(queue), DeletePromptQueueItem(i) PROVE Pending'
    <3>1. queue[i] \in Work /\ pc[queue[i]] = "queued"
      BY DEF QueueExact, TypeOK
    <3>2. asked[queue[i]] # "open"
      BY <3>1 DEF Pending
    <3> QED BY <2>5, <3>1, <3>2, PendingKept DEF DeletePromptQueueItem
  <2>6. CASE ClearPromptQueue
    BY <2>6 DEF ClearPromptQueue, Pending
  <2>7. CASE ResumeDequeue
    BY <2>7, PendingDequeue DEF ResumeDequeue, TypeOK
  <2>8. CASE Restart
    BY <2>8 DEF Restart, Pending, Settling, BeforeLaunch
  <2>9. CASE \/ ResumeUnpause \/ ResumeCheck \/ CancelSignal \/ CancelSteps
             \/ ScanSteps \/ UNCHANGED vars
    <3>1. UNCHANGED <<pc, asked, block>>
      BY <2>9 DEF ResumeUnpause, ResumeCheck, CancelSignal, CancelSteps,
         CancelPause, CancelSave, ScanSteps, ScanRead, ScanCheck, ScanSave, vars
    <3> QED BY <3>1 DEF Pending
  <2> QED
    BY <2>1, <2>2, <2>3, <2>4, <2>5, <2>6, <2>7, <2>8, <2>9 DEF Next, ResumeSteps
<1>3. Pending => QuestionReachesOutcome
  BY DEF Pending, QuestionReachesOutcome
<1> QED BY Typing, QueueConsistent, TurnsApart, <1>1, <1>2, <1>3, PTL DEF Spec

\* The fate that the ledger sees, and how a change of one pc changes it.
Fates == [p \in Work |-> Fate(pc[p])]

LEMMA FateMove ==
  ASSUME TypeOK, NEW p \in Work, NEW phase \in Phases, Goto(p, phase)
  PROVE  Fates' = [Fates EXCEPT ![p] = Fate(phase)]
<1>1. pc \in [Work -> Phases] /\ pc' = [pc EXCEPT ![p] = phase]
  BY DEF TypeOK, Goto
<1>2. Fates' = [q \in Work |-> Fate(pc'[q])]
  BY DEF Fates, Fate
<1>3. ASSUME NEW q \in Work PROVE Fate(pc'[q]) = IF q = p THEN Fate(phase) ELSE Fates[q]
  BY <1>1 DEF Fates
<1> QED BY <1>2, <1>3 DEF Fates

LEMMA FateKept ==
  ASSUME TypeOK, NEW p \in Work, NEW phase \in Phases, Goto(p, phase),
         Fate(phase) = Fate(pc[p])
  PROVE  Fates' = Fates
BY DEF TypeOK, Goto, Fates, Fate

\* DequeuePrompt takes the head of the line, or finds the line empty.
LEMMA DequeueTakesHead ==
  ASSUME TypeOK, QueueExact, NEW next \in [Work -> Phases], DequeueThen(next),
         \A p \in Work : Fate(next[p]) = Fate(pc[p]),
         \A p \in Work : next[p] = "queued" <=> pc[p] = "queued"
  PROVE  Ledger!TakeHead \/ UNCHANGED <<Fates, queue>>
<1>1. CASE queue = <<>>
  BY <1>1 DEF DequeueThen, Fates
<1>2. CASE queue # <<>>
  <2>1. Head(queue) \in Work /\ pc[Head(queue)] = "queued"
    BY <1>2, HeadTailProperties, EmptySeq DEF QueueExact, TypeOK
  <2>2. pc' = [next EXCEPT ![Head(queue)] = "launch"] /\ queue' = Tail(queue)
    BY <1>2 DEF DequeueThen
  <2>3. Fate("queued") = "queued" /\ Fate("launch") = "taken"
    BY DEF Fate, BeforeLaunch
  <2>4. Fates' = [Fates EXCEPT ![Head(queue)] = "taken"]
    BY <2>1, <2>2, <2>3 DEF Fates
  <2>5. Fates[Head(queue)] = "queued"
    BY <2>1, <2>3 DEF Fates
  <2> QED BY <1>2, <2>2, <2>4, <2>5 DEF Ledger!TakeHead, Fates
<1> QED BY <1>1, <1>2

\* The engine implements the ledger: prompts leave the queue in FIFO order and
\* each starts at most one turn, whatever the interleaving and the restarts.
THEOREM LedgerImplemented == Spec => LedgerSpec
<1> USE DEF Phases, BeforeLaunch, Streaming, Settling
<1>1. ASSUME Init PROVE Ledger!Init
  <2>1. queue = <<>> /\ pc = [p \in Work |-> "new"]
    BY <1>1, Zenon DEF Init
  <2> QED BY <2>1 DEF Ledger!Init, Fate
<1>2. ASSUME TypeOK, QueueExact, [Next]_vars PROVE [Ledger!Next]_(Ledger!vars)
  <2> USE <1>2
  <2>0. Ledger!vars = <<Fates, queue>>
    BY DEF Ledger!vars, Fates
  <2>1. CASE UNCHANGED <<Fates, queue>>
    BY <2>0, <2>1 DEF Ledger!vars, Fates
  <2>2. CASE UNCHANGED <<pc, queue>>
    <3>1. UNCHANGED <<Fates, queue>>
      BY <2>2 DEF Fates
    <3> QED BY <2>1, <3>1
  <2>3. ASSUME NEW p \in Work, Goto(p, "launch"), pc[p] = "new", UNCHANGED queue
        PROVE  [Ledger!Next]_(Ledger!vars)
    <3>1. Fates' = [Fates EXCEPT ![p] = "taken"] /\ Fates[p] = "new"
      BY <2>3, FateMove DEF Fates, Fate
    <3>2. Ledger!Direct(p)
      BY <2>3, <3>1 DEF Ledger!Direct, Fates
    <3> QED BY <3>2 DEF Ledger!Next
  <2>4. ASSUME NEW p \in Work, Client(p) PROVE [Ledger!Next]_(Ledger!vars)
    <3>1. pc[p] = "new" /\ UNCHANGED queue
          /\ \E phase \in {"launch", "enqueue", "brief", "briefBlocked",
                             "drain", "unpause"} : Goto(p, phase)
      BY <2>4 DEF Client, Prompt, SpawnPrompt, Handover, ClearInteractiveBlock
    <3>2. ASSUME NEW phase \in {"enqueue", "brief", "briefBlocked", "drain", "unpause"},
                 Goto(p, phase)
          PROVE  UNCHANGED Fates
      BY <3>1, <3>2, FateKept DEF Fate
    <3> QED BY <2>1, <2>3, <3>1, <3>2
  <2>5. ASSUME NEW p \in Work, Handler(p) PROVE [Ledger!Next]_(Ledger!vars)
    <3>1. CASE EnqueuePrompt(p)
      <4>1. Fates' = [Fates EXCEPT ![p] = "queued"] /\ Fates[p] = "new"
        BY <3>1, FateMove DEF EnqueuePrompt, Fates, Fate
      <4>2. Ledger!Enqueue(p)
        BY <3>1, <4>1 DEF EnqueuePrompt, Ledger!Enqueue, Fates
      <4> QED BY <4>2 DEF Ledger!Next
    <3>2. CASE DrainKill(p)
      BY <2>2, <3>2 DEF DrainKill
    <3>3. CASE DrainEnd(p) \/ AnswerUnpause(p)
      <4>1. UNCHANGED queue /\ pc[p] \in {"drain", "unpause"}
            /\ \E phase \in {"unpause", "saveAns"} : Goto(p, phase)
        BY <3>3 DEF DrainEnd, AnswerUnpause
      <4>2. UNCHANGED Fates
        BY <4>1, FateKept DEF Fate
      <4> QED BY <2>1, <4>1, <4>2
    <3>4. CASE AnswerSave(p) \/ HandoverSave(p)
      <4>1. Fates' = [Fates EXCEPT ![p] = "taken"] /\ Fates[p] = "new" /\ UNCHANGED queue
        BY <3>4, FateMove DEF AnswerSave, HandoverSave, Fates, Fate
      <4>2. Ledger!Direct(p)
        BY <4>1 DEF Ledger!Direct, Fates
      <4> QED BY <4>2 DEF Ledger!Next
    <3> QED BY <2>5, <3>1, <3>2, <3>3, <3>4 DEF Handler
  <2>6. ASSUME NEW p \in Work, Turn(p) \/ TriggerBlock(p)
        PROVE  [Ledger!Next]_(Ledger!vars)
    <3>1. CASE RunTurn(p)
      <4>1. pc[p] = "launch" /\ UNCHANGED queue /\ (Goto(p, "lost") \/ Goto(p, "started"))
        BY <3>1 DEF RunTurn
      <4>2. CASE Goto(p, "lost")
        <5>1. Fates' = [Fates EXCEPT ![p] = "dropped"] /\ Fates[p] = "taken"
          BY <4>1, <4>2, FateMove DEF Fates, Fate
        <5>2. Ledger!Drop(p)
          BY <4>1, <5>1 DEF Ledger!Drop, Fates
        <5> QED BY <5>2 DEF Ledger!Next
      <4>3. CASE Goto(p, "started")
        <5>1. Fates' = [Fates EXCEPT ![p] = "started"] /\ Fates[p] = "taken"
          BY <4>1, <4>3, FateMove DEF Fates, Fate
        <5>2. Ledger!Start(p)
          BY <4>1, <5>1 DEF Ledger!Start, Fates
        <5> QED BY <5>2 DEF Ledger!Next
      <4> QED BY <4>1, <4>2, <4>3
    <3>2. CASE ChildExit(p)
      BY <2>2, <3>2 DEF ChildExit
    <3>3. CASE DispatchNext(p)
      <4> DEFINE next == [pc EXCEPT ![p] = "unwind"]
      <4>1. /\ next \in [Work -> Phases] /\ DequeueThen(next)
            /\ \A q \in Work : Fate(next[q]) = Fate(pc[q])
            /\ \A q \in Work : next[q] = "queued" <=> pc[q] = "queued"
        BY <3>3 DEF DispatchNext, TypeOK, Fate
      <4>2. Ledger!TakeHead \/ UNCHANGED <<Fates, queue>>
        BY <4>1, DequeueTakesHead
      <4> QED BY <2>1, <4>2 DEF Ledger!Next
    <3>4. CASE SaveWorking(p) \/ TriggerBlock(p) \/ BlockSave(p) \/ BlockPause(p)
                \/ BlockStop(p) \/ Reap(p) \/ Settle(p) \/ TakeBlock(p)
                \/ PauseOnError(p) \/ SaveOutcome(p) \/ CheckPaused(p) \/ Unwind(p)
      <4>1. UNCHANGED queue /\ pc[p] \in Streaming \cup Settling
            /\ \E phase \in Streaming \cup Settling \cup {"done"} : Goto(p, phase)
        BY <3>4 DEF SaveWorking, TriggerBlock, BlockSave, BlockPause, BlockStop, Reap,
                    Settle, TakeBlock, PauseOnError, SaveOutcome, CheckPaused, Unwind, Goto
      <4>2. UNCHANGED Fates
        BY <4>1, FateKept DEF Fate
      <4> QED BY <2>1, <4>1, <4>2
    <3> QED BY <2>6, <3>1, <3>2, <3>3, <3>4 DEF Turn
  <2>7. ASSUME NEW i \in 1..Len(queue), DeletePromptQueueItem(i)
        PROVE  [Ledger!Next]_(Ledger!vars)
    <3>1. queue[i] \in Work /\ pc[queue[i]] = "queued"
      BY DEF QueueExact, TypeOK
    <3>2. Fates' = [Fates EXCEPT ![queue[i]] = "removed"] /\ Fates[queue[i]] = "queued"
      BY <2>7, <3>1, FateMove DEF DeletePromptQueueItem, Fates, Fate
    <3>3. queue' = RemoveAt(queue, i)
      BY <2>7 DEF DeletePromptQueueItem
    <3>4. Ledger!Withdraw(i)
      BY <3>2, <3>3 DEF Ledger!Withdraw, Fates, RemoveAt, Ledger!RemoveAt
    <3> QED BY <3>4 DEF Ledger!Next
  <2>8. CASE ClearPromptQueue
    <3>1. Fates' = [p \in Work |-> IF Fates[p] = "queued" THEN "removed" ELSE Fates[p]]
      BY <2>8 DEF ClearPromptQueue, Fates, Fate, TypeOK
    <3>2. Ledger!WithdrawAll
      BY <2>8, <3>1 DEF ClearPromptQueue, Ledger!WithdrawAll, Fates
    <3> QED BY <3>2 DEF Ledger!Next
  <2>9. CASE ResumeDequeue
    <3>1. Ledger!TakeHead \/ UNCHANGED <<Fates, queue>>
      BY <2>9, DequeueTakesHead DEF ResumeDequeue, TypeOK
    <3> QED BY <2>1, <3>1 DEF Ledger!Next
  <2>10. CASE Restart
    <3>1. queue' = <<>> /\ Fates' \in [Work -> Ledger!Fates]
      BY <2>10 DEF Restart, Fates, Fate, Ledger!Fates, TypeOK
    <3>2. ASSUME NEW p \in Work
          PROVE  \/ Fates'[p] = Fates[p] /\ Fates[p] \notin {"queued", "taken"}
                 \/ Fates'[p] = "dropped" /\ Fates[p] \in {"new", "queued", "taken"}
      <4>1. pc[p] \in Phases
        BY DEF TypeOK
      <4>2. pc'[p] = CASE pc[p] \in {"queued", "launch"} \cup (BeforeLaunch \ {"new"}) -> "lost"
                       [] pc[p] \in Streaming \cup Settling -> "done"
                       [] OTHER -> pc[p]
        BY <2>10 DEF Restart
      <4> QED BY <4>1, <4>2 DEF Fates, Fate
    <3>3. Ledger!Forget
      BY <3>1, <3>2 DEF Ledger!Forget, Fates
    <3> QED BY <3>3 DEF Ledger!Next
  <2>11. CASE \/ ResumeUnpause \/ ResumeCheck \/ CancelSignal \/ CancelSteps
              \/ ScanSteps \/ UNCHANGED vars
    BY <2>2, <2>11 DEF ResumeUnpause, ResumeCheck, CancelSignal, CancelSteps,
       CancelPause, CancelSave, ScanSteps, ScanRead, ScanCheck, ScanSave, vars
  <2> QED
    BY <2>4, <2>5, <2>6, <2>7, <2>8, <2>9, <2>10, <2>11 DEF Next, ResumeSteps
<1> QED
  BY Typing, QueueConsistent, <1>1, <1>2, PTL DEF Spec, LedgerSpec, Ledger!Spec
================================================================================
