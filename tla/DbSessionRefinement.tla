------------------------- MODULE DbSessionRefinement -------------------------
(* The sessions implement RequestLifecycle, for every set of sessions,       *)
(* requests and plugins: a request is in one place at a time, so that its    *)
(* stage moves only as RequestLifecycle lets it.                             *)
EXTENDS DbSession_proofs

QueuedAt(r, s, i) == i \in DOMAIN queue[s] /\ queue[s][i] = r

\* The state of the session thread agrees with the answer of its task.
TaskStage ==
  \A s \in Sessions :
    /\ task[s] \in Requests /\ pc[s] # "unlock" =>
         pc[s] \in {"take", "lock", "run", "reconnect"} /\ answer[task[s]] = "queued"
    /\ task[s] \in Requests /\ pc[s] = "unlock" => answer[task[s]] \notin {"new", "queued"}
    /\ skip[s] => pc[s] \in {"lock", "run"}

OneThread ==
  \A s, u \in Sessions : task[s] = task[u] /\ task[s] \in Requests => s = u

OneEntry ==
  \A r \in Requests, s, u \in Sessions : \A i, j \in Nat :
    QueuedAt(r, s, i) /\ QueuedAt(r, u, j) => s = u /\ i = j

Waiting ==
  \A r \in Requests, s \in Sessions : \A i \in Nat :
    QueuedAt(r, s, i) => answer[r] = "queued" /\ \A u \in Sessions : task[u] # r

CancelKnown == \A r \in cancelRequests : answer[r] # "new"

OnePlace == TaskStage /\ OneThread /\ OneEntry /\ Waiting /\ CancelKnown

LEMMA OnePlaceInit == Init => OnePlace
<1> SUFFICES ASSUME Init PROVE OnePlace
  OBVIOUS
<1>1. ASSUME NEW s \in Sessions, NEW r, NEW i PROVE ~QueuedAt(r, s, i)
  <2>1. queue[s] = <<>>
    BY DEF Init
  <2>2. DOMAIN queue[s] = {}
    BY <2>1
  <2> QED
    BY <2>2 DEF QueuedAt
<1>2. \A s \in Sessions : task[s] = NoTask /\ ~skip[s]
  BY DEF Init
<1>3. cancelRequests = {}
  BY DEF Init
<1> QED
  BY <1>1, <1>2, <1>3, TaskAssumption
     DEF OnePlace, TaskStage, OneThread, OneEntry, Waiting, CancelKnown

\* A step that leaves tasks and answers alone, and moves no thread out of a task.
LEMMA OnePlaceMove ==
  ASSUME OnePlace, UNCHANGED <<task, skip, queue, answer>>,
         \A r \in cancelRequests' : answer[r] # "new",
         \A s \in Sessions :
           \/ pc'[s] = pc[s]
           \/ task[s] \notin Requests /\ ~skip[s]
           \/ pc[s] # "unlock" /\ pc'[s] \in {"lock", "run"}
           \/ pc[s] # "unlock" /\ pc'[s] = "reconnect" /\ ~skip[s]
  PROVE  OnePlace'
<1>1. TaskStage'
  BY DEF OnePlace, TaskStage
<1>2. OneThread' /\ OneEntry' /\ Waiting'
  BY DEF OnePlace, OneThread, OneEntry, Waiting, QueuedAt
<1>3. CancelKnown'
  BY DEF CancelKnown
<1> QED
  BY <1>1, <1>2, <1>3 DEF OnePlace

LEMMA TaskTyped ==
  ASSUME SessionInv
  PROVE  /\ pc \in [Sessions -> WorkerPcs] /\ skip \in [Sessions -> BOOLEAN]
         /\ task \in [Sessions -> Requests \cup {CloseTask, NoTask}]
         /\ queue \in [Sessions -> Seq(Requests \cup {CloseTask})]
         /\ answer \in [Requests -> Answers] /\ cancelRequests \subseteq Requests
BY DEF SessionInv, TypeOK

\* The first entry of the queue leaves it for the task of the thread.
LEMMA GetTaskPlace ==
  ASSUME SessionInv, OnePlace, NEW s \in Sessions, GetTask(s)
  PROVE  OnePlace'
<1>1. PICK q, rest : /\ q = queue[s] /\ q \in Seq(Requests \cup {CloseTask}) /\ q # <<>>
                     /\ rest = Tail(queue[s])
  BY TaskTyped DEF GetTask
<1>2. /\ Head(queue[s]) = q[1] /\ Len(q) \in Nat \ {0} /\ DOMAIN q = 1 .. Len(q)
      /\ DOMAIN rest = 1 .. Len(q) - 1
      /\ \A i \in 1 .. Len(q) - 1 : rest[i] = q[i + 1]
  <2>1. rest \in Seq(Requests \cup {CloseTask})
    BY <1>1, HeadTailProperties
  <2> QED
    BY <1>1, <2>1, HeadTailProperties, LenProperties, EmptySeq
<1>3. /\ task' = [task EXCEPT ![s] = q[1]] /\ queue' = [queue EXCEPT ![s] = rest]
      /\ pc' = [pc EXCEPT ![s] = "take"] /\ pc[s] = "get"
      /\ UNCHANGED <<skip, answer, cancelRequests>>
  BY <1>1, <1>2 DEF GetTask, clientVars
<1>4. \A u \in Sessions : queue'[u] = IF u = s THEN rest ELSE queue[u]
  BY <1>3, TaskTyped
<1>5. \A u \in Sessions : task'[u] = IF u = s THEN q[1] ELSE task[u]
  BY <1>3, TaskTyped
<1>6. \A u \in Sessions : pc'[u] = IF u = s THEN "take" ELSE pc[u]
  BY <1>3, TaskTyped
<1>7. \A r \in Requests, u \in Sessions, i \in Nat :
        QueuedAt(r, u, i)' => IF u = s THEN QueuedAt(r, s, i + 1) /\ i + 1 # 1 ELSE QueuedAt(r, u, i)
  <2> SUFFICES ASSUME NEW r \in Requests, NEW u \in Sessions, NEW i \in Nat, QueuedAt(r, u, i)'
               PROVE  IF u = s THEN QueuedAt(r, s, i + 1) /\ i + 1 # 1 ELSE QueuedAt(r, u, i)
    OBVIOUS
  <2>1. CASE u = s
    <3>1. i \in 1 .. Len(q) - 1 /\ r = q[i + 1]
      BY <1>2, <1>4, <2>1 DEF QueuedAt
    <3> QED
      BY <1>1, <1>2, <2>1, <3>1 DEF QueuedAt
  <2>2. CASE u # s
    BY <1>4, <2>2 DEF QueuedAt
  <2> QED
    BY <2>1, <2>2
<1>8. task[s] \notin Requests /\ ~skip[s]
  BY <1>3 DEF OnePlace, TaskStage
<1>9. q[1] \in Requests => QueuedAt(q[1], s, 1)
  BY <1>1, <1>2 DEF QueuedAt
<1>10. q[1] \in Requests => answer[q[1]] = "queued" /\ \A u \in Sessions : task[u] # q[1]
  BY <1>9 DEF OnePlace, Waiting
<1>11. TaskStage'
  BY <1>3, <1>5, <1>6, <1>8, <1>10 DEF OnePlace, TaskStage
<1>12. OneThread'
  BY <1>5, <1>10 DEF OnePlace, OneThread
<1>13. OneEntry'
  <2> SUFFICES ASSUME NEW r \in Requests, NEW u \in Sessions, NEW v \in Sessions,
                      NEW i \in Nat, NEW j \in Nat, QueuedAt(r, u, i)', QueuedAt(r, v, j)'
               PROVE  u = v /\ i = j
    BY DEF OneEntry
  <2>1. \E k \in Nat, l \in Nat :
          /\ QueuedAt(r, u, k) /\ k = (IF u = s THEN i + 1 ELSE i)
          /\ QueuedAt(r, v, l) /\ l = (IF v = s THEN j + 1 ELSE j)
    BY <1>7
  <2> QED
    BY <2>1 DEF OnePlace, OneEntry
<1>14. Waiting'
  <2> SUFFICES ASSUME NEW r \in Requests, NEW u \in Sessions, NEW i \in Nat, QueuedAt(r, u, i)'
               PROVE  answer[r] = "queued" /\ \A v \in Sessions : task'[v] # r
    BY <1>3 DEF Waiting
  <2>1. \E k \in Nat : QueuedAt(r, u, k) /\ (u = s => k # 1)
    BY <1>7
  <2>2. answer[r] = "queued" /\ \A v \in Sessions : task[v] # r
    BY <2>1 DEF OnePlace, Waiting
  <2>3. r # q[1]
    BY <1>9, <2>1 DEF OnePlace, OneEntry
  <2> QED
    BY <1>5, <2>2, <2>3
<1>15. CancelKnown'
  BY <1>3 DEF OnePlace, CancelKnown
<1> QED
  BY <1>11, <1>12, <1>13, <1>14, <1>15 DEF OnePlace

\* A new entry x of a queue: a close, or a request that is new.
LEMMA AppendPlace ==
  ASSUME SessionInv, OnePlace, NEW s \in Sessions, NEW x \in Requests \cup {CloseTask},
         queue' = [queue EXCEPT ![s] = Append(queue[s], x)], UNCHANGED <<pc, task, skip, cancelRequests>>,
         x \in Requests => answer[x] = "new",
         answer' = IF x \in Requests THEN [answer EXCEPT ![x] = "queued"] ELSE answer
  PROVE  OnePlace'
<1> DEFINE q == queue[s]
<1>1. q \in Seq(Requests \cup {CloseTask})
  BY TaskTyped
<1>2. /\ Len(q) \in Nat /\ DOMAIN q = 1 .. Len(q) /\ DOMAIN Append(q, x) = 1 .. Len(q) + 1
      /\ \A i \in 1 .. Len(q) : Append(q, x)[i] = q[i]
      /\ Append(q, x)[Len(q) + 1] = x
  <2>1. Append(q, x) \in Seq(Requests \cup {CloseTask}) /\ Len(Append(q, x)) = Len(q) + 1
    BY <1>1, AppendProperties
  <2> QED
    BY <1>1, <2>1, AppendProperties, LenProperties
<1>3. \A u \in Sessions : queue'[u] = IF u = s THEN Append(q, x) ELSE queue[u]
  BY TaskTyped
<1>4. \A r \in Requests : answer'[r] = IF r = x THEN "queued" ELSE answer[r]
  BY TaskTyped
<1>5. \A r \in Requests, u \in Sessions, i \in Nat :
        QueuedAt(r, u, i)' => QueuedAt(r, u, i) \/ (r = x /\ u = s /\ i = Len(q) + 1)
  <2> SUFFICES ASSUME NEW r \in Requests, NEW u \in Sessions, NEW i \in Nat, QueuedAt(r, u, i)'
               PROVE  QueuedAt(r, u, i) \/ (r = x /\ u = s /\ i = Len(q) + 1)
    OBVIOUS
  <2>1. CASE u # s
    BY <1>3, <2>1 DEF QueuedAt
  <2>2. CASE u = s
    <3>1. i \in 1 .. Len(q) + 1 /\ r = Append(q, x)[i]
      BY <1>2, <1>3, <2>2 DEF QueuedAt
    <3>2. CASE i \in 1 .. Len(q)
      BY <1>2, <2>2, <3>1, <3>2 DEF QueuedAt
    <3>3. CASE i = Len(q) + 1
      BY <1>2, <2>2, <3>1, <3>3
    <3> QED
      BY <1>2, <3>1, <3>2, <3>3
  <2> QED
    BY <2>1, <2>2
<1>6. x \in Requests => \A u \in Sessions, i \in Nat : task[u] # x /\ ~QueuedAt(x, u, i)
  BY DEF OnePlace, TaskStage, Waiting
<1>7. TaskStage'
  BY <1>4, <1>6 DEF OnePlace, TaskStage
<1>8. OneThread'
  BY DEF OnePlace, OneThread
<1>9. OneEntry'
  <2> SUFFICES ASSUME NEW r \in Requests, NEW u \in Sessions, NEW v \in Sessions,
                      NEW i \in Nat, NEW j \in Nat, QueuedAt(r, u, i)', QueuedAt(r, v, j)'
               PROVE  u = v /\ i = j
    BY DEF OneEntry
  <2>1. CASE r = x
    BY <1>5, <1>6, <2>1
  <2>2. CASE r # x
    BY <1>5, <2>2 DEF OnePlace, OneEntry
  <2> QED
    BY <2>1, <2>2
<1>10. Waiting'
  <2> SUFFICES ASSUME NEW r \in Requests, NEW u \in Sessions, NEW i \in Nat, QueuedAt(r, u, i)'
               PROVE  answer'[r] = "queued" /\ \A v \in Sessions : task[v] # r
    BY DEF Waiting
  <2> QED
    BY <1>4, <1>5, <1>6 DEF OnePlace, Waiting
<1>11. CancelKnown'
  BY <1>4, TaskTyped DEF OnePlace, CancelKnown
<1> QED
  BY <1>7, <1>8, <1>9, <1>10, <1>11 DEF OnePlace

LEMMA TakeTaskPlace ==
  ASSUME SessionInv, OnePlace, NEW s \in Sessions, TakeTask(s)
  PROVE  OnePlace'
<1>1. /\ UNCHANGED <<task, queue, answer>> /\ pc[s] = "take"
      /\ cancelRequests' \subseteq cancelRequests
  BY DEF TakeTask
<1>2. \A u \in Sessions : pc'[u] = IF u = s THEN "lock" ELSE pc[u]
  BY TaskTyped DEF TakeTask
<1>3. \A u \in Sessions : u # s => skip'[u] = skip[u]
  BY TaskTyped DEF TakeTask
<1>4. TaskStage'
  BY <1>1, <1>2, <1>3 DEF OnePlace, TaskStage
<1>5. OneThread' /\ OneEntry' /\ Waiting' /\ CancelKnown'
  BY <1>1 DEF OnePlace, OneThread, OneEntry, Waiting, CancelKnown, QueuedAt
<1> QED
  BY <1>4, <1>5 DEF OnePlace

\* The task of a thread that executes.
LEMMA TaskOf ==
  ASSUME SessionInv, NEW s \in Sessions, Executing(s) \/ (pc[s] = "take" /\ task[s] # CloseTask)
  PROVE  task[s] \in Requests
BY TaskTyped DEF SessionInv, KillNoticed

LEMMA FinishPlace ==
  ASSUME SessionInv, OnePlace, NEW s \in Sessions, NEW a \in Answers \ {"new", "queued"},
         Finish(s, a), pc[s] \in {"run", "reconnect"}
  PROVE  OnePlace'
<1>1. task[s] \in Requests /\ UNCHANGED <<task, queue, cancelRequests>>
  BY TaskOf DEF Executing, Finish, sessionVars
<1>2. \A r \in Requests : answer'[r] = IF r = task[s] THEN a ELSE answer[r]
  BY TaskTyped DEF Finish
<1>3. \A u \in Sessions : pc'[u] = IF u = s THEN "unlock" ELSE pc[u]
  BY TaskTyped DEF Finish
<1>4. \A u \in Sessions : skip'[u] = IF u = s THEN FALSE ELSE skip[u]
  BY TaskTyped DEF Finish
<1>5. \A u \in Sessions : u # s /\ task[u] \in Requests => task[u] # task[s]
  BY DEF OnePlace, OneThread
<1>6. TaskStage'
  BY <1>1, <1>2, <1>3, <1>4, <1>5 DEF OnePlace, TaskStage
<1>7. OneThread' /\ OneEntry'
  BY <1>1 DEF OnePlace, OneThread, OneEntry, QueuedAt
<1>8. Waiting'
  BY <1>1, <1>2 DEF OnePlace, Waiting, QueuedAt
<1>9. CancelKnown'
  BY <1>1, <1>2, TaskTyped DEF OnePlace, CancelKnown
<1> QED
  BY <1>6, <1>7, <1>8, <1>9 DEF OnePlace

LEMMA EndTaskPlace ==
  ASSUME SessionInv, OnePlace, NEW s \in Sessions, EndTask(s)
  PROVE  OnePlace'
<1>1. UNCHANGED <<skip, queue, answer, cancelRequests>> /\ pc[s] = "unlock"
  BY DEF EndTask, clientVars
<1>2. \A u \in Sessions : task'[u] = IF u = s THEN NoTask ELSE task[u]
  BY TaskTyped DEF EndTask
<1>3. \A u \in Sessions : pc'[u] = IF u = s THEN "get" ELSE pc[u]
  BY TaskTyped DEF EndTask
<1>4. TaskStage'
  BY <1>1, <1>2, <1>3, TaskAssumption DEF OnePlace, TaskStage
<1>5. OneThread'
  BY <1>2, TaskAssumption DEF OnePlace, OneThread
<1>6. OneEntry' /\ CancelKnown'
  BY <1>1 DEF OnePlace, OneEntry, CancelKnown, QueuedAt
<1>7. Waiting'
  BY <1>1, <1>2, TaskAssumption DEF OnePlace, Waiting, QueuedAt
<1> QED
  BY <1>4, <1>5, <1>6, <1>7 DEF OnePlace
-----------------------------------------------------------------------------
(* The steps, by what they do to the requests. *)

requestVars == <<task, skip, queue, answer, cancelRequests>>

\* No request is concerned: no thread goes from one part of a task to another.
Quiet ==
  /\ UNCHANGED <<requestVars, executed>>
  /\ \A s \in Sessions : pc'[s] = pc[s] \/ (task[s] \notin Requests /\ ~skip[s])

\* The statement of a task is executed, for the first time or again.
Begins(s) ==
  /\ pc[s] \in {"lock", "reconnect"} /\ Begin(s)
  /\ UNCHANGED requestVars

Finishes(s) ==
  \E a \in Answers \ {"new", "queued"} :
    /\ Finish(s, a) /\ pc[s] \in {"run", "reconnect"}
    /\ skip[s] <=> a = "cancelled"
    /\ pc[s] = "reconnect" => a = "error"

SendClose(s) ==
  /\ queue' = [queue EXCEPT ![s] = Append(queue[s], CloseTask)]
  /\ UNCHANGED <<pc, task, skip, answer, cancelRequests, executed>>

Concerns ==
  \/ \E s \in Sessions : GetTask(s) \/ TakeTask(s) \/ Finishes(s) \/ EndTask(s) \/ SendClose(s)
  \/ \E s \in Sessions : Begins(s) \/ StartAutoReconnect(s)
  \/ \E r \in Requests, s \in Sessions : Execute(r, s)
  \/ \E r \in Requests : Cancel(r)

LEMMA WorkerSteps ==
  ASSUME SessionInv, OnePlace, NEW s \in Sessions, Worker(s)
  PROVE  Quiet \/ Concerns
<1> USE DEF requestVars, taskVars, sessionVars, clientVars
<1>1. \A m : pc' = [pc EXCEPT ![s] = m] =>
        pc'[s] = m /\ \A u \in Sessions : u # s => pc'[u] = pc[u]
  BY TaskTyped
<1>2. /\ pc[s] \in {"init", "failed", "term"} => task[s] \notin Requests
      /\ pc[s] \notin {"lock", "run"} => ~skip[s]
  BY DEF OnePlace, TaskStage
<1>3. CASE Connect(s) \/ FailToConnect(s) \/ ForgetFailed(s) \/ AskAgain(s) \/ Terminate(s)
  BY <1>1, <1>2, <1>3 DEF Connect, FailToConnect, ForgetFailed, AskAgain, Terminate, Quiet
<1>4. CASE TakeClose(s)
  BY <1>1, <1>2, <1>4, TaskAssumption DEF TakeClose, Quiet
<1>5. CASE LockForTask(s) \/ LockTimesOut(s) \/ AutoReconnected(s)
  BY <1>5 DEF LockForTask, LockTimesOut, AutoReconnected, Begin, Begins, Concerns
<1>6. CASE StartAutoReconnect(s) \/ AutoReconnectFails(s)
  BY <1>6 DEF AutoReconnectFails, Concerns, Quiet
<1>7. CASE SkipTask(s)
  BY <1>7 DEF SkipTask, Finishes, Concerns, Answers
<1>8. CASE TaskResult(s)
  BY <1>8 DEF TaskResult, Finishes, Concerns, Answers
<1>9. CASE GiveUpReconnect(s)
  BY <1>2, <1>9 DEF GiveUpReconnect, Finishes, Concerns, Answers
<1>10. CASE GetTask(s) \/ TakeTask(s) \/ EndTask(s)
  BY <1>10 DEF Concerns
<1> QED
  BY <1>3, <1>4, <1>5, <1>6, <1>7, <1>8, <1>9, <1>10 DEF Worker

LEMMA StepCases ==
  ASSUME SessionInv, OnePlace, [Next]_vars
  PROVE  Quiet \/ Concerns
<1>1. ASSUME UNCHANGED <<workerVars, clientVars, queue>> PROVE Quiet
  BY <1>1 DEF Quiet, requestVars, workerVars, taskVars, clientVars
<1>2. ASSUME NEW s \in Sessions, LockAndClose(s) PROVE Quiet \/ Concerns
  <2>1. CASE forgot[s]
    <3>1. queue' = queue
      BY <1>2, <2>1, TaskTyped DEF LockAndClose
    <3> QED
      BY <1>1, <1>2, <3>1 DEF LockAndClose
  <2>2. CASE ~forgot[s]
    <3>1. SendClose(s)
      BY <1>2, <2>2 DEF LockAndClose, SendClose, workerVars, taskVars, clientVars
    <3> QED
      BY <3>1 DEF Concerns
  <2> QED
    BY <2>1, <2>2
<1>3. ASSUME NEW s \in Sessions, FinishClose(s) \/ Reconnector(s) \/ CallClose(s)
             \/ CallReconnect(s) \/ LoseConnection(s) \/ ReplaceDenied(s)
      PROVE  Quiet
  BY <1>1, <1>3 DEF FinishClose, Reconnector, StartReconnect, TryReconnect,
     ForgetReconnected, CallClose, CallReconnect, LoseConnection, ReplaceDenied, sessionVars
<1>10. ASSUME NEW s \in Sessions, Open(s) PROVE Quiet
  <2>1. task[s] \notin Requests /\ ~skip[s]
    BY <1>10 DEF Open, OnePlace, TaskStage
  <2>2. \A u \in Sessions : u # s => pc'[u] = pc[u]
    BY <1>10, TaskTyped DEF Open
  <2> QED
    BY <1>10, <2>1, <2>2 DEF Open, Quiet, requestVars, taskVars, sessionVars, clientVars
<1>4. ASSUME NEW s \in Sessions, Killer(s) PROVE Quiet
  BY <1>1, <1>4 DEF Killer, LockForKill, FlagKill, RunKill, FailKill, sessionVars
<1>5. ASSUME NEW s \in Sessions, NEW u \in Sessions, CallKill(s, u) PROVE Quiet
  BY <1>1, <1>5 DEF CallKill, sessionVars
<1>6. ASSUME NEW p \in Plugins, Plugin(p) \/ \E s \in Sessions : CallPlugin(p, s) PROVE Quiet
  BY <1>1, <1>6 DEF CallPlugin, Plugin, EnterPlugin, LeavePlugin, sessionVars
<1>7. ASSUME UNCHANGED vars PROVE Quiet
  BY <1>1, <1>7 DEF vars, sessionVars
<1>8. ASSUME NEW r \in Requests, Cancel(r) PROVE Concerns
  BY <1>8 DEF Concerns
<1>9. ASSUME NEW r \in Requests, NEW s \in Sessions, Execute(r, s) PROVE Concerns
  BY <1>9 DEF Concerns
<1> QED
  BY <1>2, <1>3, <1>4, <1>5, <1>6, <1>7, <1>8, <1>9, <1>10, WorkerSteps DEF Next, Closer

LEMMA OnePlaceNext == SessionInv /\ OnePlace /\ [Next]_vars => OnePlace'
<1> SUFFICES ASSUME SessionInv, OnePlace, [Next]_vars PROVE OnePlace'
  OBVIOUS
<1>6. ASSUME NEW s \in Sessions, Begins(s) \/ StartAutoReconnect(s) PROVE OnePlace'
  <2>1. UNCHANGED requestVars /\ pc[s] # "unlock"
    BY <1>6 DEF Begins, StartAutoReconnect, requestVars, taskVars, sessionVars, clientVars
  <2>2. \A u \in Sessions : u # s => pc'[u] = pc[u]
    BY <1>6, TaskTyped DEF Begins, Begin, StartAutoReconnect
  <2>3. pc'[s] = "run" \/ (pc'[s] = "reconnect" /\ ~skip[s])
    BY <1>6, TaskTyped DEF Begins, Begin, StartAutoReconnect
  <2>4. \A r \in cancelRequests' : answer[r] # "new"
    BY <2>1 DEF requestVars, OnePlace, CancelKnown
  <2> QED
    BY <2>1, <2>2, <2>3, <2>4, OnePlaceMove DEF requestVars
<1>1. CASE Quiet
  <2>2. \A r \in cancelRequests' : answer[r] # "new"
    BY <1>1 DEF Quiet, requestVars, OnePlace, CancelKnown
  <2> QED
    BY <1>1, <2>2, OnePlaceMove DEF Quiet, requestVars
<1>2. ASSUME NEW s \in Sessions, Finishes(s) PROVE OnePlace'
  BY <1>2, FinishPlace DEF Finishes
<1>3. ASSUME NEW s \in Sessions, SendClose(s) PROVE OnePlace'
  BY <1>3, AppendPlace, TaskAssumption DEF SendClose
<1>4. ASSUME NEW r \in Requests, NEW s \in Sessions, Execute(r, s) PROVE OnePlace'
  BY <1>4, AppendPlace DEF Execute, workerVars, taskVars
<1>5. ASSUME NEW r \in Requests, Cancel(r) PROVE OnePlace'
  <2>1. UNCHANGED <<pc, task, skip, queue, answer>>
    BY <1>5 DEF Cancel, workerVars, taskVars, sessionVars
  <2>2. \A q \in cancelRequests' : answer[q] # "new"
    BY <1>5 DEF Cancel, OnePlace, CancelKnown
  <2> QED
    BY <2>1, <2>2, OnePlaceMove
<1> QED
  BY <1>1, <1>2, <1>3, <1>4, <1>5, <1>6, StepCases, GetTaskPlace, TakeTaskPlace, EndTaskPlace
     DEF Concerns
-----------------------------------------------------------------------------
(* The refinement *)

\* What the stage of a request depends on.
LEMMA StageStable ==
  ASSUME NEW q \in Requests, answer'[q] = answer[q],
         answer[q] = "queued" =>
           /\ \A s \in Sessions :
                /\ Taken(q, s)' <=> Taken(q, s)
                /\ Taken(q, s) => skip'[s] = skip[s] /\ pc'[s] = pc[s]
           /\ (\A s \in Sessions : ~Taken(q, s)) =>
                (q \in cancelRequests' <=> q \in cancelRequests)
  PROVE  Stage(q)' = Stage(q)
<1>1. CASE answer[q] # "queued"
  BY <1>1 DEF Stage
<1>2. CASE answer[q] = "queued" /\ \E s \in Sessions : Taken(q, s)
  <2> DEFINE In(p) == \E s \in Sessions : Taken(q, s) /\ pc[s] = p
             Skipped == \E s \in Sessions : Taken(q, s) /\ skip[s]
  <2>1. \E s \in Sessions : Taken(q, s)'
    BY <1>2
  <2>2. Skipped' <=> Skipped
    BY <1>2
  <2>3. (In("lock")' <=> In("lock")) /\ (In("reconnect")' <=> In("reconnect"))
    BY <1>2
  <2> QED
    BY <1>2, <2>1, <2>2, <2>3 DEF Stage
<1>3. CASE answer[q] = "queued" /\ ~\E s \in Sessions : Taken(q, s)
  <2>1. ~\E s \in Sessions : Taken(q, s)'
    BY <1>3
  <2> QED
    BY <1>3, <2>1 DEF Stage
<1> QED
  BY <1>1, <1>2, <1>3

\* The stage of a request that one thread has.
LEMMA StageOf ==
  ASSUME NEW r \in Requests, NEW s \in Sessions, answer[r] = "queued",
         \A u \in Sessions : Taken(r, u) <=> u = s
  PROVE  Stage(r) = IF skip[s] THEN "withdrawn"
                    ELSE IF pc[s] = "lock" THEN "taken"
                    ELSE IF pc[s] = "reconnect" THEN "broken" ELSE "running"
BY DEF Stage

LEMMA StageGoes ==
  ASSUME NEW r \in Requests, NEW from, NEW to, Stage(r) \in from, Stage(r)' = to,
         \A q \in Requests : q # r => Stage(q)' = Stage(q)
  PROVE  Lifecycle!Goes(r, from, to)
BY DEF Lifecycle!Goes

\* A step that executes nothing.
LEMMA StageMoves ==
  ASSUME NEW r \in Requests, NEW from, NEW to, Stage(r) \in from, Stage(r)' = to,
         \A q \in Requests : q # r => Stage(q)' = Stage(q), UNCHANGED executed
  PROVE  Lifecycle!Move(r, from, to)
BY StageGoes DEF Lifecycle!Move

Kept == UNCHANGED executed /\ \A q \in Requests : Stage(q)' = Stage(q)

LEMMA QuietKeeps == SessionInv /\ Quiet => Kept
<1> SUFFICES ASSUME SessionInv, Quiet, NEW q \in Requests PROVE Stage(q)' = Stage(q)
  BY DEF Kept, Quiet
<1>1. ASSUME NEW s \in Sessions
      PROVE  (Taken(q, s)' <=> Taken(q, s)) /\ (Taken(q, s) => pc'[s] = pc[s])
  BY DEF Quiet, requestVars, Taken, Executing
<1> QED
  BY <1>1, StageStable DEF Quiet, requestVars

LEMMA GetTaskKeeps == ASSUME SessionInv, NEW s \in Sessions, GetTask(s) PROVE Kept
<1> SUFFICES ASSUME NEW q \in Requests PROVE Stage(q)' = Stage(q)
  BY DEF Kept, GetTask, clientVars
<1>1. ASSUME NEW u \in Sessions
      PROVE  (Taken(q, u)' <=> Taken(q, u)) /\ (Taken(q, u) => pc'[u] = pc[u])
  <2>1. pc[s] = "get" /\ pc'[s] = "take" /\ (u # s => pc'[u] = pc[u])
    BY TaskTyped DEF GetTask
  <2>2. u # s => task'[u] = task[u]
    BY TaskTyped DEF GetTask
  <2> QED
    BY <2>1, <2>2 DEF Taken, Executing
<1> QED
  BY <1>1, StageStable DEF GetTask, clientVars

LEMMA SendCloseKeeps == ASSUME NEW s \in Sessions, SendClose(s) PROVE Kept
<1> SUFFICES ASSUME NEW q \in Requests PROVE Stage(q)' = Stage(q)
  BY DEF Kept, SendClose
<1>1. ASSUME NEW u \in Sessions PROVE Taken(q, u)' <=> Taken(q, u)
  BY DEF SendClose, Taken, Executing
<1> QED
  BY <1>1, StageStable DEF SendClose

LEMMA EndTaskKeeps == ASSUME SessionInv, OnePlace, NEW s \in Sessions, EndTask(s) PROVE Kept
<1> SUFFICES ASSUME NEW q \in Requests PROVE Stage(q)' = Stage(q)
  BY DEF Kept, EndTask, clientVars
<1>1. ASSUME answer[q] = "queued", NEW u \in Sessions
      PROVE  (Taken(q, u)' <=> Taken(q, u)) /\ (Taken(q, u) => pc'[u] = pc[u])
  <2>1. pc[s] = "unlock" /\ pc'[s] = "get" /\ (u # s => pc'[u] = pc[u])
    BY TaskTyped DEF EndTask
  <2>2. task'[s] = NoTask /\ (u # s => task'[u] = task[u])
    BY TaskTyped DEF EndTask
  <2>3. task[s] # q
    BY <1>1, <2>1 DEF OnePlace, TaskStage
  <2> QED
    BY <2>1, <2>2, <2>3, TaskAssumption DEF Taken, Executing
<1> QED
  BY <1>1, StageStable DEF EndTask, clientVars

LEMMA ExecuteMoves ==
  ASSUME SessionInv, OnePlace, NEW r \in Requests, NEW s \in Sessions, Execute(r, s)
  PROVE  Lifecycle!Submit(r)
<1>1. \A q \in Requests, u \in Sessions : Taken(q, u)' <=> Taken(q, u)
  BY DEF Execute, workerVars, taskVars, Taken, Executing
<1>2. \A q \in Requests : q # r => Stage(q)' = Stage(q)
  BY <1>1, StageStable, TaskTyped DEF Execute, workerVars, taskVars
<1>3. Stage(r) = "new"
  BY DEF Execute, Stage
<1>4. Stage(r)' = "waiting"
  <2>1. answer'[r] = "queued" /\ r \notin cancelRequests'
    BY TaskTyped DEF Execute, OnePlace, CancelKnown
  <2>2. \A u \in Sessions : ~Taken(r, u)
    BY DEF Execute, OnePlace, TaskStage, Taken
  <2> QED
    BY <1>1, <2>1, <2>2 DEF Stage
<1>5. UNCHANGED executed
  BY DEF Execute
<1> QED
  BY <1>2, <1>3, <1>4, <1>5, StageMoves DEF Lifecycle!Submit

LEMMA CancelMoves ==
  ASSUME SessionInv, NEW r \in Requests, Cancel(r)
  PROVE  Kept \/ Lifecycle!Withdraw(r)
<1>1. \A q \in Requests, u \in Sessions : Taken(q, u)' <=> Taken(q, u)
  BY DEF Cancel, workerVars, taskVars, Taken, Executing
<1>2. /\ answer' = answer /\ skip' = skip /\ pc' = pc /\ answer[r] = "queued"
      /\ cancelRequests' = cancelRequests \cup {r} /\ UNCHANGED executed
  BY DEF Cancel, workerVars, taskVars
<1>3. \A q \in Requests : q # r => Stage(q)' = Stage(q)
  BY <1>1, <1>2, StageStable
<1>4. CASE r \in cancelRequests \/ \E s \in Sessions : Taken(r, s)
  <2>1. Stage(r)' = Stage(r)
    BY <1>1, <1>2, <1>4, StageStable
  <2> QED
    BY <1>2, <1>3, <2>1 DEF Kept
<1>5. CASE r \notin cancelRequests /\ ~\E s \in Sessions : Taken(r, s)
  <2>1. Stage(r) = "waiting" /\ Stage(r)' = "withdrawn"
    BY <1>1, <1>2, <1>5 DEF Stage
  <2> QED
    BY <1>2, <1>3, <2>1, StageMoves DEF Lifecycle!Withdraw
<1> QED
  BY <1>4, <1>5

LEMMA TakeTaskMoves ==
  ASSUME SessionInv, OnePlace, NEW s \in Sessions, TakeTask(s)
  PROVE  Kept \/ \E r \in Requests : Lifecycle!Take(r)
<1>1. PICK r \in Requests : r = task[s]
  BY TaskOf DEF TakeTask
<1>2. /\ pc[s] = "take" /\ task' = task /\ answer' = answer /\ answer[r] = "queued"
      /\ cancelRequests' = cancelRequests \ {r} /\ UNCHANGED executed
  BY <1>1 DEF TakeTask, OnePlace, TaskStage
<1>3. \A u \in Sessions : pc'[u] = IF u = s THEN "lock" ELSE pc[u]
  BY TaskTyped DEF TakeTask
<1>4. \A u \in Sessions : skip'[u] = IF u = s THEN r \in cancelRequests ELSE skip[u]
  BY <1>1, TaskTyped DEF TakeTask
<1>5. \A u \in Sessions : task[u] = r => u = s
  BY <1>1 DEF OnePlace, OneThread
<1>6. \A q \in Requests : q # r => Stage(q)' = Stage(q)
  <2> SUFFICES ASSUME NEW q \in Requests, q # r PROVE Stage(q)' = Stage(q)
    OBVIOUS
  <2>1. ASSUME NEW u \in Sessions
        PROVE  /\ Taken(q, u)' <=> Taken(q, u)
               /\ Taken(q, u) => skip'[u] = skip[u] /\ pc'[u] = pc[u]
    BY <1>1, <1>2, <1>3, <1>4 DEF Taken, Executing
  <2> QED
    BY <1>2, <2>1, StageStable
<1>7. \A u \in Sessions : ~Taken(r, u) /\ (Taken(r, u)' <=> u = s)
  BY <1>1, <1>2, <1>3, <1>5 DEF Taken, Executing
<1>10. Stage(r) = IF r \in cancelRequests THEN "withdrawn" ELSE "waiting"
  BY <1>2, <1>7 DEF Stage
<1>11. Stage(r)' = IF r \in cancelRequests THEN "withdrawn" ELSE "taken"
  <2>1. pc'[s] = "lock" /\ (skip'[s] <=> r \in cancelRequests) /\ answer'[r] = "queued"
    BY <1>2, <1>3, <1>4
  <2>2. \E u \in Sessions : Taken(r, u)'
    BY <1>7
  <2>3. (\E u \in Sessions : Taken(r, u)' /\ skip'[u]) <=> r \in cancelRequests
    BY <1>7, <2>1
  <2>4. \E u \in Sessions : Taken(r, u)' /\ pc'[u] = "lock"
    BY <1>7, <2>1
  <2> QED
    BY <2>1, <2>2, <2>3, <2>4 DEF Stage
<1>8. CASE r \in cancelRequests
  BY <1>2, <1>6, <1>8, <1>10, <1>11 DEF Kept
<1>9. CASE r \notin cancelRequests
  BY <1>2, <1>6, <1>9, <1>10, <1>11, StageMoves DEF Lifecycle!Take
<1> QED
  BY <1>8, <1>9

\* The task a thread works on, and the others, when only its place in the code
\* moves.
LEMMA MoveOf ==
  ASSUME SessionInv, OnePlace, NEW s \in Sessions, NEW p \in {"run", "reconnect"},
         pc[s] \in {"lock", "run", "reconnect"}, pc' = [pc EXCEPT ![s] = p],
         UNCHANGED requestVars
  PROVE  \E r \in Requests :
           /\ r = task[s]
           /\ Stage(r) = IF skip[s] THEN "withdrawn"
                         ELSE IF pc[s] = "lock" THEN "taken"
                         ELSE IF pc[s] = "reconnect" THEN "broken" ELSE "running"
           /\ Stage(r)' = IF skip[s] THEN "withdrawn"
                          ELSE IF p = "reconnect" THEN "broken" ELSE "running"
           /\ \A q \in Requests : q # r => Stage(q)' = Stage(q)
<1>1. PICK r \in Requests : r = task[s]
  BY TaskOf DEF Executing
<1>2. \A u \in Sessions : pc'[u] = IF u = s THEN p ELSE pc[u]
  BY TaskTyped
<1>3. answer[r] = "queued" /\ answer' = answer /\ skip' = skip /\ task' = task
  BY <1>1 DEF OnePlace, TaskStage, requestVars
<1>4. \A u \in Sessions : (Taken(r, u) <=> u = s) /\ (Taken(r, u)' <=> u = s)
  BY <1>1, <1>2, <1>3 DEF OnePlace, OneThread, Taken, Executing
<1>5. Stage(r) = IF skip[s] THEN "withdrawn"
                 ELSE IF pc[s] = "lock" THEN "taken"
                 ELSE IF pc[s] = "reconnect" THEN "broken" ELSE "running"
  BY <1>3, <1>4, StageOf
<1>6. Stage(r)' = IF skip[s] THEN "withdrawn"
                  ELSE IF p = "reconnect" THEN "broken" ELSE "running"
  <2>1. answer'[r] = "queued" /\ pc'[s] = p
    BY <1>2, <1>3
  <2>2. \E u \in Sessions : Taken(r, u)'
    BY <1>4
  <2>3. (\E u \in Sessions : Taken(r, u)' /\ skip'[u]) <=> skip[s]
    BY <1>3, <1>4
  <2>4. ~\E u \in Sessions : Taken(r, u)' /\ pc'[u] = "lock"
    BY <1>4, <2>1
  <2>5. (\E u \in Sessions : Taken(r, u)' /\ pc'[u] = "reconnect") <=> p = "reconnect"
    BY <1>4, <2>1
  <2> QED
    BY <2>1, <2>2, <2>3, <2>4, <2>5 DEF Stage
<1>7. ASSUME NEW q \in Requests, q # r PROVE Stage(q)' = Stage(q)
  <2>1. ASSUME NEW u \in Sessions
        PROVE  (Taken(q, u)' <=> Taken(q, u)) /\ (Taken(q, u) => pc'[u] = pc[u])
    BY <1>1, <1>2, <1>3, <1>7 DEF Taken, Executing
  <2> QED
    BY <1>3, <2>1, StageStable DEF requestVars
<1> QED
  BY <1>1, <1>5, <1>6, <1>7

LEMMA BeginsMoves ==
  ASSUME SessionInv, OnePlace, NEW s \in Sessions, Begins(s)
  PROVE  Kept \/ \E r \in Requests : Lifecycle!Execute(r)
<1>1. PICK r \in Requests :
        /\ r = task[s]
        /\ Stage(r) = IF skip[s] THEN "withdrawn"
                      ELSE IF pc[s] = "lock" THEN "taken"
                      ELSE IF pc[s] = "reconnect" THEN "broken" ELSE "running"
        /\ Stage(r)' = IF skip[s] THEN "withdrawn" ELSE "running"
        /\ \A q \in Requests : q # r => Stage(q)' = Stage(q)
  BY MoveOf DEF Begins, Begin
<1>2. CASE skip[s]
  <2>1. executed' = executed
    <3>1. executed' = [executed EXCEPT ![r] = executed[r]]
      BY <1>1, <1>2 DEF Begins, Begin
    <3> QED
      BY <3>1 DEF SessionInv, TypeOK
  <2> QED
    BY <1>1, <1>2, <2>1 DEF Kept
<1>3. CASE ~skip[s]
  <2>1. executed' = [executed EXCEPT ![r] = @ + 1]
    BY <1>1, <1>3 DEF Begins, Begin
  <2>2. Stage(r) \in {"taken", "broken"} /\ Stage(r)' = "running"
    BY <1>1, <1>3 DEF Begins
  <2>3. Lifecycle!Goes(r, {"taken", "broken"}, "running")
    BY <1>1, <2>2, StageGoes
  <2> QED
    BY <2>1, <2>3 DEF Lifecycle!Execute
<1> QED
  BY <1>2, <1>3

LEMMA BreakMoves ==
  ASSUME SessionInv, OnePlace, NEW s \in Sessions, StartAutoReconnect(s)
  PROVE  \E r \in Requests : Lifecycle!Break(r)
<1>1. /\ UNCHANGED requestVars /\ UNCHANGED executed /\ pc[s] = "run" /\ ~skip[s]
      /\ pc' = [pc EXCEPT ![s] = "reconnect"]
  BY DEF StartAutoReconnect, requestVars, taskVars, sessionVars, clientVars
<1>2. PICK r \in Requests :
        /\ Stage(r) = "running" /\ Stage(r)' = "broken"
        /\ \A q \in Requests : q # r => Stage(q)' = Stage(q)
  BY <1>1, MoveOf
<1> QED
  BY <1>1, <1>2, StageMoves DEF Lifecycle!Break

LEMMA FinishMoves ==
  ASSUME SessionInv, OnePlace, NEW s \in Sessions, Finishes(s)
  PROVE  \E r \in Requests : Lifecycle!Answer(r) \/ Lifecycle!AnswerCancelled(r)
<1>1. PICK a \in Answers \ {"new", "queued"} :
        /\ Finish(s, a) /\ pc[s] \in {"run", "reconnect"} /\ (skip[s] <=> a = "cancelled")
        /\ pc[s] = "reconnect" => a = "error"
  BY DEF Finishes
<1>2. PICK r \in Requests : r = task[s]
  BY <1>1, TaskOf DEF Executing
<1>3. /\ task' = task /\ cancelRequests' = cancelRequests /\ answer[r] = "queued"
      /\ UNCHANGED executed
  BY <1>1, <1>2 DEF Finish, OnePlace, TaskStage
<1>4. \A u \in Sessions : pc'[u] = IF u = s THEN "unlock" ELSE pc[u]
  BY <1>1, TaskTyped DEF Finish
<1>5. \A u \in Sessions : u # s => skip'[u] = skip[u]
  BY <1>1, TaskTyped DEF Finish
<1>6. \A q \in Requests : answer'[q] = IF q = r THEN a ELSE answer[q]
  BY <1>1, <1>2, TaskTyped DEF Finish
<1>7. \A u \in Sessions : Taken(r, u) <=> u = s
  BY <1>1, <1>2 DEF OnePlace, OneThread, Taken, Executing
<1>8. \A q \in Requests : q # r => Stage(q)' = Stage(q)
  <2> SUFFICES ASSUME NEW q \in Requests, q # r PROVE Stage(q)' = Stage(q)
    OBVIOUS
  <2>1. ASSUME NEW u \in Sessions
        PROVE  /\ Taken(q, u)' <=> Taken(q, u)
               /\ Taken(q, u) => skip'[u] = skip[u] /\ pc'[u] = pc[u]
    BY <1>2, <1>3, <1>4, <1>5 DEF Taken, Executing
  <2> QED
    BY <1>3, <1>6, <2>1, StageStable
<1>9. /\ Stage(r) = (IF skip[s] THEN "withdrawn"
                     ELSE IF pc[s] = "reconnect" THEN "broken" ELSE "running")
      /\ Stage(r)' = a
  <2>1. Stage(r)' = a
    BY <1>1, <1>6 DEF Stage
  <2>2. pc[s] # "lock"
    BY <1>1
  <2> QED
    BY <1>3, <1>7, <2>1, <2>2, StageOf
<1>10. CASE skip[s]
  BY <1>1, <1>3, <1>8, <1>9, <1>10, StageMoves DEF Lifecycle!AnswerCancelled
<1>11. CASE ~skip[s] /\ pc[s] = "run"
  <2>1. a \in Lifecycle!Outcomes
    BY <1>1, <1>11 DEF Answers, Lifecycle!Outcomes
  <2> QED
    BY <1>3, <1>8, <1>9, <1>11, <2>1, StageMoves DEF Lifecycle!Answer
<1>12. CASE ~skip[s] /\ pc[s] = "reconnect"
  BY <1>1, <1>3, <1>8, <1>9, <1>12, StageMoves DEF Lifecycle!Answer
<1> QED
  BY <1>1, <1>10, <1>11, <1>12

LEMMA StatusInit == Init => Lifecycle!Init
<1> SUFFICES ASSUME Init PROVE Lifecycle!Init
  OBVIOUS
<1>1. \A r \in Requests : Stage(r) = "new"
  BY DEF Init, Stage
<1> QED
  BY <1>1 DEF Init, Lifecycle!Init

LEMMA StatusNext ==
  SessionInv /\ OnePlace /\ [Next]_vars
    => [Lifecycle!Next]_<<[r \in Requests |-> Stage(r)], executed>>
<1> SUFFICES ASSUME SessionInv, OnePlace, [Next]_vars
             PROVE  Kept \/ Lifecycle!Next
  BY DEF Kept
<1> QED
  BY StepCases, QuietKeeps, GetTaskKeeps, SendCloseKeeps, EndTaskKeeps, ExecuteMoves,
     CancelMoves, TakeTaskMoves, BeginsMoves, BreakMoves, FinishMoves
     DEF Concerns, Lifecycle!Next

\* The statement of a request is executed once, and again only after the
\* connection broke under it and the session reconnected by itself; it is
\* answered at most once and never executed after that; and a request that is
\* cancelled while it waits is never executed, in every number of sessions and
\* with kills, closes, reconnects and plugins at any time.
THEOREM ImplementsLifecycle == SafeSpec => KeepsLifecycle
<1>1. SessionInv /\ [Next]_vars /\ OnePlace => OnePlace'
  BY OnePlaceNext
<1> QED
  BY <1>1, Invariance, OnePlaceInit, StatusInit, StatusNext, PTL
     DEF SafeSpec, KeepsLifecycle, Lifecycle!Spec, Lifecycle!lifecycleVars
=============================================================================
