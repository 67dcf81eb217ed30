------------------------ MODULE DbSessionClose_proofs -------------------------
(* Closing a session loses no request that was accepted before the close,    *)
(* for every set of sessions, requests and plugins.  The argument follows a   *)
(* request from the queue to its answer, and the DBCloseTask from its sender, *)
(* who waits, through the queue to the thread that ends.                      *)
EXTENDS DbSessionRefinement

\* A request without an answer is queued, or the task of a thread; a thread that
\* asks for its next task has none.
Held ==
  /\ \A r \in Requests :
       answer[r] = "queued" => \E s \in Sessions : r \in Tasks(s) \cup {task[s]}
  /\ \A s \in Sessions : pc[s] \in {"none", "init", "failed", "get"} => task[s] = NoTask

\* What is queued after a DBCloseTask came behind it, also once the thread took
\* the close; there is one, and its sender waits for the end of the thread.
ClosedBehind ==
  \A s \in Sessions :
    /\ pc[s] \in {"term", "dead"} => task[s] = CloseTask /\ closer[s] \in {"wait", "done"}
    /\ task[s] = CloseTask => Tasks(s) \subseteq behind
    /\ \A i, j \in DOMAIN queue[s] :
         i < j /\ queue[s][i] = CloseTask => queue[s][j] \in behind

NothingLost == Held /\ ClosedBehind

LEMMA NothingLostInit == Init => NothingLost
<1> SUFFICES ASSUME Init PROVE NothingLost
  OBVIOUS
<1>1. \A s \in Sessions : queue[s] = <<>> /\ task[s] = NoTask /\ pc[s] = "none"
  BY DEF Init
<1>2. \A r \in Requests : answer[r] = "new"
  BY DEF Init
<1> QED
  BY <1>1, <1>2, TaskAssumption DEF NothingLost, Held, ClosedBehind

LEMMA CloseTyped ==
  ASSUME SessionInv
  PROVE  /\ pc \in [Sessions -> WorkerPcs]
         /\ task \in [Sessions -> Requests \cup {CloseTask, NoTask}]
         /\ queue \in [Sessions -> Seq(Requests \cup {CloseTask})]
         /\ answer \in [Requests -> Answers] /\ behind \subseteq Requests
         /\ closer \in [Sessions -> {"idle", "lock", "wait", "done"}]
BY DEF SessionInv, TypeOK

\* A step that leaves the queues, the tasks and the answers alone.
LEMMA NothingLostMove ==
  ASSUME NothingLost, UNCHANGED <<queue, task, answer, behind>>,
         \A s \in Sessions :
           /\ pc'[s] = pc[s] \/ pc'[s] \in {"take", "lock", "run", "reconnect", "unlock"}
                \/ (pc'[s] = "get" /\ pc[s] \in {"init", "failed"})
                \/ (pc'[s] = "failed" /\ pc[s] = "init")
                \/ (pc'[s] = "init" /\ pc[s] = "none")
                \/ (pc'[s] = "dead" /\ pc[s] = "term")
                \/ (pc'[s] = "term" /\ task[s] = CloseTask /\ closer'[s] = "wait")
           /\ closer[s] \in {"wait", "done"} => closer'[s] \in {"wait", "done"}
  PROVE  NothingLost'
<1>1. Held'
  <2>1. \A s \in Sessions : Tasks(s)' = Tasks(s)
    BY DEF Tasks
  <2> QED
    BY <2>1 DEF NothingLost, Held
<1>2. ClosedBehind'
  BY DEF NothingLost, ClosedBehind, Tasks
<1> QED
  BY <1>1, <1>2 DEF NothingLost

\* The tasks of a queue that loses its head, and of one that gains an entry.
LEMMA TailTasks ==
  ASSUME NEW S, NEW q \in Seq(S), q # <<>>
  PROVE  /\ 1 \in DOMAIN q /\ Head(q) = q[1] /\ DOMAIN q \subseteq Nat
         /\ \A i \in DOMAIN Tail(q) : /\ i \in Nat /\ i + 1 \in DOMAIN q /\ i + 1 > 1
                                      /\ Tail(q)[i] = q[i + 1]
         /\ \A i \in DOMAIN q : i = 1 \/ (i - 1 \in DOMAIN Tail(q) /\ Tail(q)[i - 1] = q[i])
<1>1. /\ Tail(q) \in Seq(S) /\ Len(Tail(q)) = Len(q) - 1 /\ Len(q) \in Nat \ {0}
      /\ \A i \in 1 .. Len(q) - 1 : Tail(q)[i] = q[i + 1]
      /\ Head(q) = q[1]
  BY HeadTailProperties, LenProperties, EmptySeq
<1>2. DOMAIN q = 1 .. Len(q) /\ DOMAIN Tail(q) = 1 .. Len(q) - 1
  BY <1>1, LenProperties
<1> QED
  BY <1>1, <1>2

LEMMA AppendTasks ==
  ASSUME NEW S, NEW q \in Seq(S), NEW x \in S
  PROVE  /\ DOMAIN q \subseteq Nat /\ Len(q) \in Nat
         /\ DOMAIN Append(q, x) = DOMAIN q \cup {Len(q) + 1}
         /\ \A i \in DOMAIN q : i < Len(q) + 1 /\ Append(q, x)[i] = q[i]
         /\ Append(q, x)[Len(q) + 1] = x
<1>1. /\ Append(q, x) \in Seq(S) /\ Len(Append(q, x)) = Len(q) + 1 /\ Len(q) \in Nat
      /\ \A i \in 1 .. Len(q) : Append(q, x)[i] = q[i]
      /\ Append(q, x)[Len(q) + 1] = x
  BY AppendProperties, LenProperties
<1>2. DOMAIN q = 1 .. Len(q) /\ DOMAIN Append(q, x) = 1 .. Len(q) + 1
  BY <1>1, LenProperties
<1> QED
  BY <1>1, <1>2

LEMMA GetTaskLosesNothing ==
  ASSUME SessionInv, NothingLost, NEW s \in Sessions, GetTask(s)
  PROVE  NothingLost'
<1> DEFINE q == queue[s]
<1>1. q \in Seq(Requests \cup {CloseTask}) /\ q # <<>> /\ pc[s] = "get"
  BY CloseTyped DEF GetTask
<1>2. UNCHANGED <<answer, behind, closer>>
  BY DEF GetTask, clientVars, callerVars, closeVars
<1>3. \A u \in Sessions : /\ queue'[u] = IF u = s THEN Tail(q) ELSE queue[u]
                          /\ task'[u] = IF u = s THEN q[1] ELSE task[u]
                          /\ pc'[u] = IF u = s THEN "take" ELSE pc[u]
  BY <1>1, CloseTyped, TailTasks DEF GetTask
<1>4. Held'
  <2>1. ASSUME NEW r \in Requests, answer[r] = "queued"
        PROVE  \E u \in Sessions : r \in Tasks(u)' \cup {task'[u]}
    <3>1. PICK u \in Sessions : r \in Tasks(u) \cup {task[u]}
      BY <2>1 DEF NothingLost, Held
    <3>2. CASE u # s
      BY <1>3, <3>1, <3>2 DEF Tasks
    <3>3. CASE u = s
      <4>1. task[s] = NoTask
        BY <1>1 DEF NothingLost, Held
      <4>2. PICK i \in DOMAIN q : q[i] = r
        BY <3>1, <3>3, <4>1, TaskAssumption DEF Tasks
      <4>3. CASE i = 1
        BY <1>3, <4>2, <4>3
      <4>4. CASE i # 1
        <5>1. i - 1 \in DOMAIN Tail(q) /\ Tail(q)[i - 1] = r
          <6>1. \A j \in DOMAIN q : j = 1 \/ (j - 1 \in DOMAIN Tail(q) /\ Tail(q)[j - 1] = q[j])
            BY <1>1, TailTasks
          <6> QED
            BY <4>2, <4>4, <6>1
        <5>2. i - 1 \in DOMAIN queue'[s] /\ queue'[s][i - 1] = r
          BY <1>3, <5>1
        <5> QED
          BY <5>2 DEF Tasks
      <4> QED
        BY <4>3, <4>4
    <3> QED
      BY <3>2, <3>3
  <2> QED
    BY <1>2, <1>3, <2>1 DEF NothingLost, Held
<1>5. ClosedBehind'
  <2>1. ASSUME NEW u \in Sessions, u # s
        PROVE  /\ pc'[u] \in {"term", "dead"} => task'[u] = CloseTask /\ closer'[u] \in {"wait", "done"}
               /\ task'[u] = CloseTask => Tasks(u)' \subseteq behind'
               /\ \A i, j \in DOMAIN queue'[u] :
                    i < j /\ queue'[u][i] = CloseTask => queue'[u][j] \in behind'
    BY <1>2, <1>3, <2>1 DEF NothingLost, ClosedBehind, Tasks
  <2>2. \A i, j \in DOMAIN q : i < j /\ q[i] = CloseTask => q[j] \in behind
    BY DEF NothingLost, ClosedBehind
  <2>3. ASSUME NEW i \in DOMAIN Tail(q), NEW j \in DOMAIN Tail(q), i < j, Tail(q)[i] = CloseTask
        PROVE  Tail(q)[j] \in behind
    <3>1. /\ i + 1 \in DOMAIN q /\ j + 1 \in DOMAIN q /\ i + 1 < j + 1
          /\ q[i + 1] = CloseTask /\ Tail(q)[j] = q[j + 1]
      BY <1>1, <2>3, TailTasks
    <3> QED
      BY <2>2, <3>1
  <2>4. ASSUME q[1] = CloseTask, NEW j \in DOMAIN Tail(q) PROVE Tail(q)[j] \in behind
    <3>1. 1 \in DOMAIN q /\ j + 1 \in DOMAIN q /\ 1 < j + 1 /\ Tail(q)[j] = q[j + 1]
      BY <1>1, TailTasks
    <3> QED
      BY <2>2, <2>4, <3>1
  <2>5. pc'[s] = "take" /\ task'[s] = q[1] /\ queue'[s] = Tail(q) /\ behind' = behind
    BY <1>2, <1>3
  <2>6. q[1] = CloseTask => Tasks(s)' \subseteq behind'
    BY <2>4, <2>5 DEF Tasks
  <2>7. /\ pc'[s] \in {"term", "dead"} => task'[s] = CloseTask /\ closer'[s] \in {"wait", "done"}
        /\ task'[s] = CloseTask => Tasks(s)' \subseteq behind'
        /\ \A i, j \in DOMAIN queue'[s] :
             i < j /\ queue'[s][i] = CloseTask => queue'[s][j] \in behind'
    BY <2>3, <2>5, <2>6
  <2> QED
    BY <2>1, <2>7 DEF ClosedBehind
<1> QED
  BY <1>4, <1>5 DEF NothingLost

\* An entry x is added to the queue of s: a DBCloseTask while there is none, or
\* a request, which is then behind one that is there.
LEMMA AppendLosesNothing ==
  ASSUME SessionInv, NothingLost, NEW s \in Sessions, NEW x \in Requests \cup {CloseTask},
         queue' = [queue EXCEPT ![s] = Append(queue[s], x)], UNCHANGED <<pc, task>>,
         \A u \in Sessions : closer[u] \in {"wait", "done"} => closer'[u] \in {"wait", "done"},
         \A r \in Requests : r # x => answer'[r] = answer[r],
         behind \subseteq behind',
         CloseTask \in Tasks(s) \cup {task[s]} => x \in behind'
  PROVE  NothingLost'
<1> DEFINE q == queue[s]
<1>1. q \in Seq(Requests \cup {CloseTask})
  BY CloseTyped
<1>2. \A u \in Sessions : queue'[u] = IF u = s THEN Append(q, x) ELSE queue[u]
  BY CloseTyped
<1>3. \A u \in Sessions : Tasks(u)' = IF u = s THEN Tasks(s) \cup {x} ELSE Tasks(u)
  <2>1. \A y : (\E i \in DOMAIN Append(q, x) : y = Append(q, x)[i])
                 <=> (\E i \in DOMAIN q : y = q[i]) \/ y = x
    BY <1>1, AppendTasks
  <2>2. \A u \in Sessions : u # s => Tasks(u)' = Tasks(u)
    BY <1>2 DEF Tasks
  <2>3. \A y : y \in Tasks(s)' <=> \E i \in DOMAIN queue'[s] : y = queue'[s][i]
    BY DEF Tasks
  <2>4. \A y : y \in Tasks(s) <=> \E i \in DOMAIN q : y = q[i]
    BY DEF Tasks
  <2>5. Tasks(s)' = Tasks(s) \cup {x}
    <3>1. queue'[s] = Append(q, x)
      BY <1>2
    <3>2. \A y : y \in Tasks(s)' <=> y \in Tasks(s) \cup {x}
      BY <2>1, <2>3, <2>4, <3>1
    <3> QED
      BY <3>2
  <2> QED
    BY <2>2, <2>5
<1>4. Held'
  <2>1. ASSUME NEW r \in Requests, answer'[r] = "queued"
        PROVE  \E u \in Sessions : r \in Tasks(u)' \cup {task'[u]}
    <3>1. CASE r = x
      BY <1>3, <3>1
    <3>2. CASE r # x
      BY <1>3, <2>1, <3>2 DEF NothingLost, Held
    <3> QED
      BY <3>1, <3>2
  <2> QED
    BY <2>1 DEF NothingLost, Held
<1>5. ASSUME NEW i \in DOMAIN Append(q, x), NEW j \in DOMAIN Append(q, x), i < j,
             Append(q, x)[i] = CloseTask
      PROVE  Append(q, x)[j] \in behind'
  <2>1. i \in DOMAIN q /\ q[i] = CloseTask
    BY <1>1, <1>5, AppendTasks
  <2>2. CASE j \in DOMAIN q
    BY <1>1, <1>5, <2>1, <2>2, AppendTasks DEF NothingLost, ClosedBehind
  <2>3. CASE j = Len(q) + 1
    <3>1. CloseTask \in Tasks(s)
      BY <2>1 DEF Tasks
    <3> QED
      BY <1>1, <2>3, <3>1, AppendTasks
  <2> QED
    BY <1>1, <2>2, <2>3, AppendTasks
<1>6. ClosedBehind'
  BY <1>2, <1>3, <1>5 DEF NothingLost, ClosedBehind
<1> QED
  BY <1>4, <1>6 DEF NothingLost

\* A task ends: it gives its answer, and then leaves the thread.
LEMMA FinishLosesNothing ==
  ASSUME SessionInv, NothingLost, NEW s \in Sessions, NEW a \in Answers \ {"new", "queued"},
         Finish(s, a), pc[s] \in {"run", "reconnect"}
  PROVE  NothingLost'
<1>1. /\ UNCHANGED <<queue, task, behind, closer>>
      /\ \A u \in Sessions : pc'[u] = IF u = s THEN "unlock" ELSE pc[u]
  BY CloseTyped DEF Finish, sessionVars, callerVars, closeVars
<1>2. \A r \in Requests : answer'[r] = "queued" => answer[r] = "queued"
  BY CloseTyped DEF Finish
<1>3. \A u \in Sessions : Tasks(u)' = Tasks(u)
  BY <1>1 DEF Tasks
<1> QED
  BY <1>1, <1>2, <1>3 DEF NothingLost, Held, ClosedBehind

LEMMA EndTaskLosesNothing ==
  ASSUME SessionInv, OnePlace, NothingLost, NEW s \in Sessions, EndTask(s)
  PROVE  NothingLost'
<1>1. /\ UNCHANGED <<queue, answer, behind, closer>> /\ pc[s] = "unlock"
      /\ \A u \in Sessions : /\ pc'[u] = IF u = s THEN "get" ELSE pc[u]
                             /\ task'[u] = IF u = s THEN NoTask ELSE task[u]
  BY CloseTyped DEF EndTask, clientVars, callerVars, closeVars
<1>2. \A u \in Sessions : Tasks(u)' = Tasks(u)
  BY <1>1 DEF Tasks
<1>3. task[s] \in Requests /\ answer[task[s]] # "queued"
  BY <1>1, TaskOf DEF OnePlace, TaskStage, Executing
<1>4. Held'
  BY <1>1, <1>2, <1>3 DEF NothingLost, Held
<1>5. ClosedBehind'
  BY <1>1, <1>2, TaskAssumption DEF NothingLost, ClosedBehind
<1> QED
  BY <1>4, <1>5 DEF NothingLost

LEMMA NothingLostNext ==
  SessionInv /\ OnePlace /\ NothingLost /\ [Next]_vars => NothingLost'
<1> SUFFICES ASSUME SessionInv, OnePlace, NothingLost, [Next]_vars PROVE NothingLost'
  OBVIOUS
<1> USE DEF workerVars, taskVars, sessionVars, clientVars, callerVars, closeVars
<1>1. ASSUME UNCHANGED <<pc, queue, task, answer, behind, closer>> PROVE NothingLost'
  BY <1>1, NothingLostMove
<1>2. ASSUME NEW s \in Sessions, NEW m, pc' = [pc EXCEPT ![s] = m],
             UNCHANGED <<queue, task, answer, behind, closer>>,
             \/ m \in {"take", "lock", "run", "reconnect", "unlock"}
             \/ m = "get" /\ pc[s] \in {"init", "failed"}
             \/ m = "failed" /\ pc[s] = "init"
             \/ m = "init" /\ pc[s] = "none"
             \/ m = "dead" /\ pc[s] = "term"
             \/ m = "term" /\ task[s] = CloseTask /\ closer[s] = "wait"
      PROVE  NothingLost'
  <2>1. \A u \in Sessions : pc'[u] = IF u = s THEN m ELSE pc[u]
    BY <1>2, CloseTyped
  <2> QED
    BY <1>2, <2>1, NothingLostMove
<1>3. ASSUME NEW s \in Sessions, Worker(s) PROVE NothingLost'
  <2>1. CASE Connect(s) \/ FailToConnect(s)
    BY <1>2, <2>1 DEF Connect, FailToConnect
  <2>2. CASE ForgetFailed(s) \/ AskAgain(s)
    BY <1>2, <2>2 DEF ForgetFailed, AskAgain
  <2>3. CASE GetTask(s)
    BY <2>3, GetTaskLosesNothing
  <2>4. CASE TakeClose(s)
    <3>1. pc[s] = "take" /\ task[s] = CloseTask
      BY <2>4 DEF TakeClose
    <3>2. closer[s] = "wait"
      BY <3>1 DEF SessionInv, CloserWaits
    <3> QED
      BY <1>2, <2>4, <3>1, <3>2 DEF TakeClose
  <2>5. CASE TakeTask(s)
    BY <1>2, <2>5 DEF TakeTask
  <2>6. CASE LockForTask(s) \/ LockTimesOut(s) \/ StartAutoReconnect(s) \/ AutoReconnected(s)
    BY <1>2, <2>6 DEF LockForTask, LockTimesOut, StartAutoReconnect, AutoReconnected, Begin
  <2>7. CASE SkipTask(s) \/ TaskResult(s) \/ GiveUpReconnect(s)
    BY <2>7, FinishLosesNothing DEF SkipTask, TaskResult, GiveUpReconnect, Answers
  <2>8. CASE AutoReconnectFails(s)
    BY <1>1, <2>8 DEF AutoReconnectFails
  <2>9. CASE EndTask(s)
    BY <2>9, EndTaskLosesNothing
  <2>10. CASE Terminate(s)
    BY <1>2, <2>10 DEF Terminate
  <2> QED
    BY <1>3, <2>1, <2>2, <2>3, <2>4, <2>5, <2>6, <2>7, <2>8, <2>9, <2>10 DEF Worker
<1>4. ASSUME NEW r \in Requests, NEW s \in Sessions, Execute(r, s) PROVE NothingLost'
  <2>1. \A p \in Requests : p # r => answer'[p] = answer[p]
    BY <1>4, CloseTyped DEF Execute
  <2> QED
    BY <1>4, <2>1, AppendLosesNothing DEF Execute
<1>5. ASSUME NEW s \in Sessions, LockAndClose(s) PROVE NothingLost'
  <2>1. /\ UNCHANGED <<pc, task, answer, behind>> /\ closer[s] = "lock"
        /\ \A u \in Sessions : closer[u] \in {"wait", "done"} => closer'[u] \in {"wait", "done"}
    BY <1>5, CloseTyped DEF LockAndClose
  <2>2. CASE forgot[s]
    <3>1. queue' = queue
      BY <1>5, <2>2, CloseTyped DEF LockAndClose
    <3> QED
      BY <2>1, <3>1, NothingLostMove
  <2>3. CASE ~forgot[s]
    <3>1. pc[s] # "dead"
      BY <2>1 DEF NothingLost, ClosedBehind
    <3>2. CloseTask \notin Tasks(s) \cup {task[s]}
      BY <2>1, <3>1 DEF SessionInv, CloserWaits
    <3>3. queue' = [queue EXCEPT ![s] = Append(queue[s], CloseTask)]
      BY <1>5, <2>3 DEF LockAndClose
    <3> QED
      BY <2>1, <3>2, <3>3, AppendLosesNothing
  <2> QED
    BY <2>2, <2>3
<1>6. ASSUME NEW s \in Sessions, FinishClose(s) \/ CallClose(s) PROVE NothingLost'
  <2>1. \A u \in Sessions : closer[u] \in {"wait", "done"} => closer'[u] \in {"wait", "done"}
    BY <1>6, CloseTyped DEF FinishClose, CallClose
  <2> QED
    BY <1>6, <2>1, NothingLostMove DEF FinishClose, CallClose
<1>7. ASSUME NEW s \in Sessions, Reconnector(s) \/ CallReconnect(s) \/ LoseConnection(s)
             \/ ReplaceDenied(s)
      PROVE  NothingLost'
  BY <1>1, <1>7 DEF Reconnector, StartReconnect, TryReconnect, ForgetReconnected,
     CallReconnect, LoseConnection, ReplaceDenied
<1>13. ASSUME NEW s \in Sessions, Open(s) PROVE NothingLost'
  BY <1>2, <1>13 DEF Open
<1>8. ASSUME NEW s \in Sessions, Killer(s) PROVE NothingLost'
  BY <1>1, <1>8 DEF Killer, LockForKill, FlagKill, RunKill, FailKill
<1>9. ASSUME NEW s \in Sessions, NEW u \in Sessions, CallKill(s, u) PROVE NothingLost'
  BY <1>1, <1>9 DEF CallKill
<1>10. ASSUME NEW p \in Plugins, Plugin(p) \/ \E s \in Sessions : CallPlugin(p, s) PROVE NothingLost'
  BY <1>1, <1>10 DEF CallPlugin, Plugin, EnterPlugin, LeavePlugin
<1>11. ASSUME NEW r \in Requests, Cancel(r) PROVE NothingLost'
  BY <1>1, <1>11 DEF Cancel
<1>12. ASSUME UNCHANGED vars PROVE NothingLost'
  BY <1>1, <1>12 DEF vars
<1> QED
  BY <1>3, <1>4, <1>5, <1>6, <1>7, <1>8, <1>9, <1>10, <1>11, <1>12, <1>13 DEF Next, Closer

\* Closing a session loses no request that was accepted before the close, in any
\* number of sessions and with kills, reconnects and plugins at any time: one
\* that is not answered is queued or being executed, and a thread that ended
\* leaves in its queue only what came behind the DBCloseTask.
THEOREM CloseLosesNothing == SafeSpec => []LostOnlyBehindClose
<1>1. NothingLost => LostOnlyBehindClose
  BY DEF NothingLost, Held, ClosedBehind, LostOnlyBehindClose
<1> QED
  BY <1>1, Invariance, OnePlaceInit, OnePlaceNext, NothingLostInit, NothingLostNext, PTL
     DEF SafeSpec
=============================================================================
