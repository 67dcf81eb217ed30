-------------------------- MODULE DbSession_proofs --------------------------
(* What holds of the database sessions for every set of sessions, requests   *)
(* and plugins, and every bound.                                             *)
EXTENDS DbSession, SequenceTheorems, TLAPS

\* Counting up to a bound.
LEMMA Step == ASSUME NEW n \in Nat, NEW i \in 0 .. n, i < n PROVE i + 1 \in 0 .. n
OBVIOUS

LEMMA Attempts3 == Attempts \in Nat /\ 2 * Attempts \in Nat
BY DEF Attempts

LEMMA TypeInit == Init => TypeOK
BY SessionsAssumption, BoundAssumption
   DEF Init, TypeOK, WorkerPcs, Holders, Answers, Attempts

LEMMA BeginTypes ==
  ASSUME TypeOK, NEW s \in Sessions, Begin(s)
  PROVE  /\ executed' \in [Requests -> Nat]
         /\ pc' \in [Sessions -> WorkerPcs]
         /\ UNCHANGED <<answer, cancelRequests, behind>>
<1>1. \A r \in Requests : executed[r] + 1 \in Nat
  BY DEF TypeOK
<1>2. \E n \in {executed[task[s]], executed[task[s]] + 1} :
        executed' = [executed EXCEPT ![task[s]] = n]
  BY DEF Begin
<1>3. executed' \in [Requests -> Nat]
  <2>1. CASE task[s] \in Requests
    BY <1>1, <1>2, <2>1 DEF TypeOK
  <2>2. CASE task[s] \notin Requests
    BY <1>2, <2>2 DEF TypeOK
  <2> QED
    BY <2>1, <2>2
<1> QED
  BY <1>3 DEF Begin, TypeOK, WorkerPcs

LEMMA TypeNext == TypeOK /\ [Next]_vars => TypeOK'
<1> SUFFICES ASSUME TypeOK, [Next]_vars PROVE TypeOK'
  OBVIOUS
<1> USE TaskAssumption, PluginAssumption, BoundAssumption
<1> USE DEF TypeOK, WorkerPcs, Holders, Answers, Attempts, vars, workerVars,
            taskVars, locks, sessionVars, closeVars, reconnectVars, pluginVars,
            killVars, callerVars, clientVars, killState
<1>1. ASSUME NEW s \in Sessions, Connect(s) PROVE TypeOK'
  BY <1>1 DEF Connect
<1>2. ASSUME NEW s \in Sessions, FailToConnect(s) PROVE TypeOK'
  BY <1>2 DEF FailToConnect
<1>3. ASSUME NEW s \in Sessions, ForgetFailed(s) PROVE TypeOK'
  BY <1>3 DEF ForgetFailed
<1>4. ASSUME NEW s \in Sessions, GetTask(s) PROVE TypeOK'
  <2>1. /\ Head(queue[s]) \in Requests \cup {CloseTask}
        /\ Tail(queue[s]) \in Seq(Requests \cup {CloseTask})
    BY <1>4, HeadTailProperties DEF GetTask
  <2> QED
    BY <1>4, <2>1 DEF GetTask
<1>5. ASSUME NEW s \in Sessions, TakeClose(s) PROVE TypeOK'
  BY <1>5 DEF TakeClose
<1>6. ASSUME NEW s \in Sessions, TakeTask(s) PROVE TypeOK'
  BY <1>6 DEF TakeTask, Target
<1>7. ASSUME NEW s \in Sessions, LockForTask(s) PROVE TypeOK'
  BY <1>7, BeginTypes, SMTT(30) DEF LockForTask
<1>8. ASSUME NEW s \in Sessions, LockTimesOut(s) PROVE TypeOK'
  BY <1>8, BeginTypes, SMTT(30) DEF LockTimesOut
<1>9. ASSUME NEW s \in Sessions, NEW a \in Answers, Finish(s, a) PROVE TypeOK'
  <2>1. answer' \in [Requests -> Answers]
    BY <1>9 DEF Finish
  <2>2. /\ interrupted' \in [Sessions -> BOOLEAN]
        /\ skip' \in [Sessions -> BOOLEAN]
        /\ tries' \in [Sessions -> 0 .. 2 * Attempts]
        /\ pc' \in [Sessions -> WorkerPcs]
    BY <1>9 DEF Finish
  <2> QED
    BY <1>9, <2>1, <2>2 DEF Finish
<1>10. ASSUME NEW s \in Sessions, StartAutoReconnect(s) PROVE TypeOK'
  BY <1>10 DEF StartAutoReconnect
<1>11. ASSUME NEW s \in Sessions, AutoReconnected(s) PROVE TypeOK'
  <2>1. /\ executed' \in [Requests -> Nat]
        /\ pc' \in [Sessions -> WorkerPcs]
        /\ UNCHANGED <<answer, cancelRequests, behind>>
    BY <1>11, BeginTypes DEF AutoReconnected
  <2>2. /\ conn' \in [Sessions -> {"none", "up", "lost"}]
        /\ tries' \in [Sessions -> 0 .. 2 * Attempts]
    BY <1>11, Attempts3 DEF AutoReconnected
  <2>3. UNCHANGED <<task, skip, locked, queue, callerVars, killState, locks>>
    BY <1>11 DEF AutoReconnected
  <2> QED
    BY <2>1, <2>2, <2>3
<1>12. ASSUME NEW s \in Sessions, AutoReconnectFails(s) PROVE TypeOK'
  <2>1. tries[s] + 1 \in 0 .. 2 * Attempts
    <3>1. tries[s] \in 0 .. 2 * Attempts /\ tries[s] < 2 * Attempts
      BY <1>12 DEF AutoReconnectFails
    <3> QED
      BY <3>1, Step, Attempts3
  <2> QED
    BY <1>12, <2>1 DEF AutoReconnectFails
<1>13. ASSUME NEW s \in Sessions, EndTask(s) PROVE TypeOK'
  BY <1>13 DEF EndTask
<1>14. ASSUME NEW s \in Sessions, Terminate(s) PROVE TypeOK'
  BY <1>14 DEF Terminate
<1>35. ASSUME NEW s \in Sessions, AskAgain(s) PROVE TypeOK'
  BY <1>35 DEF AskAgain
<1>15. ASSUME NEW s \in Sessions, Worker(s) PROVE TypeOK'
  BY <1>1, <1>2, <1>3, <1>4, <1>5, <1>6, <1>7, <1>8, <1>9, <1>10, <1>11,
     <1>12, <1>13, <1>14, <1>15, <1>35
     DEF Worker, SkipTask, TaskResult, GiveUpReconnect
<1>16. ASSUME NEW s \in Sessions, NEW r \in Requests, Execute(r, s) PROVE TypeOK'
  <2>1. Append(queue[s], r) \in Seq(Requests \cup {CloseTask})
    BY AppendProperties
  <2> QED
    BY <1>16, <2>1 DEF Execute
<1>17. ASSUME NEW r \in Requests, Cancel(r) PROVE TypeOK'
  BY <1>17 DEF Cancel
<1>18. ASSUME NEW s \in Sessions, CallClose(s) PROVE TypeOK'
  BY <1>18 DEF CallClose
<1>19. ASSUME NEW s \in Sessions, LockAndClose(s) PROVE TypeOK'
  <2>1. Append(queue[s], CloseTask) \in Seq(Requests \cup {CloseTask})
    BY AppendProperties
  <2> QED
    BY <1>19, <2>1 DEF LockAndClose
<1>20. ASSUME NEW s \in Sessions, FinishClose(s) PROVE TypeOK'
  BY <1>20 DEF FinishClose
<1>21. ASSUME NEW s \in Sessions, CallReconnect(s) PROVE TypeOK'
  BY <1>21 DEF CallReconnect
<1>22. ASSUME NEW s \in Sessions, StartReconnect(s) PROVE TypeOK'
  BY <1>22 DEF StartReconnect
<1>23. ASSUME NEW s \in Sessions, TryReconnect(s) PROVE TypeOK'
  <2>1. userTries[s] + 1 \in 0 .. Attempts
    <3>1. userTries[s] \in 0 .. Attempts /\ userTries[s] < Attempts
      BY <1>23 DEF TryReconnect
    <3> QED
      BY <3>1, Step, Attempts3
  <2>2. conn' \in [Sessions -> {"none", "up", "lost"}]
    <3>1. CASE conn' = [conn EXCEPT ![s] = "up"]
      BY <3>1
    <3>2. CASE UNCHANGED conn
      BY <3>2
    <3> QED
      BY <1>23, <3>1, <3>2 DEF TryReconnect
  <2>3. userTries' \in [Sessions -> 0 .. Attempts]
    <3>1. CASE UNCHANGED userTries
      BY <3>1
    <3>2. CASE userTries' = [userTries EXCEPT ![s] = @ + 1]
      BY <2>1, <3>2
    <3>3. CASE userTries' = [userTries EXCEPT ![s] = Attempts]
      BY <3>3
    <3> QED
      BY <1>23, <3>1, <3>2, <3>3 DEF TryReconnect
  <2>4. \E x \in {reconnector[s], "fail", "idle"} :
          reconnector' = [reconnector EXCEPT ![s] = x]
    BY <1>23 DEF TryReconnect
  <2>5. \E x \in {taskMutex[s], "free"} : taskMutex' = [taskMutex EXCEPT ![s] = x]
    BY <1>23 DEF TryReconnect
  <2>6. /\ reconnector' \in [Sessions -> {"idle", "wait", "run", "fail"}]
        /\ taskMutex' \in [Sessions -> {"free", "worker", "reconnector"}]
    <3>1. reconnector[s] \in {"idle", "wait", "run", "fail"}
      OBVIOUS
    <3>2. taskMutex[s] \in {"free", "worker", "reconnector"}
      OBVIOUS
    <3>3. reconnector' \in [Sessions -> {"idle", "wait", "run", "fail"}]
      BY <2>4, <3>1
    <3>4. taskMutex' \in [Sessions -> {"free", "worker", "reconnector"}]
      BY <2>5, <3>2
    <3> QED
      BY <3>3, <3>4
  <2> QED
    BY <1>23, <2>2, <2>3, <2>6 DEF TryReconnect
<1>24. ASSUME NEW p \in Plugins, NEW s \in Sessions, CallPlugin(p, s) PROVE TypeOK'
  BY <1>24 DEF CallPlugin
<1>25. ASSUME NEW p \in Plugins, EnterPlugin(p) PROVE TypeOK'
  BY <1>25 DEF EnterPlugin
<1>26. ASSUME NEW p \in Plugins, LeavePlugin(p) PROVE TypeOK'
  BY <1>26 DEF LeavePlugin
<1>27. ASSUME NEW v \in Sessions, NEW u \in Sessions, CallKill(v, u) PROVE TypeOK'
  BY <1>27 DEF CallKill
<1>28. ASSUME NEW v \in Sessions, LockForKill(v) PROVE TypeOK'
  BY <1>28 DEF LockForKill
<1>29. ASSUME NEW v \in Sessions, FlagKill(v) PROVE TypeOK'
  BY <1>29 DEF FlagKill
<1>30. ASSUME NEW v \in Sessions, RunKill(v) PROVE TypeOK'
  BY <1>30 DEF RunKill
<1>31. ASSUME NEW v \in Sessions, FailKill(v) PROVE TypeOK'
  BY <1>31 DEF FailKill
<1>32. ASSUME NEW s \in Sessions, LoseConnection(s) PROVE TypeOK'
  BY <1>32 DEF LoseConnection
<1>34. ASSUME NEW s \in Sessions, Open(s) PROVE TypeOK'
  BY <1>34 DEF Open
<1>36. ASSUME NEW s \in Sessions, ReplaceDenied(s) PROVE TypeOK'
  BY <1>36 DEF ReplaceDenied
<1>37. ASSUME NEW s \in Sessions, ForgetReconnected(s) PROVE TypeOK'
  BY <1>37 DEF ForgetReconnected
<1>33. CASE UNCHANGED vars
  BY <1>33
<1> QED
  BY <1>15, <1>16, <1>17, <1>18, <1>19, <1>20, <1>21, <1>22, <1>23, <1>24,
     <1>25, <1>26, <1>27, <1>28, <1>29, <1>30, <1>31, <1>32, <1>33, <1>34, <1>36, <1>37
     DEF Next, Closer, Reconnector, Plugin, Killer

\* The sessions keep their types.
THEOREM TypeCorrect == SafeSpec => []TypeOK
<1>1. Init => TypeOK
  BY TypeInit
<1>2. TypeOK /\ [Next]_vars => TypeOK'
  BY TypeNext
<1> QED
  BY <1>1, <1>2, PTL DEF SafeSpec

-----------------------------------------------------------------------------
\* No step lets a thread into a session whose mutex another one holds.
LEMMA InsideNext ==
  TypeOK /\ InsideOwns /\ [Next]_vars => InsideOwns'
<1> SUFFICES ASSUME TypeOK /\ InsideOwns, [Next]_vars PROVE InsideOwns'
  OBVIOUS
<1> USE PluginAssumption, TaskAssumption
<1> USE DEF TypeOK, InsideOwns, Holders, vars, workerVars, taskVars, locks,
            sessionVars, closeVars, reconnectVars, pluginVars, killVars,
            callerVars, clientVars, killState
<1>1. ASSUME NEW s \in Sessions, Connect(s) PROVE InsideOwns'
  BY <1>1 DEF Connect
<1>2. ASSUME NEW s \in Sessions, FailToConnect(s) PROVE InsideOwns'
  BY <1>2 DEF FailToConnect
<1>3. ASSUME NEW s \in Sessions, ForgetFailed(s) PROVE InsideOwns'
  BY <1>3 DEF ForgetFailed
<1>4. ASSUME NEW s \in Sessions, GetTask(s) PROVE InsideOwns'
  BY <1>4 DEF GetTask
<1>5. ASSUME NEW s \in Sessions, TakeClose(s) PROVE InsideOwns'
  BY <1>5 DEF TakeClose
<1>6. ASSUME NEW s \in Sessions, TakeTask(s) PROVE InsideOwns'
  BY <1>6 DEF TakeTask, Target
<1>7. ASSUME NEW s \in Sessions, LockForTask(s) PROVE InsideOwns'
  BY <1>7 DEF LockForTask, Begin
<1>8. ASSUME NEW s \in Sessions, LockTimesOut(s) PROVE InsideOwns'
  BY <1>8 DEF LockTimesOut, Begin
<1>9. ASSUME NEW s \in Sessions, NEW a \in Answers, Finish(s, a),
             pc[s] \in {"run", "reconnect"}
      PROVE  InsideOwns'
  BY <1>9 DEF Finish, Answers
<1>10. ASSUME NEW s \in Sessions, StartAutoReconnect(s) PROVE InsideOwns'
  BY <1>10 DEF StartAutoReconnect
<1>11. ASSUME NEW s \in Sessions, AutoReconnected(s) PROVE InsideOwns'
  BY <1>11 DEF AutoReconnected, Begin
<1>12. ASSUME NEW s \in Sessions, AutoReconnectFails(s) PROVE InsideOwns'
  BY <1>12 DEF AutoReconnectFails
<1>13. ASSUME NEW s \in Sessions, EndTask(s) PROVE InsideOwns'
  BY <1>13 DEF EndTask
<1>14. ASSUME NEW s \in Sessions, Terminate(s) PROVE InsideOwns'
  BY <1>14 DEF Terminate
<1>15. ASSUME NEW s \in Sessions, LockAndClose(s) PROVE InsideOwns'
  BY <1>15 DEF LockAndClose
<1>16. ASSUME NEW s \in Sessions, FinishClose(s) PROVE InsideOwns'
  <2>1. /\ pc[s] = "dead" /\ closer[s] = "wait" /\ mutex[s] = "closer" /\ ~locked[s] /\ ~killLocked[s]
        /\ UNCHANGED <<locked, pc, killLocked, killer, pluginPc, pluginOn>>
    BY <1>16 DEF FinishClose
  <2>2. /\ mutex' = [mutex EXCEPT ![s] = "free"] \/ mutex' = mutex
        /\ closer' = [closer EXCEPT ![s] = "done"]
    BY <1>16 DEF FinishClose
  <2>3. ASSUME NEW p \in Plugins, pluginPc[p] = "use" PROVE pluginOn[p] # s
    BY <2>1, <2>3
  <2> QED
    BY <2>1, <2>2, <2>3
<1>17. ASSUME NEW s \in Sessions, StartReconnect(s) PROVE InsideOwns'
  BY <1>17 DEF StartReconnect
<1>18. ASSUME NEW s \in Sessions, TryReconnect(s) PROVE InsideOwns'
  BY <1>18 DEF TryReconnect
<1>19. ASSUME NEW s \in Sessions, LockForKill(s) PROVE InsideOwns'
  BY <1>19 DEF LockForKill
<1>20. ASSUME NEW s \in Sessions, FlagKill(s) PROVE InsideOwns'
  BY <1>20 DEF FlagKill
<1>21. ASSUME NEW s \in Sessions, RunKill(s) PROVE InsideOwns'
  BY <1>21, SMTT(30) DEF RunKill
<1>22. ASSUME NEW s \in Sessions, FailKill(s) PROVE InsideOwns'
  BY <1>22 DEF FailKill
<1>23. ASSUME NEW s \in Sessions, CallClose(s) PROVE InsideOwns'
  BY <1>23 DEF CallClose
<1>24. ASSUME NEW s \in Sessions, CallReconnect(s) PROVE InsideOwns'
  BY <1>24 DEF CallReconnect
<1>25. ASSUME NEW s \in Sessions, LoseConnection(s) PROVE InsideOwns'
  BY <1>25 DEF LoseConnection
<1>26. ASSUME NEW s \in Sessions, NEW r \in Requests, Execute(r, s) PROVE InsideOwns'
  BY <1>26 DEF Execute
<1>27. ASSUME NEW r \in Requests, Cancel(r) PROVE InsideOwns'
  BY <1>27 DEF Cancel
<1>28. ASSUME NEW p \in Plugins, NEW s \in Sessions, CallPlugin(p, s) PROVE InsideOwns'
  BY <1>28 DEF CallPlugin
<1>29. ASSUME NEW p \in Plugins, EnterPlugin(p) PROVE InsideOwns'
  BY <1>29 DEF EnterPlugin
<1>30. ASSUME NEW p \in Plugins, LeavePlugin(p) PROVE InsideOwns'
  BY <1>30 DEF LeavePlugin
<1>31. ASSUME NEW s \in Sessions, NEW u \in Sessions, CallKill(s, u) PROVE InsideOwns'
  BY <1>31 DEF CallKill
<1>32. CASE UNCHANGED vars
  BY <1>32
<1>33. ASSUME NEW s \in Sessions, Open(s) PROVE InsideOwns'
  BY <1>33 DEF Open
<1>34. ASSUME NEW s \in Sessions, AskAgain(s) PROVE InsideOwns'
  BY <1>34 DEF AskAgain
<1>35. ASSUME NEW s \in Sessions, ReplaceDenied(s) PROVE InsideOwns'
  BY <1>35 DEF ReplaceDenied
<1>36. ASSUME NEW s \in Sessions, ForgetReconnected(s) PROVE InsideOwns'
  BY <1>36 DEF ForgetReconnected
<1> QED
  BY <1>1, <1>2, <1>3, <1>4, <1>5, <1>6, <1>7, <1>8, <1>9, <1>10, <1>11,
     <1>12, <1>13, <1>14, <1>15, <1>16, <1>17, <1>18, <1>19, <1>20, <1>21,
     <1>22, <1>23, <1>24, <1>25, <1>26, <1>27, <1>28, <1>29, <1>30, <1>31,
     <1>32, <1>33, <1>34, <1>35, <1>36
     DEF Next, Worker, Closer, Reconnector, Plugin, Killer, SkipTask,
         TaskResult, GiveUpReconnect, Answers

\* No step takes _task_mutex from the thread that works under it.
LEMMA TaskMutexNext ==
  TypeOK /\ TaskMutexOwned /\ [Next]_vars => TaskMutexOwned'
<1> SUFFICES ASSUME TypeOK /\ TaskMutexOwned, [Next]_vars PROVE TaskMutexOwned'
  OBVIOUS
<1> USE PluginAssumption, TaskAssumption
<1> USE DEF TypeOK, TaskMutexOwned, Executing, vars, workerVars, taskVars, locks,
            sessionVars, closeVars, reconnectVars, pluginVars, killVars,
            callerVars, clientVars, killState
<1>1. ASSUME NEW s \in Sessions, Connect(s) PROVE TaskMutexOwned'
  BY <1>1 DEF Connect
<1>2. ASSUME NEW s \in Sessions, FailToConnect(s) PROVE TaskMutexOwned'
  BY <1>2 DEF FailToConnect
<1>3. ASSUME NEW s \in Sessions, ForgetFailed(s) PROVE TaskMutexOwned'
  BY <1>3 DEF ForgetFailed
<1>4. ASSUME NEW s \in Sessions, GetTask(s) PROVE TaskMutexOwned'
  BY <1>4 DEF GetTask
<1>5. ASSUME NEW s \in Sessions, TakeClose(s) PROVE TaskMutexOwned'
  BY <1>5 DEF TakeClose
<1>6. ASSUME NEW s \in Sessions, TakeTask(s) PROVE TaskMutexOwned'
  BY <1>6 DEF TakeTask, Target
<1>7. ASSUME NEW s \in Sessions, LockForTask(s) PROVE TaskMutexOwned'
  BY <1>7 DEF LockForTask, Begin
<1>8. ASSUME NEW s \in Sessions, LockTimesOut(s) PROVE TaskMutexOwned'
  BY <1>8 DEF LockTimesOut, Begin
<1>9. ASSUME NEW s \in Sessions, NEW a \in Answers, Finish(s, a),
             pc[s] \in {"run", "reconnect"}
      PROVE  TaskMutexOwned'
  BY <1>9 DEF Finish, Answers
<1>10. ASSUME NEW s \in Sessions, StartAutoReconnect(s) PROVE TaskMutexOwned'
  BY <1>10 DEF StartAutoReconnect
<1>11. ASSUME NEW s \in Sessions, AutoReconnected(s) PROVE TaskMutexOwned'
  BY <1>11 DEF AutoReconnected, Begin
<1>12. ASSUME NEW s \in Sessions, AutoReconnectFails(s) PROVE TaskMutexOwned'
  BY <1>12 DEF AutoReconnectFails
<1>13. ASSUME NEW s \in Sessions, EndTask(s) PROVE TaskMutexOwned'
  BY <1>13 DEF EndTask
<1>14. ASSUME NEW s \in Sessions, Terminate(s) PROVE TaskMutexOwned'
  BY <1>14 DEF Terminate
<1>15. ASSUME NEW s \in Sessions, LockAndClose(s) PROVE TaskMutexOwned'
  BY <1>15 DEF LockAndClose
<1>16. ASSUME NEW s \in Sessions, FinishClose(s) PROVE TaskMutexOwned'
  BY <1>16 DEF FinishClose
<1>17. ASSUME NEW s \in Sessions, StartReconnect(s) PROVE TaskMutexOwned'
  BY <1>17 DEF StartReconnect
<1>18. ASSUME NEW s \in Sessions, TryReconnect(s) PROVE TaskMutexOwned'
  BY <1>18 DEF TryReconnect
<1>19. ASSUME NEW s \in Sessions, LockForKill(s) PROVE TaskMutexOwned'
  BY <1>19 DEF LockForKill
<1>20. ASSUME NEW s \in Sessions, FlagKill(s) PROVE TaskMutexOwned'
  BY <1>20 DEF FlagKill
<1>21. ASSUME NEW s \in Sessions, RunKill(s) PROVE TaskMutexOwned'
  BY <1>21 DEF RunKill
<1>22. ASSUME NEW s \in Sessions, FailKill(s) PROVE TaskMutexOwned'
  BY <1>22 DEF FailKill
<1>23. ASSUME NEW s \in Sessions, CallClose(s) PROVE TaskMutexOwned'
  BY <1>23 DEF CallClose
<1>24. ASSUME NEW s \in Sessions, CallReconnect(s) PROVE TaskMutexOwned'
  BY <1>24 DEF CallReconnect
<1>25. ASSUME NEW s \in Sessions, LoseConnection(s) PROVE TaskMutexOwned'
  BY <1>25 DEF LoseConnection
<1>26. ASSUME NEW s \in Sessions, NEW r \in Requests, Execute(r, s) PROVE TaskMutexOwned'
  BY <1>26 DEF Execute
<1>27. ASSUME NEW r \in Requests, Cancel(r) PROVE TaskMutexOwned'
  BY <1>27 DEF Cancel
<1>28. ASSUME NEW p \in Plugins, NEW s \in Sessions, CallPlugin(p, s) PROVE TaskMutexOwned'
  BY <1>28 DEF CallPlugin
<1>29. ASSUME NEW p \in Plugins, EnterPlugin(p) PROVE TaskMutexOwned'
  BY <1>29 DEF EnterPlugin
<1>30. ASSUME NEW p \in Plugins, LeavePlugin(p) PROVE TaskMutexOwned'
  BY <1>30 DEF LeavePlugin
<1>31. ASSUME NEW s \in Sessions, NEW u \in Sessions, CallKill(s, u) PROVE TaskMutexOwned'
  BY <1>31 DEF CallKill
<1>32. CASE UNCHANGED vars
  BY <1>32
<1>33. ASSUME NEW s \in Sessions, Open(s) PROVE TaskMutexOwned'
  BY <1>33 DEF Open
<1>34. ASSUME NEW s \in Sessions, AskAgain(s) PROVE TaskMutexOwned'
  BY <1>34 DEF AskAgain
<1>35. ASSUME NEW s \in Sessions, ReplaceDenied(s) PROVE TaskMutexOwned'
  BY <1>35 DEF ReplaceDenied
<1>36. ASSUME NEW s \in Sessions, ForgetReconnected(s) PROVE TaskMutexOwned'
  BY <1>36 DEF ForgetReconnected
<1> QED
  BY <1>1, <1>2, <1>3, <1>4, <1>5, <1>6, <1>7, <1>8, <1>9, <1>10, <1>11,
     <1>12, <1>13, <1>14, <1>15, <1>16, <1>17, <1>18, <1>19, <1>20, <1>21,
     <1>22, <1>23, <1>24, <1>25, <1>26, <1>27, <1>28, <1>29, <1>30, <1>31,
     <1>32, <1>33, <1>34, <1>35, <1>36
     DEF Next, Worker, Closer, Reconnector, Plugin, Killer, SkipTask,
         TaskResult, GiveUpReconnect, Answers

\* No step leaves a DBCloseTask without its sender.
LEMMA CloserNext ==
  TypeOK /\ CloserWaits /\ [Next]_vars => CloserWaits'
<1> SUFFICES ASSUME TypeOK /\ CloserWaits, [Next]_vars PROVE CloserWaits'
  OBVIOUS
<1> USE PluginAssumption, TaskAssumption
<1> USE DEF TypeOK, CloserWaits, Tasks, vars, workerVars, taskVars, locks,
            sessionVars, closeVars, reconnectVars, pluginVars, killVars,
            callerVars, clientVars, killState
<1>1. ASSUME NEW s \in Sessions, Connect(s) PROVE CloserWaits'
  BY <1>1 DEF Connect
<1>2. ASSUME NEW s \in Sessions, FailToConnect(s) PROVE CloserWaits'
  BY <1>2 DEF FailToConnect
<1>3. ASSUME NEW s \in Sessions, ForgetFailed(s) PROVE CloserWaits'
  BY <1>3 DEF ForgetFailed
<1>4. ASSUME NEW s \in Sessions, GetTask(s) PROVE CloserWaits'
  BY <1>4 DEF GetTask
<1>5. ASSUME NEW s \in Sessions, TakeClose(s) PROVE CloserWaits'
  BY <1>5 DEF TakeClose
<1>6. ASSUME NEW s \in Sessions, TakeTask(s) PROVE CloserWaits'
  BY <1>6 DEF TakeTask, Target
<1>7. ASSUME NEW s \in Sessions, LockForTask(s) PROVE CloserWaits'
  BY <1>7 DEF LockForTask, Begin
<1>8. ASSUME NEW s \in Sessions, LockTimesOut(s) PROVE CloserWaits'
  BY <1>8 DEF LockTimesOut, Begin
<1>9. ASSUME NEW s \in Sessions, NEW a \in Answers, Finish(s, a),
             pc[s] \in {"run", "reconnect"}
      PROVE  CloserWaits'
  BY <1>9 DEF Finish, Answers
<1>10. ASSUME NEW s \in Sessions, StartAutoReconnect(s) PROVE CloserWaits'
  BY <1>10 DEF StartAutoReconnect
<1>11. ASSUME NEW s \in Sessions, AutoReconnected(s) PROVE CloserWaits'
  BY <1>11 DEF AutoReconnected, Begin
<1>12. ASSUME NEW s \in Sessions, AutoReconnectFails(s) PROVE CloserWaits'
  BY <1>12 DEF AutoReconnectFails
<1>13. ASSUME NEW s \in Sessions, EndTask(s) PROVE CloserWaits'
  BY <1>13 DEF EndTask
<1>14. ASSUME NEW s \in Sessions, Terminate(s) PROVE CloserWaits'
  BY <1>14 DEF Terminate
<1>15. ASSUME NEW s \in Sessions, LockAndClose(s) PROVE CloserWaits'
  BY <1>15 DEF LockAndClose
<1>16. ASSUME NEW s \in Sessions, FinishClose(s) PROVE CloserWaits'
  BY <1>16 DEF FinishClose
<1>17. ASSUME NEW s \in Sessions, StartReconnect(s) PROVE CloserWaits'
  BY <1>17 DEF StartReconnect
<1>18. ASSUME NEW s \in Sessions, TryReconnect(s) PROVE CloserWaits'
  BY <1>18 DEF TryReconnect
<1>19. ASSUME NEW s \in Sessions, LockForKill(s) PROVE CloserWaits'
  BY <1>19 DEF LockForKill
<1>20. ASSUME NEW s \in Sessions, FlagKill(s) PROVE CloserWaits'
  BY <1>20, SMTT(30) DEF FlagKill
<1>21. ASSUME NEW s \in Sessions, RunKill(s) PROVE CloserWaits'
  BY <1>21, SMTT(30) DEF RunKill
<1>22. ASSUME NEW s \in Sessions, FailKill(s) PROVE CloserWaits'
  BY <1>22 DEF FailKill
<1>23. ASSUME NEW s \in Sessions, CallClose(s) PROVE CloserWaits'
  BY <1>23 DEF CallClose
<1>24. ASSUME NEW s \in Sessions, CallReconnect(s) PROVE CloserWaits'
  BY <1>24 DEF CallReconnect
<1>25. ASSUME NEW s \in Sessions, LoseConnection(s) PROVE CloserWaits'
  BY <1>25 DEF LoseConnection
<1>26. ASSUME NEW s \in Sessions, NEW r \in Requests, Execute(r, s) PROVE CloserWaits'
  BY <1>26 DEF Execute
<1>27. ASSUME NEW r \in Requests, Cancel(r) PROVE CloserWaits'
  BY <1>27 DEF Cancel
<1>28. ASSUME NEW p \in Plugins, NEW s \in Sessions, CallPlugin(p, s) PROVE CloserWaits'
  BY <1>28 DEF CallPlugin
<1>29. ASSUME NEW p \in Plugins, EnterPlugin(p) PROVE CloserWaits'
  BY <1>29 DEF EnterPlugin
<1>30. ASSUME NEW p \in Plugins, LeavePlugin(p) PROVE CloserWaits'
  BY <1>30 DEF LeavePlugin
<1>31. ASSUME NEW s \in Sessions, NEW u \in Sessions, CallKill(s, u) PROVE CloserWaits'
  BY <1>31, SMTT(30) DEF CallKill
<1>32. CASE UNCHANGED vars
  BY <1>32
<1>33. ASSUME NEW s \in Sessions, Open(s) PROVE CloserWaits'
  BY <1>33 DEF Open
<1>34. ASSUME NEW s \in Sessions, AskAgain(s) PROVE CloserWaits'
  BY <1>34 DEF AskAgain
<1>35. ASSUME NEW s \in Sessions, ReplaceDenied(s) PROVE CloserWaits'
  BY <1>35 DEF ReplaceDenied
<1>36. ASSUME NEW s \in Sessions, ForgetReconnected(s) PROVE CloserWaits'
  BY <1>36 DEF ForgetReconnected
<1> QED
  BY <1>1, <1>2, <1>3, <1>4, <1>5, <1>6, <1>7, <1>8, <1>9, <1>10, <1>11,
     <1>12, <1>13, <1>14, <1>15, <1>16, <1>17, <1>18, <1>19, <1>20, <1>21,
     <1>22, <1>23, <1>24, <1>25, <1>26, <1>27, <1>28, <1>29, <1>30, <1>31,
     <1>32, <1>33, <1>34, <1>35, <1>36
     DEF Next, Worker, Closer, Reconnector, Plugin, Killer, SkipTask,
         TaskResult, GiveUpReconnect, Answers

\* No step makes an old kill visible to a new task.
LEMMA KillNext ==
  TypeOK /\ KillNoticed /\ [Next]_vars => KillNoticed'
<1> SUFFICES ASSUME TypeOK /\ KillNoticed, [Next]_vars PROVE KillNoticed'
  OBVIOUS
<1> USE PluginAssumption, TaskAssumption
<1> USE DEF TypeOK, KillNoticed, Executing, vars, workerVars, taskVars, locks,
            sessionVars, closeVars, reconnectVars, pluginVars, killVars,
            callerVars, clientVars, killState
<1>1. ASSUME NEW s \in Sessions, Connect(s) PROVE KillNoticed'
  BY <1>1 DEF Connect
<1>2. ASSUME NEW s \in Sessions, FailToConnect(s) PROVE KillNoticed'
  BY <1>2 DEF FailToConnect
<1>3. ASSUME NEW s \in Sessions, ForgetFailed(s) PROVE KillNoticed'
  BY <1>3 DEF ForgetFailed
<1>4. ASSUME NEW s \in Sessions, GetTask(s) PROVE KillNoticed'
  <2>1. Head(queue[s]) \in Requests \cup {CloseTask}
    BY <1>4, HeadTailProperties DEF GetTask
  <2> QED
    BY <1>4, <2>1 DEF GetTask
<1>5. ASSUME NEW s \in Sessions, TakeClose(s) PROVE KillNoticed'
  BY <1>5 DEF TakeClose
<1>6. ASSUME NEW s \in Sessions, TakeTask(s) PROVE KillNoticed'
  BY <1>6, SMTT(30) DEF TakeTask, Target
<1>7. ASSUME NEW s \in Sessions, LockForTask(s) PROVE KillNoticed'
  BY <1>7, SMTT(30) DEF LockForTask, Begin
<1>8. ASSUME NEW s \in Sessions, LockTimesOut(s) PROVE KillNoticed'
  BY <1>8, SMTT(30) DEF LockTimesOut, Begin
<1>9. ASSUME NEW s \in Sessions, NEW a \in Answers, Finish(s, a),
             pc[s] \in {"run", "reconnect"}
      PROVE  KillNoticed'
  BY <1>9, SMTT(30) DEF Finish, Answers
<1>10. ASSUME NEW s \in Sessions, StartAutoReconnect(s) PROVE KillNoticed'
  BY <1>10 DEF StartAutoReconnect
<1>11. ASSUME NEW s \in Sessions, AutoReconnected(s) PROVE KillNoticed'
  BY <1>11, SMTT(30) DEF AutoReconnected, Begin
<1>12. ASSUME NEW s \in Sessions, AutoReconnectFails(s) PROVE KillNoticed'
  BY <1>12 DEF AutoReconnectFails
<1>13. ASSUME NEW s \in Sessions, EndTask(s) PROVE KillNoticed'
  BY <1>13 DEF EndTask
<1>14. ASSUME NEW s \in Sessions, Terminate(s) PROVE KillNoticed'
  BY <1>14 DEF Terminate
<1>15. ASSUME NEW s \in Sessions, LockAndClose(s) PROVE KillNoticed'
  BY <1>15 DEF LockAndClose
<1>16. ASSUME NEW s \in Sessions, FinishClose(s) PROVE KillNoticed'
  BY <1>16 DEF FinishClose
<1>17. ASSUME NEW s \in Sessions, StartReconnect(s) PROVE KillNoticed'
  BY <1>17 DEF StartReconnect
<1>18. ASSUME NEW s \in Sessions, TryReconnect(s) PROVE KillNoticed'
  BY <1>18 DEF TryReconnect
<1>19. ASSUME NEW s \in Sessions, LockForKill(s) PROVE KillNoticed'
  BY <1>19 DEF LockForKill
<1>20. ASSUME NEW s \in Sessions, FlagKill(s) PROVE KillNoticed'
  BY <1>20 DEF FlagKill
<1>21. ASSUME NEW s \in Sessions, RunKill(s) PROVE KillNoticed'
  <2> DEFINE u == victim[s]
             hit == pc[u] = "run" /\ ~skip[u] /\ conn[u] = "up"
  <2>1. /\ UNCHANGED <<pc, task, killed, hunted, victim>>
        /\ killer' = [killer EXCEPT ![s] = "idle"] /\ killer[s] = "kill"
        /\ interrupted' = [interrupted EXCEPT ![u] = @ \/ hit]
    BY <1>21 DEF RunKill
  <2>2. hit => task[u] \in hunted /\ pc[u] = "run"
    BY <2>1
  <2>3. \A v \in Sessions : interrupted'[v] => interrupted[v] \/ (v = u /\ hit)
    BY <2>1
  <2>4. \A v \in Sessions : killer'[v] # "idle" => killer[v] # "idle"
    BY <2>1
  <2>5. ASSUME NEW w \in Sessions, NEW v \in Sessions,
               Executing(w)', killer'[v] # "idle", victim'[v] = w
        PROVE  task'[w] \in hunted'
    BY <2>1, <2>4, <2>5
  <2>6. ASSUME NEW w \in Sessions
        PROVE  interrupted'[w] => task'[w] \in hunted' /\ pc'[w] \in {"run", "reconnect"}
    BY <2>1, <2>2, <2>3
  <2>7. ASSUME NEW w \in Sessions
        PROVE  /\ Executing(w)' /\ killed'[w] => task'[w] \in hunted'
               /\ Executing(w)' => task'[w] \in Requests
               /\ pc'[w] = "take" => task'[w] # NoTask
    BY <2>1
  <2> HIDE DEF u, hit
  <2> QED
    BY <2>5, <2>6, <2>7
<1>22. ASSUME NEW s \in Sessions, FailKill(s) PROVE KillNoticed'
  BY <1>22 DEF FailKill
<1>23. ASSUME NEW s \in Sessions, CallClose(s) PROVE KillNoticed'
  BY <1>23 DEF CallClose
<1>24. ASSUME NEW s \in Sessions, CallReconnect(s) PROVE KillNoticed'
  BY <1>24 DEF CallReconnect
<1>25. ASSUME NEW s \in Sessions, LoseConnection(s) PROVE KillNoticed'
  BY <1>25 DEF LoseConnection
<1>26. ASSUME NEW s \in Sessions, NEW r \in Requests, Execute(r, s) PROVE KillNoticed'
  BY <1>26 DEF Execute
<1>27. ASSUME NEW r \in Requests, Cancel(r) PROVE KillNoticed'
  BY <1>27 DEF Cancel
<1>28. ASSUME NEW p \in Plugins, NEW s \in Sessions, CallPlugin(p, s) PROVE KillNoticed'
  BY <1>28 DEF CallPlugin
<1>29. ASSUME NEW p \in Plugins, EnterPlugin(p) PROVE KillNoticed'
  BY <1>29 DEF EnterPlugin
<1>30. ASSUME NEW p \in Plugins, LeavePlugin(p) PROVE KillNoticed'
  BY <1>30 DEF LeavePlugin
<1>31. ASSUME NEW s \in Sessions, NEW u \in Sessions, CallKill(s, u) PROVE KillNoticed'
  <2>1. /\ UNCHANGED <<pc, task, killed, interrupted>>
        /\ killer' = [killer EXCEPT ![s] = "lock"]
        /\ victim' = [victim EXCEPT ![s] = u]
        /\ hunted \subseteq hunted'
        /\ Executing(u) => task[u] \in hunted'
    BY <1>31 DEF CallKill
  <2>2. \A v \in Sessions : v # s => killer'[v] = killer[v] /\ victim'[v] = victim[v]
    BY <2>1
  <2>3. victim'[s] = u
    BY <2>1
  <2>4. ASSUME NEW w \in Sessions, NEW v \in Sessions,
               Executing(w)', killer'[v] # "idle", victim'[v] = w
        PROVE  task'[w] \in hunted'
    <3>1. CASE v = s
      BY <2>1, <2>3, <2>4, <3>1
    <3>2. CASE v # s
      BY <2>1, <2>2, <2>4, <3>2
    <3> QED
      BY <3>1, <3>2
  <2>5. ASSUME NEW w \in Sessions
        PROVE  /\ Executing(w)' /\ killed'[w] => task'[w] \in hunted'
               /\ interrupted'[w] => task'[w] \in hunted' /\ pc'[w] \in {"run", "reconnect"}
               /\ Executing(w)' => task'[w] \in Requests
               /\ pc'[w] = "take" => task'[w] # NoTask
    BY <2>1
  <2> QED
    BY <2>4, <2>5
<1>32. CASE UNCHANGED vars
  BY <1>32
<1>33. ASSUME NEW s \in Sessions, Open(s) PROVE KillNoticed'
  BY <1>33 DEF Open
<1>34. ASSUME NEW s \in Sessions, AskAgain(s) PROVE KillNoticed'
  BY <1>34 DEF AskAgain
<1>35. ASSUME NEW s \in Sessions, ReplaceDenied(s) PROVE KillNoticed'
  BY <1>35 DEF ReplaceDenied
<1>36. ASSUME NEW s \in Sessions, ForgetReconnected(s) PROVE KillNoticed'
  BY <1>36 DEF ForgetReconnected
<1> QED
  BY <1>1, <1>2, <1>3, <1>4, <1>5, <1>6, <1>7, <1>8, <1>9, <1>10, <1>11,
     <1>12, <1>13, <1>14, <1>15, <1>16, <1>17, <1>18, <1>19, <1>20, <1>21,
     <1>22, <1>23, <1>24, <1>25, <1>26, <1>27, <1>28, <1>29, <1>30, <1>31,
     <1>32, <1>33, <1>34, <1>35, <1>36
     DEF Next, Worker, Closer, Reconnector, Plugin, Killer, SkipTask,
         TaskResult, GiveUpReconnect, Answers

-----------------------------------------------------------------------------
LEMMA InvInit == Init => SessionInv
<1> SUFFICES ASSUME Init PROVE SessionInv
  OBVIOUS
<1>1. TypeOK
  BY TypeInit
<1>2. InsideOwns /\ TaskMutexOwned
  BY DEF Init, InsideOwns, TaskMutexOwned, Executing
<1>3. CloserWaits /\ KillNoticed
  BY TaskAssumption DEF Init, CloserWaits, KillNoticed, Executing, Tasks
<1> QED
  BY <1>1, <1>2, <1>3 DEF SessionInv

\* The inductive invariant of the sessions: who owns which mutex, who waits for
\* a close, and which kill a task may still notice.
THEOREM Invariance == SafeSpec => []SessionInv
<1>1. SessionInv /\ [Next]_vars => SessionInv'
  BY TypeNext, InsideNext, TaskMutexNext, CloserNext, KillNext DEF SessionInv
<1> QED
  BY <1>1, InvInit, PTL DEF SafeSpec

\* Two threads that acquired _mutex are never inside a session together, however
\* many lock_usage blocks were left on a timeout.
THEOREM LockExclusion == SafeSpec => []LockedUseIsExclusive
<1>1. SessionInv => LockedUseIsExclusive
  BY PluginAssumption
     DEF SessionInv, InsideOwns, LockedUseIsExclusive, Inside, Holders
<1> QED
  BY <1>1, Invariance, PTL

\* A reconnect a user asked for never overlaps a task or the end of the thread.
THEOREM ReconnectBetweenTasks == SafeSpec => []ReconnectExclusive
<1>1. SessionInv => ReconnectExclusive
  BY DEF SessionInv, TaskMutexOwned, ReconnectExclusive
<1> QED
  BY <1>1, Invariance, PTL

\* The connection is closed for good under the lock of the closing thread, with
\* no plugin inside.
THEOREM TeardownUnderLock == SafeSpec => []TeardownAlone
<1>1. SessionInv => TeardownAlone
  <2> SUFFICES ASSUME SessionInv, NEW s \in Sessions, pc[s] = "term"
               PROVE  /\ closer[s] = "wait"
                      /\ \A p \in Plugins : ~Inside(p, s)
    BY DEF TeardownAlone
  <2>1. closer[s] = "wait"
    BY DEF SessionInv, CloserWaits
  <2>2. mutex[s] = "closer"
    BY <2>1 DEF SessionInv, InsideOwns
  <2> QED
    BY <2>1, <2>2, PluginAssumption DEF SessionInv, InsideOwns, Inside
<1> QED
  BY <1>1, Invariance, PTL

\* A request is answered as killed only if a kill aimed at its session overlapped
\* its execution, however many kills, statements and reconnects there are.
THEOREM KillOverlapsItsTarget == SafeSpec => KilledOnlyIfHunted
<1> DEFINE Hit == \A r \in Requests :
                    answer[r] = "queued" /\ answer'[r] = "killed" => r \in hunted
<1>1. SessionInv /\ [Next]_vars => [Hit]_vars
  <2> SUFFICES ASSUME SessionInv, [Next]_vars, NEW r \in Requests,
                      answer[r] = "queued", answer'[r] = "killed"
               PROVE  r \in hunted
    OBVIOUS
  <2>1. ASSUME NEW s \in Sessions, NEW a \in Answers, Finish(s, a)
        PROVE  task[s] = r /\ a = "killed"
    BY <2>1 DEF Finish, SessionInv, TypeOK
  <2>2. ASSUME NEW s \in Sessions, TaskResult(s)
        PROVE  r \in hunted
    <3>1. task[s] = r /\ (killed[s] \/ interrupted[s])
      BY <2>1, <2>2 DEF TaskResult, Answers
    <3> QED
      BY <2>2, <3>1 DEF TaskResult, SessionInv, KillNoticed, Executing
  <2>3. ASSUME NEW s \in Sessions, SkipTask(s) \/ GiveUpReconnect(s)
        PROVE  FALSE
    BY <2>1, <2>3 DEF SkipTask, GiveUpReconnect, Answers
  <2>4. \/ UNCHANGED answer
        \/ \E q \in Requests, s \in Sessions : Execute(q, s)
        \/ \E s \in Sessions : \/ SkipTask(s) \/ TaskResult(s) \/ GiveUpReconnect(s)
    <3> USE DEF vars, callerVars, clientVars
    <3>1. ASSUME NEW s \in Sessions, Worker(s)
          PROVE  \/ UNCHANGED answer
                 \/ SkipTask(s) \/ TaskResult(s) \/ GiveUpReconnect(s)
      BY <3>1 DEF Worker, Connect, FailToConnect, ForgetFailed, AskAgain,
         GetTask, Begin, TakeClose, TakeTask, LockForTask, LockTimesOut, StartAutoReconnect,
         AutoReconnected, AutoReconnectFails, EndTask, Terminate
    <3>2. ASSUME NEW s \in Sessions,
                 \/ Closer(s) \/ Reconnector(s) \/ CallClose(s)
                 \/ CallReconnect(s) \/ LoseConnection(s) \/ Open(s) \/ ReplaceDenied(s)
          PROVE  UNCHANGED answer
      BY <3>2 DEF Closer, LockAndClose, FinishClose, Reconnector,
         StartReconnect, TryReconnect, ForgetReconnected, CallClose,
         CallReconnect, LoseConnection, Open, ReplaceDenied
    <3>3. ASSUME NEW s \in Sessions, NEW u \in Sessions,
                 Killer(s) \/ CallKill(s, u)
          PROVE  UNCHANGED answer
      BY <3>3 DEF Killer, LockForKill, FlagKill, RunKill, FailKill, CallKill
    <3>4. ASSUME NEW p \in Plugins, Plugin(p) \/ \E s \in Sessions : CallPlugin(p, s)
          PROVE  UNCHANGED answer
      BY <3>4 DEF CallPlugin, Plugin, EnterPlugin, LeavePlugin
    <3>5. ASSUME NEW q \in Requests, Cancel(q) PROVE UNCHANGED answer
      BY <3>5 DEF Cancel
    <3> QED
      BY <3>1, <3>2, <3>3, <3>4, <3>5 DEF Next
  <2>5. ASSUME NEW q \in Requests, NEW s \in Sessions, Execute(q, s)
        PROVE  FALSE
    BY <2>5 DEF Execute, SessionInv, TypeOK
  <2> QED
    BY <2>2, <2>3, <2>4, <2>5
<1> QED
  BY <1>1, Invariance, PTL DEF SafeSpec, KilledOnlyIfHunted
=============================================================================
