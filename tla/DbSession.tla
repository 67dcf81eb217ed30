----------------------------- MODULE DbSession ------------------------------
(* The database sessions of the web backend:                                 *)
(* gui/backend/gui_plugin/core/dbms/DbSession.py with the MySQL and SQLite   *)
(* sessions derived from it, and the threads of the backend that use them.   *)
(*                                                                           *)
(* Each session is a thread (run) that takes tasks from a FIFO queue and     *)
(* runs them one after the other.  Request handlers call into the session    *)
(* from threads of their own: they enqueue statements, cancel and kill them, *)
(* reconnect, close, and let plugins use the underlying shell session.  The  *)
(* calls meet on two mutexes: _task_mutex (task execution against a          *)
(* reconnect) and _mutex (use of the shell session).  _mutex is taken with   *)
(* lock_usage, which gives up after five seconds and goes on without it.     *)
EXTENDS Naturals, Sequences, FiniteSets

CONSTANTS
  Sessions,        \* database sessions
  Sqlite,          \* those of them that are SQLite sessions
  Requests,        \* statements, by request id
  Plugins,         \* request handlers that run a function of a non-GUI plugin
  SingleServer,    \* the backend serves a single server (_single_server_mode)
  KillPairs,       \* <<service session, user session>>: who may kill whose query
  CloseTask,       \* the DBCloseTask
  NoTask,
  MaxOpen,         \* bound: sessions opened
  MaxLosses,       \* bound: connection losses per session
  MaxReconnects    \* bound: reconnects a user asks for, per session

VARIABLES
  \* the session thread
  pc,              \* where run() is
  task,            \* the task it took from the queue
  skip,            \* task.cancelled
  locked,          \* what lock_usage(_mutex, 5) returned to it
  tries,           \* failed attempts of the automatic reconnection
  \* attributes of the session
  queue,           \* _request_queue
  taskMutex,       \* owner of _task_mutex
  mutex,           \* owner of _mutex
  conn,            \* the shell session: never opened, up, or lost
  killed,          \* _killed
  cancelRequests,  \* _cancel_requests, one list for all sessions
  \* the threads that call in
  closer,          \* DbModuleSession.close_connection
  forgot,          \* the module session's reference to the session is None
  reconnector,     \* DbModuleSession.reconnect
  userTries,       \* failed attempts of the reconnect a user asked for
  pluginPc,        \* RequestHandler._do_execute with lock_session
  pluginOn,        \* the session it works on
  killer,          \* kill_query, per service session
  killLocked,      \* what lock_usage(_mutex, 5) returned to it
  victim,          \* the user session it kills
  \* the client's view, and the environment
  answer,          \* the final answer of a request
  interrupted,     \* the server aborts the statement of the session
  losses,          \* connection losses so far
  reconnects,      \* user reconnects so far
  \* history
  behind,          \* requests enqueued behind a DBCloseTask
  executed,        \* how often the statement of a request was executed
  hunted           \* requests whose session a kill was aimed at while it had them

taskVars == <<task, skip, locked, tries>>
workerVars == <<pc, taskVars>>
locks == <<taskMutex, mutex>>
sessionVars == <<queue, locks, conn>>
closeVars == <<closer, forgot>>
reconnectVars == <<reconnector, userTries, reconnects>>
pluginVars == <<pluginPc, pluginOn>>
killVars == <<killer, killLocked, victim>>
callerVars == <<closeVars, reconnectVars, pluginVars, killVars, losses>>
clientVars == <<answer, cancelRequests, behind, executed>>
killState == <<killed, interrupted, hunted>>

vars == <<workerVars, sessionVars, callerVars, clientVars, killState>>

Attempts == 3

Holders == {"worker", "closer", "killer"} \cup Plugins

ASSUME SessionsAssumption == Sessions # {} /\ Sqlite \subseteq Sessions
ASSUME KillAssumption ==
  /\ KillPairs \subseteq (Sessions \ Sqlite) \X (Sessions \ Sqlite)
  /\ \A p \in KillPairs : p[1] # p[2]
ASSUME TaskAssumption ==
  /\ CloseTask \notin Requests /\ NoTask \notin Requests /\ CloseTask # NoTask
ASSUME PluginAssumption ==
  Plugins \cap {"worker", "closer", "killer", "free"} = {}
ASSUME BoundAssumption ==
  /\ SingleServer \in BOOLEAN
  /\ MaxOpen \in Nat /\ MaxLosses \in Nat /\ MaxReconnects \in Nat

Tasks(s) == {queue[s][i] : i \in DOMAIN queue[s]}

WorkerPcs == {"none", "init", "failed", "get", "take", "lock", "run", "reconnect",
              "unlock", "term", "dead"}

Answers == {"new", "queued", "ok", "error", "killed", "cancelled"}

\* The session thread executes a task: from the moment it holds _task_mutex for
\* it to the moment it releases it.
Executing(s) == pc[s] \in {"lock", "run", "reconnect", "unlock"}

TypeOK ==
  /\ pc \in [Sessions -> WorkerPcs]
  /\ task \in [Sessions -> Requests \cup {CloseTask, NoTask}]
  /\ skip \in [Sessions -> BOOLEAN]
  /\ locked \in [Sessions -> BOOLEAN]
  /\ tries \in [Sessions -> 0 .. 2 * Attempts]
  /\ queue \in [Sessions -> Seq(Requests \cup {CloseTask})]
  /\ taskMutex \in [Sessions -> {"free", "worker", "reconnector"}]
  /\ mutex \in [Sessions -> Holders \cup {"free"}]
  /\ conn \in [Sessions -> {"none", "up", "lost"}]
  /\ killed \in [Sessions -> BOOLEAN]
  /\ cancelRequests \subseteq Requests
  /\ closer \in [Sessions -> {"idle", "lock", "wait", "done"}]
  /\ forgot \in [Sessions -> BOOLEAN]
  /\ reconnector \in [Sessions -> {"idle", "wait", "run", "fail"}]
  /\ userTries \in [Sessions -> 0 .. Attempts]
  /\ pluginPc \in [Plugins -> {"idle", "lock", "use", "done"}]
  /\ pluginOn \in [Plugins -> Sessions]
  /\ killer \in [Sessions -> {"idle", "lock", "flag", "kill"}]
  /\ killLocked \in [Sessions -> BOOLEAN]
  /\ victim \in [Sessions -> Sessions]
  /\ answer \in [Requests -> Answers]
  /\ interrupted \in [Sessions -> BOOLEAN]
  /\ losses \in [Sessions -> 0 .. MaxLosses]
  /\ reconnects \in [Sessions -> 0 .. MaxReconnects]
  /\ behind \subseteq Requests
  /\ executed \in [Requests -> Nat]
  /\ hunted \subseteq Requests \cup {CloseTask, NoTask}

Init ==
  /\ pc = [s \in Sessions |-> "none"]
  /\ task = [s \in Sessions |-> NoTask]
  /\ skip = [s \in Sessions |-> FALSE]
  /\ locked = [s \in Sessions |-> FALSE]
  /\ tries = [s \in Sessions |-> 0]
  /\ queue = [s \in Sessions |-> <<>>]
  /\ taskMutex = [s \in Sessions |-> "free"]
  /\ mutex = [s \in Sessions |-> "free"]
  /\ conn = [s \in Sessions |-> "none"]
  /\ killed = [s \in Sessions |-> FALSE]
  /\ cancelRequests = {}
  /\ closer = [s \in Sessions |-> "idle"]
  /\ forgot = [s \in Sessions |-> FALSE]
  /\ reconnector = [s \in Sessions |-> "idle"]
  /\ userTries = [s \in Sessions |-> 0]
  /\ pluginPc = [p \in Plugins |-> "idle"]
  /\ pluginOn = [p \in Plugins |-> CHOOSE s \in Sessions : TRUE]
  /\ killer = [s \in Sessions |-> "idle"]
  /\ killLocked = [s \in Sessions |-> FALSE]
  /\ victim = [s \in Sessions |-> s]
  /\ answer = [r \in Requests |-> "new"]
  /\ interrupted = [s \in Sessions |-> FALSE]
  /\ losses = [s \in Sessions |-> 0]
  /\ reconnects = [s \in Sessions |-> 0]
  /\ behind = {}
  /\ executed = [r \in Requests |-> 0]
  /\ hunted = {}

-----------------------------------------------------------------------------
(* The session thread *)

\* DbModuleSession.connect creates a session, whose thread starts.
Open(s) ==
  /\ pc[s] = "none"
  /\ Cardinality({u \in Sessions : pc[u] # "none"}) < MaxOpen
  /\ pc' = [pc EXCEPT ![s] = "init"]
  /\ UNCHANGED <<callerVars, sessionVars, clientVars, killState, taskVars>>

\* open_session succeeds.
Connect(s) ==
  /\ pc[s] = "init"
  /\ pc' = [pc EXCEPT ![s] = "get"]
  /\ conn' = [conn EXCEPT ![s] = "up"]
  /\ UNCHANGED <<queue, callerVars, clientVars, killState, taskVars, locks>>

\* open_session fails; failed_cb is called on the session thread.
FailToConnect(s) ==
  /\ pc[s] = "init"
  /\ pc' = [pc EXCEPT ![s] = "failed"]
  /\ UNCHANGED <<callerVars, sessionVars, clientVars, killState, taskVars>>

\* on_fail_connecting: close_connection(True) takes and releases _mutex, closes
\* nothing, and forgets the session.  No thread_error is set, so that the
\* session thread enters its loop all the same.
ForgetFailed(s) ==
  /\ pc[s] = "failed"
  /\ mutex[s] = "free" \/ forgot[s]
  /\ pc' = [pc EXCEPT ![s] = "get"]
  /\ forgot' = [forgot EXCEPT ![s] = TRUE]
  /\ UNCHANGED <<closer, losses, sessionVars, clientVars, killState,
                 reconnectVars, pluginVars, killVars, taskVars>>

\* on_fail_connecting in the mode for a single server: the server denied the
\* access, and the caller is to connect again (_connect_again).  The session is
\* not forgotten yet, and its thread enters its loop.
AskAgain(s) ==
  /\ pc[s] = "failed" /\ SingleServer /\ s \notin Sqlite
  /\ pc' = [pc EXCEPT ![s] = "get"]
  /\ UNCHANGED <<callerVars, sessionVars, clientVars, killState, taskVars>>

\* task = self._request_queue.get()
GetTask(s) ==
  /\ pc[s] = "get" /\ queue[s] # <<>>
  /\ task' = [task EXCEPT ![s] = Head(queue[s])]
  /\ queue' = [queue EXCEPT ![s] = Tail(queue[s])]
  /\ pc' = [pc EXCEPT ![s] = "take"]
  /\ UNCHANGED <<skip, locked, tries, conn, callerVars, clientVars, killState,
                 locks>>

\* Mutant: the close task is recognised before _task_mutex is acquired.
TakeCloseUnlocked(s) ==
  /\ pc[s] = "take" /\ task[s] = CloseTask
  /\ pc' = [pc EXCEPT ![s] = "term"]
  /\ UNCHANGED <<queue, locks, conn, callerVars, clientVars, killState,
                 taskVars>>

\* The DBCloseTask ends the loop with _task_mutex held; it is never released.
TakeClose(s) ==
  /\ pc[s] = "take" /\ task[s] = CloseTask
  /\ taskMutex[s] = "free"
  /\ taskMutex' = [taskMutex EXCEPT ![s] = "worker"]
  /\ pc' = [pc EXCEPT ![s] = "term"]
  /\ UNCHANGED <<queue, mutex, conn, callerVars, clientVars, killState,
                 taskVars>>

\* The current task of s, when a kill is aimed at s.
Target(s) == IF \E v \in Sessions : killer[v] # "idle" /\ victim[v] = s
             THEN {task[s]} ELSE {}

\* Mutant: the cancellation of a waiting task is not consulted.
TakeTaskUnasked(s) ==
  /\ pc[s] = "take" /\ task[s] # CloseTask
  /\ taskMutex[s] = "free"
  /\ taskMutex' = [taskMutex EXCEPT ![s] = "worker"]
  /\ killed' = [killed EXCEPT ![s] = FALSE]
  /\ hunted' = hunted \cup Target(s)
  /\ pc' = [pc EXCEPT ![s] = "lock"]
  /\ UNCHANGED <<taskVars, queue, mutex, conn, clientVars, interrupted,
                 callerVars>>

\* Mutant: the killed flag of the previous task is not reset.
TakeTaskKeepsKilled(s) ==
  /\ pc[s] = "take" /\ task[s] # CloseTask
  /\ taskMutex[s] = "free"
  /\ taskMutex' = [taskMutex EXCEPT ![s] = "worker"]
  /\ skip' = [skip EXCEPT ![s] = task[s] \in cancelRequests]
  /\ cancelRequests' = cancelRequests \ {task[s]}
  /\ hunted' = hunted \cup Target(s)
  /\ pc' = [pc EXCEPT ![s] = "lock"]
  /\ UNCHANGED <<task, locked, tries, queue, mutex, conn, answer, interrupted,
                 killed, behind, executed, callerVars>>

\* Takes _task_mutex, consumes a pending cancellation of the task and resets
\* the killed flag.
TakeTask(s) ==
  /\ pc[s] = "take" /\ task[s] # CloseTask
  /\ taskMutex[s] = "free"
  /\ taskMutex' = [taskMutex EXCEPT ![s] = "worker"]
  /\ skip' = [skip EXCEPT ![s] = task[s] \in cancelRequests]
  /\ cancelRequests' = cancelRequests \ {task[s]}
  /\ killed' = [killed EXCEPT ![s] = FALSE]
  /\ hunted' = hunted \cup Target(s)
  /\ pc' = [pc EXCEPT ![s] = "lock"]
  /\ UNCHANGED <<task, locked, tries, queue, mutex, conn, answer, interrupted,
                 behind, executed, callerVars>>

\* task.execute() gives the statement to the shell session, unless the task was
\* cancelled.
Begin(s) ==
  /\ pc' = [pc EXCEPT ![s] = "run"]
  /\ executed' = [executed EXCEPT ![task[s]] = IF skip[s] THEN @ ELSE @ + 1]
  /\ UNCHANGED <<answer, cancelRequests, behind>>

LockForTask(s) ==
  /\ pc[s] = "lock" /\ mutex[s] = "free"
  /\ Begin(s)
  /\ mutex' = [mutex EXCEPT ![s] = "worker"]
  /\ locked' = [locked EXCEPT ![s] = TRUE]
  /\ UNCHANGED <<task, skip, tries, queue, taskMutex, conn, callerVars,
                 killState>>

\* Mutant: lock_usage without its timeout.
LockNeverTimesOut(s) == FALSE

\* lock_usage gives up after five seconds: acquire returns False, not None,
\* so that nothing is raised and the task runs without the mutex.
LockTimesOut(s) ==
  /\ pc[s] = "lock" /\ mutex[s] # "free"
  /\ Begin(s)
  /\ UNCHANGED <<callerVars, sessionVars, killState, taskVars>>

\* The task ends: its result a is dispatched and the locked block is left.
Finish(s, a) ==
  /\ answer' = [answer EXCEPT ![task[s]] = a]
  /\ interrupted' = [interrupted EXCEPT ![s] = FALSE]
  /\ skip' = [skip EXCEPT ![s] = FALSE]
  /\ tries' = [tries EXCEPT ![s] = 0]
  /\ pc' = [pc EXCEPT ![s] = "unlock"]
  /\ UNCHANGED <<task, locked, killed, cancelRequests, behind, executed,
                 hunted, callerVars, sessionVars>>

SkipTask(s) == pc[s] = "run" /\ skip[s] /\ Finish(s, "cancelled")

\* do_execute of a SQLite session locks the session again, without a timeout.
\* The mutex is reentrant.  The statement and the fetching of its rows are one
\* step here.
MayExecute(s) == s \in Sqlite => locked[s] \/ mutex[s] = "free"

\* A kill is noticed between two rows, or the server aborts the statement; a
\* statement without rows, or past its last one, succeeds all the same.
TaskResult(s) ==
  /\ pc[s] = "run" /\ ~skip[s]
  /\ MayExecute(s)
  /\ \/ conn[s] = "up" /\ Finish(s, "ok")
     \/ conn[s] = "up" /\ (killed[s] \/ interrupted[s]) /\ Finish(s, "killed")
     \/ Finish(s, "error")

\* Server lost, or "Not connected.": the automatic reconnection of do_execute.
StartAutoReconnect(s) ==
  /\ pc[s] = "run" /\ ~skip[s]
  /\ conn[s] = "lost" /\ s \notin Sqlite
  /\ pc' = [pc EXCEPT ![s] = "reconnect"]
  /\ UNCHANGED <<callerVars, sessionVars, clientVars, killState, taskVars>>

\* A successful attempt: the statement is executed again.
AutoReconnected(s) ==
  /\ pc[s] = "reconnect"
  /\ Begin(s)
  /\ conn' = [conn EXCEPT ![s] = "up"]
  /\ tries' = [tries EXCEPT ![s] = 0]
  /\ UNCHANGED <<task, skip, locked, queue, callerVars, killState, locks>>

\* A failed attempt.  do_execute gives up after three, and the task reconnects
\* once more with another three when the error is the loss of the server.
AutoReconnectFails(s) ==
  /\ pc[s] = "reconnect" /\ tries[s] < 2 * Attempts
  /\ tries' = [tries EXCEPT ![s] = @ + 1]
  /\ UNCHANGED <<pc, task, skip, locked, callerVars, sessionVars, clientVars,
                 killState>>

GiveUpReconnect(s) ==
  /\ pc[s] = "reconnect" /\ tries[s] \in {Attempts, 2 * Attempts}
  /\ Finish(s, "error")

\* Mutant: lock_usage releases what it did not acquire.
EndTaskReleasesAnyway(s) ==
  /\ pc[s] = "unlock"
  /\ mutex' = [mutex EXCEPT ![s] = "free"]
  /\ locked' = [locked EXCEPT ![s] = FALSE]
  /\ taskMutex' = [taskMutex EXCEPT ![s] = "free"]
  /\ task' = [task EXCEPT ![s] = NoTask]
  /\ pc' = [pc EXCEPT ![s] = "get"]
  /\ UNCHANGED <<skip, tries, queue, conn, callerVars, clientVars, killState>>

\* Mutant: a task that ends with an error skips the release of _task_mutex.
EndTaskKeepsTaskMutex(s) ==
  /\ pc[s] = "unlock"
  /\ mutex' = [mutex EXCEPT ![s] = IF locked[s] THEN "free" ELSE @]
  /\ locked' = [locked EXCEPT ![s] = FALSE]
  /\ taskMutex' = [taskMutex EXCEPT
                     ![s] = IF answer[task[s]] = "error" THEN @ ELSE "free"]
  /\ task' = [task EXCEPT ![s] = NoTask]
  /\ pc' = [pc EXCEPT ![s] = "get"]
  /\ UNCHANGED <<skip, tries, queue, conn, callerVars, clientVars, killState>>

\* The locked block is left, _mutex released if it was acquired, and
\* _task_mutex is released.
EndTask(s) ==
  /\ pc[s] = "unlock"
  /\ mutex' = [mutex EXCEPT ![s] = IF locked[s] THEN "free" ELSE @]
  /\ locked' = [locked EXCEPT ![s] = FALSE]
  /\ taskMutex' = [taskMutex EXCEPT ![s] = "free"]
  /\ task' = [task EXCEPT ![s] = NoTask]
  /\ pc' = [pc EXCEPT ![s] = "get"]
  /\ UNCHANGED <<skip, tries, queue, conn, callerVars, clientVars, killState>>

\* terminate_thread: closes the connection and sets _term_complete.
Terminate(s) ==
  /\ pc[s] = "term"
  /\ conn' = [conn EXCEPT ![s] = "lost"]
  /\ pc' = [pc EXCEPT ![s] = "dead"]
  /\ UNCHANGED <<queue, callerVars, clientVars, killState, taskVars, locks>>

Worker(s) ==
  \/ Connect(s) \/ FailToConnect(s) \/ ForgetFailed(s) \/ AskAgain(s)
  \/ GetTask(s) \/ TakeClose(s) \/ TakeTask(s)
  \/ LockForTask(s) \/ LockTimesOut(s)
  \/ SkipTask(s) \/ TaskResult(s)
  \/ StartAutoReconnect(s) \/ AutoReconnected(s) \/ AutoReconnectFails(s)
  \/ GiveUpReconnect(s) \/ EndTask(s) \/ Terminate(s)
-----------------------------------------------------------------------------
(* The threads that call into a session *)

\* execute: clears the killed flag and enqueues the statement.  The caller may
\* have resolved the session before it was closed.
Execute(r, s) ==
  /\ answer[r] = "new" /\ pc[s] # "none"
  /\ answer' = [answer EXCEPT ![r] = "queued"]
  /\ killed' = [killed EXCEPT ![s] = FALSE]
  /\ queue' = [queue EXCEPT ![s] = Append(@, r)]
  /\ behind' = IF CloseTask \in Tasks(s) \cup {task[s]}
               THEN behind \cup {r} ELSE behind
  /\ UNCHANGED <<conn, cancelRequests, executed, interrupted, hunted,
                 workerVars, callerVars, locks>>

\* cancel_request: remembers the request, whether it waits or runs.
Cancel(r) ==
  /\ answer[r] = "queued"
  /\ cancelRequests' = cancelRequests \cup {r}
  /\ UNCHANGED <<answer, behind, executed, workerVars, callerVars,
                 sessionVars, killState>>

\* close_connection: lock(), then close() and its wait for _term_complete, then
\* release() and the reference is dropped.
CallClose(s) ==
  /\ closer[s] = "idle" /\ ~forgot[s] /\ pc[s] # "none"
  /\ closer' = [closer EXCEPT ![s] = "lock"]
  /\ UNCHANGED <<forgot, losses, workerVars, sessionVars, clientVars,
                 killState, reconnectVars, pluginVars, killVars>>

\* Mutant: the close task overtakes the tasks that wait.
CloseFirst(s) ==
  /\ closer[s] = "lock" /\ mutex[s] = "free"
  /\ mutex' = [mutex EXCEPT ![s] = "closer"]
  /\ closer' = [closer EXCEPT ![s] = IF forgot[s] THEN "done" ELSE "wait"]
  /\ queue' = [queue EXCEPT ![s] = IF forgot[s] THEN @ ELSE <<CloseTask>> \o @]
  /\ UNCHANGED <<taskMutex, conn, forgot, losses, workerVars, clientVars,
                 killState, reconnectVars, pluginVars, killVars>>

LockAndClose(s) ==
  /\ closer[s] = "lock" /\ mutex[s] = "free"
  /\ mutex' = [mutex EXCEPT ![s] = "closer"]
  /\ closer' = [closer EXCEPT ![s] = IF forgot[s] THEN "done" ELSE "wait"]
  /\ queue' = [queue EXCEPT ![s] = IF forgot[s] THEN @ ELSE Append(@, CloseTask)]
  /\ UNCHANGED <<taskMutex, conn, forgot, losses, workerVars, clientVars,
                 killState, reconnectVars, pluginVars, killVars>>

\* Mutant: close does not wait for the session thread to end.
FinishCloseEarly(s) ==
  /\ closer[s] = "wait"
  /\ mutex' = [mutex EXCEPT ![s] = IF forgot[s] THEN @ ELSE "free"]
  /\ closer' = [closer EXCEPT ![s] = "done"]
  /\ forgot' = [forgot EXCEPT ![s] = TRUE]
  /\ UNCHANGED <<queue, taskMutex, conn, losses, workerVars, clientVars,
                 killState, reconnectVars, pluginVars, killVars>>

\* The lock is released on the session the reference names by then.
FinishClose(s) ==
  /\ closer[s] = "wait" /\ pc[s] = "dead"
  /\ mutex' = [mutex EXCEPT ![s] = IF forgot[s] THEN @ ELSE "free"]
  /\ closer' = [closer EXCEPT ![s] = "done"]
  /\ forgot' = [forgot EXCEPT ![s] = TRUE]
  /\ UNCHANGED <<queue, taskMutex, conn, losses, workerVars, clientVars,
                 killState, reconnectVars, pluginVars, killVars>>

\* open_connection connects again after _connect_again: a new session replaces
\* this one, which was never connected and which nobody closes.
ReplaceDenied(s) ==
  /\ pc[s] \notin {"none", "init", "failed"} /\ conn[s] = "none" /\ ~forgot[s]
  /\ forgot' = [forgot EXCEPT ![s] = TRUE]
  /\ UNCHANGED <<closer, losses, workerVars, sessionVars, clientVars,
                 killState, reconnectVars, pluginVars, killVars>>

\* reconnect: waits for _task_mutex, closes the connection and opens it again.
\* The client knows of the session once its connection was opened.
CallReconnect(s) ==
  /\ reconnector[s] = "idle" /\ ~forgot[s] /\ conn[s] # "none"
  /\ reconnects[s] < MaxReconnects
  /\ reconnector' = [reconnector EXCEPT ![s] = "wait"]
  /\ reconnects' = [reconnects EXCEPT ![s] = @ + 1]
  /\ UNCHANGED <<userTries, losses, workerVars, sessionVars, clientVars,
                 killState, closeVars, pluginVars, killVars>>

StartReconnect(s) ==
  /\ reconnector[s] = "wait" /\ taskMutex[s] = "free"
  /\ taskMutex' = [taskMutex EXCEPT ![s] = "reconnector"]
  /\ reconnector' = [reconnector EXCEPT ![s] = "run"]
  /\ conn' = [conn EXCEPT ![s] = "lost"]
  /\ userTries' = [userTries EXCEPT ![s] = 0]
  /\ UNCHANGED <<queue, mutex, reconnects, losses, workerVars, clientVars,
                 killState, closeVars, pluginVars, killVars>>

\* Mutant: a reconnect that fails for good does not release _task_mutex.
TryReconnectNoFinally(s) ==
  /\ reconnector[s] = "run" /\ userTries[s] < Attempts
  /\ \/ /\ conn' = [conn EXCEPT ![s] = "up"]
        /\ reconnector' = [reconnector EXCEPT ![s] = "idle"]
        /\ taskMutex' = [taskMutex EXCEPT ![s] = "free"]
        /\ UNCHANGED userTries
     \/ /\ userTries' = [userTries EXCEPT ![s] = @ + 1]
        /\ reconnector' = [reconnector EXCEPT
                             ![s] = IF userTries[s] + 1 = Attempts THEN "idle" ELSE @]
        /\ UNCHANGED <<conn, taskMutex>>
  /\ UNCHANGED <<queue, mutex, reconnects, losses, workerVars, clientVars,
                 killState, closeVars, pluginVars, killVars>>

\* One attempt of the loop over range(3): it connects and is done, or fails
\* and is done after the third time.  A SQLite session tries again only while
\* the database is locked, and calls its failed_cb in the end.
TryReconnect(s) ==
  /\ reconnector[s] = "run" /\ userTries[s] < Attempts
  /\ \/ /\ conn' = [conn EXCEPT ![s] = "up"]
        /\ UNCHANGED userTries
     \/ /\ userTries' = [userTries EXCEPT ![s] = @ + 1]
        /\ UNCHANGED conn
     \/ /\ s \in Sqlite
        /\ userTries' = [userTries EXCEPT ![s] = Attempts]
        /\ UNCHANGED conn
  /\ LET over == conn'[s] = "up" \/ userTries'[s] = Attempts
         fails == s \in Sqlite /\ conn'[s] # "up"
     IN /\ reconnector' = [reconnector EXCEPT
                             ![s] = IF ~over THEN @
                                    ELSE IF fails THEN "fail" ELSE "idle"]
        /\ taskMutex' = [taskMutex EXCEPT ![s] = IF over /\ ~fails THEN "free" ELSE @]
  /\ UNCHANGED <<queue, mutex, reconnects, losses, workerVars, clientVars,
                 killState, closeVars, pluginVars, killVars>>

\* The failed_cb is on_fail_connecting, here on the thread that reconnects and
\* holds _task_mutex: close_connection(True) takes and releases _mutex, closes
\* nothing and forgets the session, whose thread goes on without a connection.
ForgetReconnected(s) ==
  /\ reconnector[s] = "fail"
  /\ mutex[s] = "free" \/ forgot[s]
  /\ forgot' = [forgot EXCEPT ![s] = TRUE]
  /\ reconnector' = [reconnector EXCEPT ![s] = "idle"]
  /\ taskMutex' = [taskMutex EXCEPT ![s] = "free"]
  /\ UNCHANGED <<queue, mutex, conn, closer, userTries, reconnects, losses,
                 workerVars, clientVars, killState, pluginVars, killVars>>

\* RequestHandler._do_execute with lock_session: lock(), the plugin function,
\* release().
CallPlugin(p, s) ==
  /\ pluginPc[p] = "idle" /\ pc[s] # "none"
  /\ pluginPc' = [pluginPc EXCEPT ![p] = "lock"]
  /\ pluginOn' = [pluginOn EXCEPT ![p] = s]
  /\ UNCHANGED <<losses, workerVars, sessionVars, clientVars, killState,
                 closeVars, reconnectVars, killVars>>

EnterPlugin(p) ==
  /\ pluginPc[p] = "lock" /\ mutex[pluginOn[p]] = "free"
  /\ mutex' = [mutex EXCEPT ![pluginOn[p]] = p]
  /\ pluginPc' = [pluginPc EXCEPT ![p] = "use"]
  /\ UNCHANGED <<queue, taskMutex, conn, pluginOn, losses, workerVars,
                 clientVars, killState, closeVars, reconnectVars, killVars>>

LeavePlugin(p) ==
  /\ pluginPc[p] = "use"
  /\ mutex' = [mutex EXCEPT ![pluginOn[p]] = "free"]
  /\ pluginPc' = [pluginPc EXCEPT ![p] = "done"]
  /\ UNCHANGED <<queue, taskMutex, conn, pluginOn, losses, workerVars,
                 clientVars, killState, closeVars, reconnectVars, killVars>>

\* kill_query of the service session v: lock_usage(_mutex, 5), the killed flag
\* of the user session u, KILL QUERY on the service connection.
CallKill(v, u) ==
  /\ <<v, u>> \in KillPairs /\ killer[v] = "idle"
  /\ pc[v] # "none" /\ pc[u] # "none"
  /\ killer' = [killer EXCEPT ![v] = "lock"]
  /\ victim' = [victim EXCEPT ![v] = u]
  /\ hunted' = IF Executing(u) THEN hunted \cup {task[u]} ELSE hunted
  /\ UNCHANGED <<killed, interrupted, killLocked, losses, workerVars,
                 sessionVars, clientVars, closeVars, reconnectVars,
                 pluginVars>>

LockForKill(v) ==
  /\ killer[v] = "lock"
  /\ killer' = [killer EXCEPT ![v] = "flag"]
  /\ killLocked' = [killLocked EXCEPT ![v] = mutex[v] = "free"]
  /\ mutex' = [mutex EXCEPT ![v] = IF @ = "free" THEN "killer" ELSE @]
  /\ UNCHANGED <<queue, taskMutex, conn, victim, losses, workerVars,
                 clientVars, killState, closeVars, reconnectVars, pluginVars>>

FlagKill(v) ==
  /\ killer[v] = "flag"
  /\ killer' = [killer EXCEPT ![v] = "kill"]
  /\ killed' = [killed EXCEPT ![victim[v]] = TRUE]
  /\ UNCHANGED <<killLocked, victim, interrupted, hunted, losses, workerVars,
                 sessionVars, clientVars, closeVars, reconnectVars,
                 pluginVars>>

\* Mutant: the block of kill_query releases what it did not acquire.
RunKillReleasesAnyway(v) ==
  LET u == victim[v]
      hit == pc[u] = "run" /\ ~skip[u] /\ conn[u] = "up"
  IN /\ killer[v] = "kill" /\ conn[v] = "up"
     /\ killer' = [killer EXCEPT ![v] = "idle"]
     /\ killLocked' = [killLocked EXCEPT ![v] = FALSE]
     /\ mutex' = [mutex EXCEPT ![v] = "free"]
     /\ interrupted' = [interrupted EXCEPT ![u] = @ \/ hit]
     /\ UNCHANGED <<queue, taskMutex, conn, killed, hunted, victim, losses, workerVars,
                    clientVars, closeVars, reconnectVars, pluginVars>>

\* KILL QUERY aborts the statement the victim runs, if any.
RunKill(v) ==
  LET u == victim[v]
      hit == pc[u] = "run" /\ ~skip[u] /\ conn[u] = "up"
  IN /\ killer[v] = "kill" /\ conn[v] = "up"
     /\ killer' = [killer EXCEPT ![v] = "idle"]
     /\ killLocked' = [killLocked EXCEPT ![v] = FALSE]
     /\ mutex' = [mutex EXCEPT ![v] = IF killLocked[v] THEN "free" ELSE @]
     /\ interrupted' = [interrupted EXCEPT ![u] = @ \/ hit]
     /\ UNCHANGED <<queue, taskMutex, conn, killed, hunted, victim, losses, workerVars,
                    clientVars, closeVars, reconnectVars, pluginVars>>

\* KILL QUERY fails: the exception leaves lock_usage, which has no finally, and
\* a mutex that was acquired is never released.
FailKill(v) ==
  /\ killer[v] = "kill"
  /\ killer' = [killer EXCEPT ![v] = "idle"]
  /\ killLocked' = [killLocked EXCEPT ![v] = FALSE]
  /\ UNCHANGED <<victim, losses, workerVars, sessionVars, clientVars,
                 killState, closeVars, reconnectVars, pluginVars>>

\* The server goes away or drops an idle connection.
LoseConnection(s) ==
  /\ conn[s] = "up" /\ s \notin Sqlite /\ losses[s] < MaxLosses
  /\ conn' = [conn EXCEPT ![s] = "lost"]
  /\ losses' = [losses EXCEPT ![s] = @ + 1]
  /\ UNCHANGED <<queue, workerVars, clientVars, killState, closeVars,
                 reconnectVars, pluginVars, killVars, locks>>

Closer(s) == LockAndClose(s) \/ FinishClose(s)
Reconnector(s) == StartReconnect(s) \/ TryReconnect(s) \/ ForgetReconnected(s)
Plugin(p) == EnterPlugin(p) \/ LeavePlugin(p)
Killer(v) == LockForKill(v) \/ FlagKill(v) \/ RunKill(v) \/ FailKill(v)

Next ==
  \/ \E s \in Sessions :
       \/ Worker(s) \/ Closer(s) \/ Reconnector(s) \/ Killer(s)
       \/ Open(s) \/ CallClose(s) \/ CallReconnect(s) \/ LoseConnection(s)
       \/ ReplaceDenied(s)
       \/ \E r \in Requests : Execute(r, s)
       \/ \E u \in Sessions : CallKill(s, u)
       \/ \E p \in Plugins : CallPlugin(p, s)
  \/ \E r \in Requests : Cancel(r)
  \/ \E p \in Plugins : Plugin(p)

\* No thread stops for ever while it can go on.  (Each subscript names what every
\* step of the thread changes.)
Fairness ==
  /\ \A s \in Sessions : /\ WF_workerVars(Worker(s)) /\ WF_closer(Closer(s))
                         /\ WF_<<reconnector, userTries>>(Reconnector(s))
  /\ \A k \in KillPairs : WF_killer(Killer(k[1]))
  /\ \A p \in Plugins : WF_pluginPc(Plugin(p))

SafeSpec == Init /\ [][Next]_vars
Spec == SafeSpec /\ Fairness
-----------------------------------------------------------------------------
(* Properties *)

\* Thread a uses the shell session of s in the belief that it holds its _mutex.
Inside(a, s) ==
  \/ a = "worker" /\ locked[s]
  \/ a = "closer" /\ closer[s] = "wait"
  \/ a = "killer" /\ killer[s] \in {"flag", "kill"} /\ killLocked[s]
  \/ a \in Plugins /\ pluginPc[a] = "use" /\ pluginOn[a] = s

\* Two threads that both acquired _mutex are never inside at the same time,
\* although a lock_usage that timed out leaves its block while another thread
\* holds the mutex (the result tested before the release at the end of
\* lock_usage).
LockedUseIsExclusive ==
  \A s \in Sessions : \A a, b \in Holders : Inside(a, s) /\ Inside(b, s) => a = b

\* A reconnect a user asked for replaces the connection between two tasks,
\* never under one, and never while the session is closed down (_task_mutex in
\* reconnect and run, which keeps it when it leaves its loop).
ReconnectExclusive ==
  \A s \in Sessions :
    reconnector[s] \in {"run", "fail"} =>
      ~Executing(s) /\ pc[s] \notin {"term", "dead"}

\* The session thread closes the connection for good only while the thread that
\* asked for it waits inside the lock, and no plugin is using the session
\* (close_connection keeps _mutex until _term_complete is set).
TeardownAlone ==
  \A s \in Sessions :
    pc[s] = "term" => /\ closer[s] = "wait"
                      /\ \A p \in Plugins : ~Inside(p, s)

\* Closing a session loses no request that was accepted before the close: an
\* unanswered request is queued or being executed, and what is left in the
\* queue of a thread that ended came after the DBCloseTask.
LostOnlyBehindClose ==
  /\ \A r \in Requests :
       answer[r] = "queued" => \E s \in Sessions : r \in Tasks(s) \cup {task[s]}
  /\ \A s \in Sessions :
       pc[s] \in {"term", "dead"} => Tasks(s) \ {CloseTask} \subseteq behind

\* A request is answered as killed only if a call of kill_query aimed at its
\* session was under way at some moment between the request being taken and being
\* answered: a kill that came back before never hits it (the resets of _killed in
\* run and in execute).  One that was called for an earlier request and comes
\* late may.
KilledOnlyIfHunted ==
  [][\A r \in Requests :
       answer[r] = "queued" /\ answer'[r] = "killed" => r \in hunted]_vars

\* Why these hold: a thread that believes it is inside owns the mutex, ...
InsideOwns ==
  /\ \A s \in Sessions :
       /\ locked[s] => mutex[s] = "worker" /\ pc[s] \in {"run", "reconnect", "unlock"}
       /\ closer[s] = "wait" => mutex[s] = "closer"
       /\ killLocked[s] => mutex[s] = "killer" /\ killer[s] \in {"flag", "kill"}
  /\ \A p \in Plugins : pluginPc[p] = "use" => mutex[pluginOn[p]] = p

\* ... _task_mutex belongs to whoever works on the connection, ...
TaskMutexOwned ==
  \A s \in Sessions :
    /\ Executing(s) \/ pc[s] \in {"term", "dead"} => taskMutex[s] = "worker"
    /\ reconnector[s] \in {"run", "fail"} => taskMutex[s] = "reconnector"

\* ... a DBCloseTask that was not yet carried out has its sender waiting, ...
CloserWaits ==
  \A s \in Sessions :
    /\ pc[s] = "term" => task[s] = CloseTask
    /\ CloseTask \in Tasks(s) \cup {task[s]} =>
         closer[s] = "wait" \/ pc[s] = "dead"

\* ... and a kill that can still be noticed overlapped the current task.
KillNoticed ==
  /\ \A s, v \in Sessions :
       Executing(s) /\ killer[v] # "idle" /\ victim[v] = s => task[s] \in hunted
  /\ \A s \in Sessions :
       /\ Executing(s) /\ killed[s] => task[s] \in hunted
       /\ interrupted[s] => task[s] \in hunted /\ pc[s] \in {"run", "reconnect"}
       /\ Executing(s) => task[s] \in Requests
       /\ pc[s] = "take" => task[s] # NoTask

SessionInv ==
  TypeOK /\ InsideOwns /\ TaskMutexOwned /\ CloserWaits /\ KillNoticed

\* What the client sees of a request.
Taken(r, s) == task[s] = r /\ Executing(s)

Stage(r) ==
  IF answer[r] # "queued" THEN answer[r]
  ELSE IF ~\E s \in Sessions : Taken(r, s)
       THEN IF r \in cancelRequests THEN "withdrawn" ELSE "waiting"
  ELSE IF \E s \in Sessions : Taken(r, s) /\ skip[s] THEN "withdrawn"
  ELSE IF \E s \in Sessions : Taken(r, s) /\ pc[s] = "lock" THEN "taken"
  ELSE IF \E s \in Sessions : Taken(r, s) /\ pc[s] = "reconnect" THEN "broken"
  ELSE "running"

Lifecycle == INSTANCE RequestLifecycle
               WITH status <- [r \in Requests |-> Stage(r)],
                    executions <- executed

\* The sessions keep the promise of RequestLifecycle: a statement is executed
\* once, and once more only after the connection broke under it; it is answered
\* at most once and never executed afterwards; and one that is cancelled while
\* it waits is answered as cancelled and never executed.
KeepsLifecycle == Lifecycle!Spec

Has(s, r) == r \in Tasks(s) \cup {task[s]}

\* A request accepted by a session whose connection was opened is answered,
\* unless it came behind a close: a plugin or a close that holds _mutex delays
\* the session thread by five seconds at most.  A SQLite session that is being
\* closed is excepted (SqliteCloseReturns).
Answered ==
  \A r \in Requests :
    (\E s \in Sessions : Has(s, r) /\ conn[s] # "none" /\ r \notin behind)
      ~> \/ answer[r] # "queued"
         \/ \E s \in Sqlite : Has(s, r) /\ closer[s] # "idle"

Closes(s) ==
  (closer[s] = "lock" /\ pc[s] \notin {"init", "failed"}) ~> closer[s] = "done"

\* Closing a MySQL session that finished connecting returns, although the closing
\* thread holds the mutex the session thread asks for (close_connection and the
\* timeout of lock_usage).
CloseReturns == \A s \in Sessions \ Sqlite : Closes(s)

\* Closing a SQLite session returns as well (the docstring of close_session, and
\* the wait of close for _term_complete).
SqliteCloseReturns == \A s \in Sqlite : Closes(s)

\* A reconnect a user asked for returns unless the session is closed: the one of
\* a SQLite session may then wait for the mutex of the closing thread for ever.
ReconnectReturns ==
  \A s \in Sessions :
    reconnector[s] = "wait" ~>
      \/ reconnector[s] = "idle"
      \/ pc[s] \in {"term", "dead"}
      \/ s \in Sqlite /\ closer[s] # "idle"

\* The comment on lock_session in ShellGuiWebSocketHandler: while the function
\* of a plugin works with the shell session, nobody else does.
PluginUndisturbed ==
  \A s \in Sessions, p \in Plugins :
    Inside(p, s) => /\ pc[s] \notin {"run", "reconnect"}
                    /\ reconnector[s] # "run"
=============================================================================
