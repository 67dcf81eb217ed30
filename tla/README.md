# Verification of MySQL Shell for VS Code and its Shell plugins

This directory holds TLA+ models of the concurrent parts of this repository, TLC
configurations that check them on small instances, and TLAPS proofs of what
matters most. Paths below are relative to `src/`. `PROJECT.json` lists the
components, the runs, a mutant for each property, the source lines of every
definition, the hazards, the findings and the theorems.

## 1. The system

A web frontend (also embedded in a VS Code extension) talks over one WebSocket
to a Python backend that runs inside MySQL Shell. The backend keeps *module
sessions* (SQL editor, shell); each owns *database sessions*, which are threads.
Further Shell plugins (REST service, OCI, schema management, migration) are
collections of functions the backend calls on behalf of the frontend.

| Component | State | Operations | What is hard | What makes it correct |
|---|---|---|---|---|
| Database sessions, `gui/backend/gui_plugin/core/dbms` | task queue, `_task_mutex`, `_mutex`, shell session, `_killed`, shared `_cancel_requests` | execute, cancel, kill, reconnect, close, the thread `run`, automatic reconnection | a timed lock that is passed without being acquired, callbacks on the session's thread, lost connections | mutual exclusion, each statement is executed once (again only after the connection broke) and answered at most once, close and reconnect return |
| Module sessions, `core/modules`, `sql_editor` | references to a service and a user session, expected prompt | open, close, kill, reconnect, prompt reply | two sessions that lock each other, prompts answered while they change | no deadlock between the pair, replies reach their prompt |
| Request handlers, `core/RequestHandler.py` | one thread per call of a plugin function | run with or without the lock of a session | a plugin works on a session other threads use | the session is left to the plugin |
| WebSocket handler, `core/ShellGuiWebSocketHandler.py` | registry of module sessions, of requests in progress, of prompts | dispatch, send, cancel, prompts, teardown | requests cancelled while they end, sockets lost with requests in progress | one final answer for each request |
| Pinger, `core/dbms/DbSessionUtils.py` | list of sessions, two conditions | add, remove, pause, unpause, stop | a signal lost between two conditions | stop returns, every open session is pinged |
| Shell module session, `gui_plugin/shell` | a subprocess, a reader and a writer thread, the pending command | execute, prompt, kill, close | replies that belong to an earlier command, death of the process | each command has its own replies |
| Backend database, `core/GuiBackendDbManager.py` | SQLite schema and its version, log tables, backups | upgrade, rotation of the logs | a crash between backup and upgrade, two processes | an upgrade is all or nothing, the number of backups is bounded |
| Users, profiles, connections, `core/Cache.py` | rows of the backend database, a cache with a timer | create, update, delete, list | stale cache | plain transactions |
| Frontend scheduler, `gui/frontend/src/communication`, `utilities/MySQLShellLauncher.ts` | socket, map of requests in progress, reconnection timer; the shell process | send, receive, reconnect; start, restart, connect to another shell | requests open when the socket closes, two handlers that set timers, restarts while connecting | one connection, always retried; an answer finds its request; commands go on |
| Script execution, `gui/frontend/src/modules/db-editor/SqlQueryExecutor.ts`, `script-execution` | per block: result area, loading state, timers, cached ids; the application DB | run, page, clear, hide and show the tab, kill | awaits inside callbacks, runs that overlap, results that arrive for a hidden tab | rows in order, the same in the area and the DB, an idle end |
| Background workers, `gui/frontend/src/supplement/WorkerPool.ts`, `modules/db-editor/execution` | idle workers, running tasks with reference counts, waiting tasks | run, continue, retain, release; settings; remove idle workers | messages in both directions, queries of a script that is over, code nobody awaits, failed queries | one task for a worker, kept exactly as long as something is left of it |
| Frontend interface, extension, parsers | presentation | | | not stateful across actors |
| OCI plugin, `mds_plugin` | configuration, bastion sessions | calls of the SDK | sessions that expire | |
| REST service plugin, `mrs_plugin` | metadata schema | CRUD, DDL dialect, dump and load of a service | partial failure between statements | |
| Asynchronous tasks, `mrs_plugin/db_schema/mysql_tasks.msm.project` | task tables, events, user locks | create, run, kill, clean up | statements of several connections | a task ends in one state |
| Schema management, `msm_plugin` | schema version, backup, log | deploy, update, roll back | failure in the middle of an update | the old version can be restored |
| Cloud migration, `migration_plugin` | plan of stages, a thread for most of them, status of the project | start, stop, abort, retry, clean up | a walk over the plan while stages run, fail or are stopped | order of the stages, end of the work, truth of what is reported |

The interactions that matter: frontend -> WebSocket handler -> request handler
thread -> module session -> queue of a database session -> session thread ->
callback on that thread -> WebSocket. Kill, cancel, close and reconnect overtake
the queue on threads of their own. The migration has its own threads: the call
from the frontend, the orchestrator thread, one thread for each stage, and
processes on a jump host.

Inside the frontend: blocks -> script execution -> message scheduler -> WebSocket, and
back through callbacks and promises; JavaScript blocks -> worker pool -> a worker ->
messages that ask the page for queries -> the backend. The extension starts the shell and
tells the scheduler where to connect.

## 2. Plan

The modules were written in the order of what matters most to a user: that a session
executes and answers (`DbSession`, with `RequestLifecycle` as the abstract specification
and a proved refinement), that a migration does its stages in order (`Migration`,
`MigrationPlan`), that the frontend stays connected and settles its requests
(`MessageScheduler`), that results are shown right (`ScriptExecution`), and that scripts in
workers get their turn and their answers (`WorkerPool`).

One passing run for each, violations only where the code contradicts a comment, an
assertion or a description. Each module is closed: the database session sees requests, the
scheduler sees shells and responses, the executor sees packets, the pool sees outcomes of
queries. Their products are not checked: the interface between two of them (an ordered
stream of responses that ends with one final answer, or is cut off) is small and stated
on both sides (`RequestLifecycle`, `AnswerUnderway`).

What was considered next, and left out, is in section 6.

## 3. Modules

### DbSession (`gui_plugin/core/dbms/DbSession.py`, `DbMySQLSession.py`, `DbSqliteSession.py`, `DbSessionTasks.py`, `core/BaseTask.py`)

For each session, `pc` is where its thread is in `run`; `task`, `skip`, `locked`
and `tries` are its locals: the task taken, whether it was cancelled, what
`lock_usage(_mutex, 5)` returned, failed attempts to reconnect. `queue`,
`taskMutex`, `mutex`, `conn`, `killed`, `cancelRequests` are the attributes. The
threads that call in have a program counter each: `closer` (`close_connection`),
`reconnector`, `pluginPc` (a request handler that locks the session), `killer`
(`kill_query` of a service session). `answer` is what the client got. `behind` (requests
that came behind a close), `executed` (how often a statement was given to the shell session)
and `hunted` (requests whose session a kill was aimed at while it had them) are history.

One action is one step between two lock operations or one answer. `LockTimesOut`
and its counterpart for kills are the heart: `threading.Lock.acquire` with a
timeout returns `False`, the code raises only for `None`, so that the thread goes
on without the mutex. `ForgetFailed` is the callback of a failed connection:
`thread_error` stays unset, and the thread enters its loop all the same. In the mode for a
single server a denied access is not forgotten but asked for again (`AskAgain`), and
`open_connection` puts a second session in the place of the first (`ReplaceDenied`), whose thread
nobody ends. `AutoReconnected` executes the statement again, as `do_execute` does; the two places
that reconnect automatically make up to six attempts. A SQLite session reconnects as well, and
when that fails its `failed_cb` takes `_mutex` on the thread that reconnects and holds `_task_mutex`
(`ForgetReconnected`).
`FailKill` leaves `lock_usage` with an exception, and as it has no `finally` the
mutex stays acquired.

Abstracted: a statement with its rows is one step with an outcome; what SQLite
statements do; the contents of answers. Callbacks are assumed not to raise.

### RequestLifecycle

What the client is promised of one request: it waits, is withdrawn or taken, executed, answered.
Beside the status there is the number of executions, which only `Execute` raises: when
the request was taken, and again when the connection broke under it (`Break`).
`DbSession!KeepsLifecycle` is the refinement, checked by TLC with the mapping `Stage` for the status
and `executed` for the number.

### Migration and MigrationPlan (`migration_plugin/lib/backend/stage.py`, `orchestration.py`, `dbmigration_stages.py`, `sync_stages.py`, `work_step.py`)

`MigrationPlan` is the table the constructor of `Orchestrator` builds: the stages, the *order* of
their dependencies (they are called in that order), and the overrides of `_enabled`. `Migration`
executes any plan. What the order of the stages owes to the shape of the plan, and not to the code
that walks it, is named in `Migration` and used by the proofs only: `InDepthOnce` (a stage leads
back neither to itself nor to a dependency called before), `BehindLoad` (every enabled update, and
the monitor, leads to an enabled stage with a thread that depends on the load), `BehindWatch`
(Congratulations is called after the monitor, which depends on the same stages) and `CallersWait` (a
disabled stage calls nothing with a thread that others call as well, but what was reached before it
was called). `MCMigration` has TLC evaluate them for the plans of all 24 combinations of options.

The orchestrator thread is a stack of frames, one for each call of `start` in progress, because the
control of this code is a depth-first recursion: a frame is in the loop over its dependencies, waits
for those it collected, waits again because it was called a second time, or leaves `Stage.start` to
do what its subclass adds. `root` also `run`s. The quirks are kept: a disabled stage waits for
nothing; a stop makes `start` return `False`, which no caller but `Root.run` looks at; the join in
`finish` forgets the `Thread`; dump and load return at once when called again; the dump sets its
status after it started its thread; the dump may end without a status; the load reads which dumper
is used when its own thread begins; `stop` of the load and of a remote dump raises because
connections are refused once a stop was requested; `update` of the monitor answers whether it
failed; the tunnel check takes the refusal for "no tunnel yet". That a dump found in the bucket
might be used is not modelled: the code that looks for one always answers that there is none
(`dbmigration_stages.py:334`).

`thread[s]` is the life of a stage's `Thread`: new, alive, exiting (`__done` is
set, the thread not yet gone), dead, or joined and forgotten. `clean` is history:
stages whose thread was started before any stop. The calls of the OCI SDK are the
outcomes done, failed, aborted; the remote load is an external process that cannot
finish before the dump has written its data.

### MessageScheduler (`communication/MessageScheduler.ts`, `utilities/MySQLShellLauncher.ts`, `gui/extension/src/extension.ts`)

`socket`, `disconnecting`, `timer`, `ongoing` are the attributes of the scheduler, `ready` the
`readyState` of each socket, `promise` what the callers of `sendRequest` see. The extension host
runs one handler at a time, so a handler is one action. What makes this hard is kept as the code has
it: `connect` resolves at once if any socket is open or opening, whatever shell it is for; the
timer's callback leaves its handle in place; `onError` overwrites a handle whose timer may still be
armed (`loose` counts these), and `onClose`, which follows in the same task, clears whatever handle
it finds; `disconnect` leaves timers alone and forgets the socket, whose handlers run later; `send`
on a socket that is opening throws after the entry was made. The sockets are those of the `ws`
package, as restarts happen in the extension only: one that `disconnect` is closing still delivers
what the shell sends (`Delivers`), until its close event.

A command that restarts the shell or connects to another one is two actions: up to its await of
`exitProcess` (`Restart`), which does not keep the user from the next command, and what it does when
the process has ended (`GoesOn`: `StartShell`, `ConnectExternal`). `proc` and `token` are the
launcher's `shellProcess` and the token of `launchDetails`. What follows from commands that overlap
is in the model: one `close` event resumes all commands that wait for the process, each of them
starts a shell, and the last one started is the one the launcher knows; `done` drops a handle that
may be that of a newer process; the URL is put together when the shell announces itself, with the
token of the shell that was started last, and then no shell accepts it (the URL `None`). A process
may crash at any time, or fail to get its port; its handle stays, and a command that then waits for
its end waits for ever. The rejected `connect` of the launcher ends whatever process the launcher
has by then (`Fails`). A socket number is a slot, reused once the socket is closed.

### ScriptExecution (`modules/db-editor/SqlQueryExecutor.ts`, `ConnectionTab.tsx`, `script-execution/ExecutionContext.ts`, `PresentationInterface.tsx`)

A process is a run of one block, or a request for another page of one of its results. `pc` is the
await it is at; `queue` are its requests at the backend, which serves them in order. `resultId` and
`subIndex` are locals of the closure that handles the responses, and so is `replaceData`: `sub` and
`replace` stand for them, so that a callback resumed after it got meta data (`held`) reads what a
later packet made of them. `sets`, `texts`, `notes` and `type` are `resultData`; `state` and
`waitTimer` the loading state; `frozen`, `cached` the context's, `stored` the application DB.
Reading it back is one step per result (`ReadNext`). A packet is its process, its result and its
number, which is all that `RowsInOrder` compares. A select is of a table, whose packets may be taken
for empty and ask for meta data; or of a table but without its primary key (`keyless`), as its first
columns tell, after which it is not updatable any more; or any other. `cut` and `mixed` are history:
results that arrived during a clear or a load, or were dropped by one; and results with a packet
that overtook one which waits for meta data, or with pages that were fetched together.

### WorkerPool (`supplement/WorkerPool.ts`, `ConnectionTab.tsx`, `db-editor/execution/console.worker.ts`, `runtime/query.ts`)

The pool's attributes are variables of the same names (`worker` and `refs` are the entries of
`runningTasks`), the messages between the page and each worker are two queues. A script is what it
does with queries: at each turn it runs any number of them and waits for any of these, or ends, or
is lost (the error has no place in the code, and the handler of the error throws). `slot` is its
entry of `pendingRequests`, one for all its queries.

Rows that a callback takes go one of four ways, for which the order within the listener matters. It
resolves a promise the script awaits: the listener deletes the entry and posts Done, and the script
goes on behind it (`OnAwaited`). It resolves a promise that only other code waits for: that code
goes on behind Done too, and if Done took the last reference its next query finds no task, and is
dropped (`OnFloating`; such queries are `floated` until the page takes them). It is a function,
which runs its queries *before* the listener deletes whatever entry is there, its own one included
(`OnCallback`). Or the function throws: no Done, the entry stays, and the error listener posts the
final message (`OnThrow`). `given`, `overlapped` and `nested` are history: scripts that ran a query
while another callback was due, and those that ran one in a callback.

## 4. Runs

| Run | Instance | What it shows | Size |
|---|---|---|---|
| `session_alone` | one session, MySQL or SQLite, two requests, a plugin, a close, one reconnect, one lost connection | exclusion, reconnect, teardown, no lost request, refinement, answers, close and reconnect return | 223 thousand states, three minutes |
| `session_kill` | a service session that kills on a user session, two requests | exclusion with kills that fail, a kill that came back never hits a later request | 1.2 million states, two minutes |
| `session_plugin` | a session, a request, a plugin | violation: the session is used by its thread under a plugin that holds the lock | short |
| `session_sqlite` | a SQLite session, one request | violation: close and the statement before it wait on each other | short |
| `migration` | all 18 stages; a cold plan, a hot one with the built-in tunnel, a hot one with a direct network, HA and HeatWave between them on and off | type, order of the stages, no thread started twice, READY is true, migration and stop end | 134 thousand states, a minute and a half |
| `migration_updates` | the direct plan, nothing fails | violation: the channel is created while the HeatWave cluster is added | a trace of 110 steps |
| `migration_threads` | the direct plan, nothing fails | violation: `assert self._thread` fails for the jump host | a trace of 59 steps |
| `scheduler` | three shells (started, given as URL, started again), commands that overlap, one loss, refusal or crash, one request with a callback and a data response | one live socket, always retried, session data end with it, answers find their request, commands go on, recovery | 407 thousand states, two minutes |
| `execution` | results of three packets and two runs; or a run and two pages; or a run, a page and the tab hidden once; or a run and the tab hidden twice; and results of two packets, a run, two pages and the tab hidden once; four scripts | rows in order, area and DB agree, no silent statement, idle at the end, every run ends | 686 thousand states, two and a half minutes |
| `execution_order` | one run of one select from a table, three packets | violation: the rows of one result are torn apart | short |
| `pool` | three blocks, two queries, three workers, one change of the settings | one owner, exact references, answers reach their callback, waiting tasks get a worker | 94 thousand states |
| `pool_limit` | three blocks without queries, a change of the queue length | violation: more active workers than the maximum | short |

### Bounds, and why they suffice

`DbSession`: `MaxOpen` is the number of sessions that are opened: `session_alone` opens one, which
may be of either kind, `session_kill` both of the pair. `MaxLosses`, `MaxReconnects` bound
repetitions of independent events; two requests are enough for one to run while the other waits, is
cancelled or comes behind the close; one plugin and one reconnect meet the thread, the close and
each other; one pair of sessions has every kill there is. The two requests are interchangeable, and
`session_kill`, which checks no liveness, explores them up to symmetry.

`Migration`: `MaxRetries = 1` repeats the dump once (the code allows ten attempts,
each alike). `MaxFailures = 1`: one stage fails by itself, while failures that follow
from another one are not counted; the first failure already ends the walk.
`Lingering` are the stages whose thread may still be alive after its work: the
jump host, the stage with two callers that the runs join. For a stage with one
caller the difference is whether `__finished` is set, which only `Stage.stop` reads.
`Late` are stages followed after they were *started* by a stop in progress: none,
because every wait is skipped after a stop, so nobody waits for them; without this
bound these threads alone make up 99 percent of the states. The plans switch every
option on and off and have each of the shapes of the tail: no tunnel and no
connectivity check, a tunnel, a check.

`MessageScheduler`: three shells make two restarts, so that a second one meets what is left
over from the first: a socket that is closing or aborting, a timer for an older shell. A
disconnect or a loss needs one further socket, so `MaxShells` sockets suffice: connecting is
disabled only when no slot is closed, which happens when older sockets have yet to deliver their
close event, and those are fair. One request suffices because requests share nothing but
the socket; one data response meets the last response.

`ScriptExecution`: two runs overlap in every pair of awaits; `Budgets` limits what the user does to
five combinations, because runs, pages and hiding multiply. Three packets make a first, a middle, a
last and a lone one; it is the middle one that can be overtaken. Two pages overlap in every order of
their deletions and packets, in the last combination also with the tab hidden, for which two packets
suffice: the rows of both pages are then restored together. Two results of a call renew the id once.
The four jobs contain statements that are updatable, that turn out not to be, that return nothing
and that return several results, text output, and both settings of stop-on-error; a select that was
never updatable behaves like the second of these behind its first packet.

`WorkerPool`: two queries and three blocks share one budget, so that one script can nest or overlap
its queries, or two can run one each. With one worker the second block waits and the third is
refused or waits; two queries overlap or follow each other; one change of the settings raises the
limit, or asks for more idle workers than there may be. Workers are numbered as they are created,
never reused.

### Fairness

`DbSession`: every thread that can run does run; statements, plugin functions and
attempts to connect terminate. Nothing makes a client send, cancel, kill or close
anything, and nothing makes a connection fail. The subscript of each condition names the
variables that every step of the thread changes, which leaves its meaning as with `vars`.

`Migration`: the orchestrator thread and the stages' threads run and the work of a
stage terminates (work requests of OCI end in a final state, `wait_work_request`
returns or raises for each of them); the monitor ends when it is stopped. The tunnel
is opened at some time unless the migration is stopped: with a manual tunnel the
user was told to. A thread takes finitely many steps, so one weak fairness condition
over all of them gives each its turn. Aborting is up to the user.

`MessageScheduler`: the extension host delivers open, close, error and messages, fires timers and
resumes commands; a started shell comes up, a killed one ends; the backend ends each request it
serves. Losses, crashes, the user and the application are free; the free alternatives of failing and
closing (those that count as losses) are outside the fairness condition.

`ScriptExecution`: awaits resume, timers fire, the backend serves its queue. The user is free.

`WorkerPool`: messages are delivered, queries end, scripts take their turns: a script that loops for
ever is the user's. New blocks and settings are free, and so is the timer that removes
idle workers.

Deadlock checking is off: sessions are closed, threads end, the user stops to ask for anything,
and then nothing more happens.

### What the liveness properties except

`GetsReady` says less than its name: the migration gets ready, ends with an error, or is stopped,
and `DumpLost` is excepted; and `StopEnds` excepts `DumpLost`, the wait for the tunnel and the wait
for the monitor. These are real: in these states the code waits for something that does not look at
the stop (see the hazards), and the property says that there are no others. `ReconnectReturns`
excepts a session that was closed first, as `run` never gives `_task_mutex` back. For SQLite
sessions it excepts one that is being closed, too: the callback of a reconnect that failed may wait
for the mutex of the closing thread, which waits for the session thread, which waits for
`_task_mutex`. `CloseReturns` is about MySQL sessions, and `Answered` excepts a SQLite session that
is being closed: `session_sqlite` shows the wait (`SqliteCloseReturns`).

`MessageScheduler!Answered` excepts the connection that ends first: such a promise stays pending, as
nothing rejects it. `Resumes` excepts a command that waits for a process which had ended by itself
before: its handle was never dropped, `exitProcess` listens for a close event that is in the past,
and the command never goes on (`MySQLShellLauncher.ts:342`). The scheduler is then left
disconnected. `Recovers` asks that whatever may still connect is aimed at the shell in use
(`Aimed`): after a restart a timer or a socket of the older shell can be left, and `connect` is
satisfied with a socket to the wrong shell. `WorkerPool!Drains` excepts a failed query, of which the
worker is never told, queries of one script that overlap, whose callbacks overwrite each other, and
a script that was lost: their task is never released, and in a full pool nobody behind it is served.
`OwnAnswer` excepts scripts whose queries overlap, and, as a case of its own, those that run a query
in a callback (`nested`): nothing overlaps there, yet the listener removes the new callback with the
old one (`console.worker.ts:277`), and the rows of the second query are printed.

### What the properties of a block except

`ShowsStored` and `RowsInOrder` except results in `cut`. `ShowsStored` also excepts a page that is
on its way, whose old rows are deleted already, and of pages that were asked for twice it says only
that the rows shown are the last ones stored. The reason is in the code: both requests delete the
old rows when they are sent (`SqlQueryExecutor.ts:669`), and nothing keeps the user from asking for
the next page while one is under way, so that the rows of both are stored under one id. Hiding and
showing the tab then shows both.

`RowsInOrder` names the results it excepts by `mixed`, with the reason: `"pages"` when two pages of
the result were being fetched together, as just said; `"packets"` when a packet was handled while an
earlier one of its statement waited for meta data, or so late that its statement was over. Results
with mixed pages still have the rows of each page in order. Within the bounds, every other result is
in order without gaps. `ProperOrder` is the statement without `mixed`, which a comment of the source
makes, and `execution_order` refutes it.

`SettledIsIdle` excepts three ways into loading: results in `cut`; text that came behind a result
set, where `addResultData` leaves the state at loading; and a packet that waited for meta data so
long that it opened a set of its own, which no summary ends (`Endless`).

## 5. Proofs

`DbSession_proofs` proves, for any sets of sessions, SQLite sessions, requests,
plugins and kill pairs and any bounds, of `SafeSpec` (no fairness):

- `TypeCorrect`;
- `Invariance`: `SessionInv`, the inductive invariant. Exclusion is not inductive alone: that a
  thread *believes* to be inside (`locked`, `killLocked`, a program counter) says nothing unless
  belief implies ownership. `InsideOwns` says so and survives time-outs because only who acquired
  releases; `TaskMutexOwned` does the same for `_task_mutex`; `CloserWaits` ties a queued or taken
  `DBCloseTask` to a caller that waits for it; `KillNoticed` says that a kill that can still be
  noticed, or is under way, overlaps the current task: a flag left by an earlier one was reset when
  the task was taken;
- from it `LockExclusion`, `ReconnectBetweenTasks`, `TeardownUnderLock`, and the action property
  `KillOverlapsItsTarget`: `KilledOnlyIfHunted`. It does not say that a kill hits the request it was
  meant for: one that comes late hits the next, and is `hunted` because the call is still under way.

The assumptions are the named ones of `DbSession` (the two special tasks are not
requests, plugins are not named like the other threads, there is a session, SQLite
sessions are sessions, the bounds are natural numbers); TLC evaluates them in every run.

`DbSessionRefinement` proves `ImplementsLifecycle`: `SafeSpec => KeepsLifecycle`, every
step of `DbSession` is a step of `RequestLifecycle` or leaves the stages of all requests
alone. Beside `SessionInv` it needs `OnePlace`: a request is in one queue, once, or the
task of one thread, and unanswered there until the thread is about to release
(`TaskStage`, `OneThread`, `OneEntry`, `Waiting`); a cancellation names a request that was
submitted (`CancelKnown`). Without it a second thread could take the same request, execute it and
answer it again. The proof first sorts the steps (`StepCases`): those that concern no
request, and those that move one, each mapped to its action; the number of executions changes in the
steps that begin a statement only, which map to `Execute`.

`DbSessionClose_proofs` proves `CloseLosesNothing`: `LostOnlyBehindClose`. Its invariant
`NothingLost`, on top of `SessionInv` and `OnePlace`, follows a request from the queue to its answer
(`Held`: whoever asks for the next task has none, so that taking one forgets none) and the
`DBCloseTask` from its sender to the end of the thread (`ClosedBehind`: what stands behind it in the
queue, or is left there once it was taken, came behind it; a thread that ends has taken it).

`Migration_proofs` proves, of `SafeSpec`, for every plan and any bounds:

- `TypeCorrect`;
- `DependenciesBeforeStages`: `DependenciesFirst`, from the inductive invariant
  `OrderInv`. What a frame *waits for* says nothing by itself of what it does not wait
  for, so `FramesOK` speaks of the dependencies a frame has looked at (`Seen`): each is
  over or in the wait set, as long as the stage's thread is new and no stop was
  requested. Three facts make it inductive. `CallsOK`: every frame below the top is in
  its loop, at the dependency that is the frame above, so that a return adds the right
  dependency. `FinishedOK`: a finished stage is over, and its thread joined, which is why
  a second call that leaves at once starts nothing. `DumpOK`: "over" must not be undone
  (`OverStages` only grows), although `MarkStarting` overwrites the status of the dump
  after its thread may have set it; nobody looks at the dump between the two, because
  the frame that marks is the top of the stack.

For this the assumption that matters is `WatchAssumption`: no
stage with a thread depends on `watch`. It is true of the repository's plan (TLC
evaluates it), and needed, since `update` of the monitor answers whether it failed:
a stage that depended on it would start once the monitor has failed.

The other three hold of plans of the right shape, `ShapeAssumption`, and any bounds:

- `LoadedBeforeUpdates`: `LoadedFirst`, and `ReadyOnlyWhenReady`: `ReadyIsReady`. A stage that is
  disabled waits for nothing, so that its return says nothing of the work of its
  dependencies; what it does say, unless there is a stop, is that all it reaches was *started*, and that
  the load is done if its stage is behind the load and no gate itself (`Through`): one of the calls went
  through a gate, a stage whose thread starts after the load by `DependenciesFirst`
  (`CleanDeps`). `Settled` is what this becomes when the call returns, `Sound` says it of what the calls
  in progress have seen, and `Returned` of all that was started: a stage that is called again is not
  in a call (`Geometry`: the calls are nested as the plan is, which has no cycle), so it has
  settled. Congratulations is called after the monitor settled, and in a hot migration the thread of
  the monitor started after the stages Congratulations waits for (`CongratsLast`).
- `ThreadsStartOnce`: `StartedOnce`, from `OnceInv` on top of these. `ThreadedStage.start` checks only
  `__done`, so what keeps it from starting a `Thread` that is still working is that somebody waits
  for it between the first call and the second: `Waited` says that a stage with several callers is over,
  in a call, or awaited by a call in progress, and `NextIsElsewhere` that the next stage
  to be called is in no call and awaited by none. A stage with a single caller is not called again (`Used`:
  its caller is past it). The gap is a disabled caller, which forgets what it called;
  `Loose` says that this was over already. It needs `CallersWait`, and it is the reason why the theorem is
  one about plans: a stage that is called twice and waited for by no caller would be started twice.

`MessageScheduler_proofs` proves, for any requests, shells, and bounds, of `Spec`: `TypeCorrect`,
`SocketUnique`, `AlwaysRetried`, `SessionEndsWithSocket` and `AnswersFindTheirRequest`, all from one
inductive invariant `IInv`. That a live socket is the held one needs more about the held one:
`FlagMatchesSocket` (the scheduler is not disconnecting while it holds a socket) and
`HeldIsNotClosing` (a held socket is open, opening or closed, never on its way to be closed) are
what makes `onClose` arm a timer for every held socket, which is `RetryScheduled`. Commands,
processes and tokens take part in it with their types only: whatever a restart connects to,
`connect` and `disconnect` keep these facts (`HeldInv`). `InProgress` says that requests are under
way only on sockets that deliver, the held one if open, so that the slot of such a socket is not
taken again; `Accounted` ties the last response to a promise that is pending and an entry in the
map.

`WorkerPool_proofs` proves, for any tasks, queries, workers, and settings, `TypeCorrect` and
`WorkersOwned` (`OneOwner`). The inductive invariant adds `LiveMade` (the workers are those numbered
so far, so that a new one is new), `PendingOnce` (a task waits once) and `ActiveStarted` (a running
task has been started, so that one that is new or waits has no worker). The proofs about the queue
of idle workers rest on lemmas about appending to, and taking from, injective sequences.
`PoolAssumption` asks for as many workers as the initial settings create.

`WorkerPoolRefs_proofs` proves the other two invariants of the pool, `ReferencesExact` (`RefsExact`)
and `AnswersTheirOwn` (`OwnAnswer`). The count is not inductive: that it is exact now says nothing
of a message that is counted nowhere, or twice. So `Links` first says where a message can be
(`Placed`: only in the queues between the page and the worker that runs its task, which is in the
state the message was sent from), that what was not started has left no trace (`Fresh`), and then
that the count is exact for every running task (`Exact`). A worker is reused at once, so `Placed` is
what keeps a message of the script before from being counted for the next one. The lemmas about
`Count`, the number of messages of a kind in a sequence, are proved from a bijection between the
places of a concatenation and those of its parts. A query of code that nobody awaits is posted as
`floated`, and may find its task gone; any other is posted while the script goes on or before the
final message of its turn, so that its task is still there (`Told`). A script that was lost never
gives its reference back. `Callbacks` then says, of each script that is not in `Apart` (its queries
did not overlap, and none was run in a callback), that the callback in the entry is that of the only
query that can still be answered, and that each answer is on its way to it or was given to it. A
callback that throws stays in the entry, but was called already, and the next query overwrites it.

`ScriptExecution_proofs` proves, for any runs, pages, packets, results and code, `TypeCorrect`,
`NothingPassesSilently` and `HidingLosesNothing`. The types are not inductive alone: that `sub`, the
number of results a statement finished, stays within its bound depends on what the backend has sent.
`Counted` says that it is not more than that, the packet included that waits for meta data and will
be counted later; for this `Serving` ties the requests at the backend to the processes that wait for
it, and `HeldKnown` says what such a packet can be. `Replacing` keeps the id of a page that fails an
id, `PendingOwn` gives a timed result its own id, and `Marked` says that whatever is shown while the
tab is hidden or loads is to be loaded, or was cut. The rest of the argument is `ShownStays`: no
step but the end of a clear takes an id from `Shown`, whatever it moves between the result area, the
timers, the packets that wait, the ids to be loaded and those that were cut. Then `AllHeard` is
inductive: a statement counts as passed as soon as its last answer was *received* (`Passed`), since
the promise resolves later, and by then its result has a place.

`HidingLosesNothing` is `ShowsStored`. The shown and the stored copy of a result are updated by the
same steps but deleted at different awaits, so `StoreInv` says what may differ meanwhile. A result
that is done is final (`DoneIsFinal`: its statement has renewed the id, so that what it still sends
has another one), and a page is asked of a final result only, so that only pages can send more data
of that id. When a page is sent the old rows are deleted (`Cleared`), so that its first rows are
alone in the DB when they replace the shown ones; if two pages overlap, the rows of the earlier one
stand before them, which is why the rows shown are in general only the end of those stored. While a
tab loads, what has been read is still what is stored (`Copied`), and nothing stays marked for
loading when no load is due (`LoadsMarked`). A result that is stored, but neither shown nor marked,
has no rows yet (`Homeless`), so that a set that is opened for it starts in step.

Only model-checked: the liveness properties (outside the prover's reach, like all fairness and
`ENABLED`), and these invariants:

- `RowsInOrder` of `ScriptExecution`: it needs the order of the packets of a statement at the
  backend, in `held` and in every result, together with all the exceptions above.
- `SettledIsIdle` of `ScriptExecution`, whose exceptions follow three different ways into loading.

## 6. Not modelled

`PROJECT.json` names every part with the reason. In short:

- Presentation: dialogs, editors, side bars, the connection tree, the migration assistant's pages.
  This is most of the TypeScript code of the repository, and its state is what the
  user sees; actions in it are independent of each other or follow one another.
- Generated parsers, wrappers of SDKs, the frame layer of the WebSocket, formatting, logging.
- CRUD over databases: users, profiles, REST metadata, schema management. What could go wrong is in
  the statements, which are data to these models.
- The stored procedures of the asynchronous tasks: a model of them would be one of the server.
- WebSocket handler, prompts, pinger, shell sessions: small actors around the ones that are modelled. Their
  hazards are listed with the reason why no property covers them.

Abstractions inside the modelled parts, beyond those of section 3:

- `DbSession`: rows; callbacks that raise; what a statement that is executed twice does to the
  server; the attempts of a SQLite session to open a locked database when it connects first. Closing
  a session while it still connects is in the model, but `CloseReturns` is not about it.
- `Migration`: starting again after an error (`Stage.reset`, `_reset_stages`).
- `MessageScheduler`: a shell whose URL has the token of another one is a URL no shell accepts
  (`None`); a port that two processes want is a crash of one; what becomes of the URL once it is
  connected (`connectedToUrl`); the length of the back-off; key conversion; the switches `debugging`
  and `testsRunning`; the port forwarding of remote windows, which connects in the same way.
  `sendRawRequest` is `Send` with a given id.
- `ScriptExecution`: one block, so that what blocks share (the timer of the id `""`) is not seen;
  the end of a timer and the removal of its entry are one step, which are a microtask apart in the
  code; killing a query is a failure of it; MLE, chat, natural language, `\about`, graphs, disposal
  and the HeatWave trace are left out; a failing request for meta data too; one load of a tab at a
  time (the code could start a second one while the first reads); a page that fails leaves its
  result in `cut`, since the old page was deleted; an empty select has no tab after a restore
  (`Lost`).
- `WorkerPool`: what the code the script does not await does is known by its queries only, and what
  is awaited are promises of queries; `RunSqlIterative`; queries without a callback, whose rows are
  printed like those that no callback takes; disposal; a tab without a connection; turns of a script
  that no answer starts (timers); callbacks left over by a block that runs again; the length of
  `removeIdleTime`; the language worker, whose tasks are single messages.

## 7. Defects

The runs that expect a violation show the disagreements between the code and what the repository
says of itself; `PROJECT.json` quotes both sides. Others were met while modelling, about which the
repository says nothing that could be refuted; the properties except them precisely, as described in
section 4:

- pages of one result that are fetched together (`SqlQueryExecutor.ts:669`);
- a block that stays at loading behind an error after a result set, and behind a late packet;
- a command of the extension that waits for a shell which had crashed before
  (`MySQLShellLauncher.ts:342`);
- the callback of a query that is run in a callback (`console.worker.ts:277`), the query of code
  nobody awaits that comes when its task is gone (`WorkerPool.ts:250`), the worker of a script whose
  error has no place in the code (`console.worker.ts:256`) or whose query failed
  (`ConnectionTab.tsx:2153`);
- the waits of the migration on what does not look at a stop, and a lost status of the dump;
- the wait of a SQLite session whose reconnect fails while it is closed.
