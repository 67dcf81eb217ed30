----------------------------- MODULE WorkerPool -----------------------------
(***************************************************************************)
(* The pool of background workers (supplement/WorkerPool.ts) which run the *)
(* JavaScript blocks of a notebook (ConnectionTab.tsx, console.worker.ts). *)
(* A script may run queries, which the application executes for it: the    *)
(* task is retained for each of them and released when the worker took its *)
(* answer, so that the worker is given away only when nothing is left.     *)
(*                                                                         *)
(* A task is a block, hence also a context id. A worker and the page each  *)
(* run one handler at a time and send messages to each other in order.     *)
(***************************************************************************)
EXTENDS Integers, Sequences, FiniteSets, Functions

CONSTANTS
    MaxTasks,      \* bound: tasks
    MaxQueries,    \* bound: queries of all scripts together
    MaxWorkers,    \* bound: workers ever created
    Defaults,      \* the settings at the start
    Choices,       \* the settings the user may choose
    MaxChanges     \* bound: changes of a setting

Configs == [min : Nat, max : Nat, waiting : Nat]

ASSUME PoolAssumption ==
    /\ {MaxTasks, MaxQueries, MaxWorkers, MaxChanges} \subseteq Nat
    /\ Defaults \in Configs /\ Choices \subseteq Configs
    /\ 1 <= MaxWorkers /\ Defaults.min <= MaxWorkers

Tasks == 1..MaxTasks   \* taskId
Workers == 1..MaxWorkers
None == 0

VARIABLES
    \* the pool
    config,      \* the worker counts it uses and maxPendingTaskCount
    changes,
    created,     \* workers created so far
    live,        \* those that were not terminated
    idle,        \* idleWorkers
    worker,      \* runningTasks: the worker of each, or None
    refs,        \* refCount of each running task
    pending,     \* pendingTasks
    refused,     \* tasks for which scheduleTask threw an error
    started,     \* tasks a worker was found for
    \* the messages between each worker and the page
    toWorker, toPage,
    \* the scripts
    script,      \* none, waits, ended; or lost, when it threw and no one heard
    waits,       \* the queries it waits for
    slot,        \* worker.pendingRequests: the query whose callback is there
    query,       \* the state of each query
    given,       \* which callback got the answer of which query
    overlapped,  \* history: scripts that ran a query when the callback of another
                 \* was still due there
    nested       \* history: scripts that ran a query in the callback of another,
                 \* which ended with the listener removing the new callback

poolVars == <<config, changes, created, live, idle, worker, refs, pending, refused,
              started>>
scriptVars == <<script, waits, slot, given, overlapped, nested>>
vars == <<poolVars, toWorker, toPage, scriptVars, query>>

Running(t) == worker[t] # None
Active == {t \in Tasks : Running(t)}

Message(t, kind, q) == [task |-> t, kind |-> kind, query |-> q]
Finals == {"result", "done", "print"}

\* Mutant of Normal: no workers at all may be asked for.
NormalWithoutWorkers(c) ==
    LET min == IF c.min > c.max THEN c.max ELSE c.min
    IN  [c EXCEPT !.min = IF min < 1 THEN 1 ELSE min]

(* setup: the counts that are used instead of those that were set.         *)
Normal(c) ==
    LET max == IF c.max < 1 THEN 1 ELSE c.max
        min == IF c.min > max THEN max ELSE c.min
    IN  [c EXCEPT !.max = max, !.min = IF min < 1 THEN 1 ELSE min]

(* The workers that setup adds to n idle ones.                             *)
NewOnes(c, n, made) == IF n < c.min THEN [i \in 1..(c.min - n) |-> made + i] ELSE <<>>

Init ==
    /\ config = Normal(Defaults)
    /\ idle = NewOnes(config, 0, 0)
    /\ created = Len(idle)
    /\ live = Range(idle)
    /\ changes = 0
    /\ worker = [t \in Tasks |-> None]
    /\ refs = [t \in Tasks |-> 0]
    /\ pending = <<>> /\ refused = {} /\ started = {}
    /\ toWorker = [w \in Workers |-> <<>>]
    /\ toPage = [w \in Workers |-> <<>>]
    /\ script = [t \in Tasks |-> "none"]
    /\ waits = [t \in Tasks |-> {}]
    /\ slot = [t \in Tasks |-> None]
    /\ query = [t \in Tasks |-> <<>>]
    /\ given = [t \in Tasks |-> {}]
    /\ overlapped = {} /\ nested = {}

-----------------------------------------------------------------------------
(* The pool                                                                *)

(* Another value of one of the settings of the pool: setup.                *)
SettingsChanged ==
    /\ changes < MaxChanges /\ changes' = changes + 1
    /\ \E c \in Choices :
          /\ config' = Normal(c)
          /\ LET more == NewOnes(config', Len(idle), created) IN
             /\ created + Len(more) <= MaxWorkers
             /\ idle' = idle \o more
             /\ created' = created + Len(more)
             /\ live' = live \cup Range(more)
    /\ UNCHANGED <<worker, refs, pending, refused, started, toWorker, toPage,
                   scriptVars, query>>

(* The interval timer, every removeIdleTime seconds unless that is 0.      *)
RemoveIdle ==
    /\ Len(idle) > config.min
    /\ idle' = Tail(idle)
    /\ live' = live \ {Head(idle)}
    /\ toWorker' = [toWorker EXCEPT ![Head(idle)] = <<>>]
    /\ UNCHANGED <<config, changes, created, worker, refs, pending, refused, started,
                   toPage, scriptVars, query>>

Assign(t, w) ==
    /\ worker' = [worker EXCEPT ![t] = w]
    /\ refs' = [refs EXCEPT ![t] = 1]
    /\ started' = started \cup {t}
    /\ toWorker' = [toWorker EXCEPT ![w] = Append(@, Message(t, "code", None))]

(* Tasks are numbered in the order of runTask.                             *)
Known == started \cup refused \cup Range(pending)
New(t) == t \notin Known /\ 1..t - 1 \subseteq Known

(* runTask, with an idle worker, ...                                       *)
RunOnIdle(t) ==
    /\ New(t) /\ idle # <<>>
    /\ Assign(t, Head(idle))
    /\ idle' = Tail(idle)
    /\ UNCHANGED <<config, changes, created, live, pending, refused, toPage, scriptVars,
                   query>>

(* ... with a new one, ...                                                 *)
RunOnNew(t) ==
    /\ New(t) /\ idle = <<>> /\ Cardinality(Active) < config.max
    /\ created < MaxWorkers
    /\ created' = created + 1
    /\ live' = live \cup {created'}
    /\ Assign(t, created')
    /\ UNCHANGED <<config, changes, idle, pending, refused, toPage, scriptVars, query>>

(* ... or later, unless too many wait already.                             *)
RunLater(t) ==
    /\ New(t) /\ idle = <<>> /\ Cardinality(Active) >= config.max
    /\ IF Len(pending) >= config.waiting
       THEN refused' = refused \cup {t} /\ UNCHANGED pending
       ELSE pending' = Append(pending, t) /\ UNCHANGED refused
    /\ UNCHANGED <<config, changes, created, live, idle, worker, refs, started, toWorker,
                   toPage, scriptVars, query>>

\* Mutant of Release: the worker that gets the next task is idle as well.
ReleaseToBoth(t) ==
    IF ~Running(t) \/ refs[t] > 1
    THEN /\ refs' = [refs EXCEPT ![t] = IF @ = 0 THEN 0 ELSE @ - 1]
         /\ UNCHANGED <<worker, pending, started, idle, toWorker>>
    ELSE LET next == IF pending = <<>> THEN {} ELSE {Head(pending)} IN
         /\ idle' = Append(idle, worker[t])
         /\ worker' = [u \in Tasks |-> IF u = t THEN None
                                      ELSE IF u \in next THEN worker[t] ELSE worker[u]]
         /\ refs' = [u \in Tasks |-> IF u = t THEN 0 ELSE IF u \in next THEN 1 ELSE refs[u]]
         /\ started' = started \cup next
         /\ pending' = IF pending = <<>> THEN pending ELSE Tail(pending)
         /\ toWorker' = [toWorker EXCEPT ![worker[t]] = @ \o
                (IF next = {} THEN <<>> ELSE <<Message(Head(pending), "code", None)>>)]

\* Mutant of Release: the tasks that wait are forgotten.
ReleaseToIdle(t) ==
    IF ~Running(t) \/ refs[t] > 1
    THEN /\ refs' = [refs EXCEPT ![t] = IF @ = 0 THEN 0 ELSE @ - 1]
         /\ UNCHANGED <<worker, pending, started, idle, toWorker>>
    ELSE /\ idle' = Append(idle, worker[t])
         /\ worker' = [worker EXCEPT ![t] = None]
         /\ refs' = [refs EXCEPT ![t] = 0]
         /\ UNCHANGED <<pending, started, toWorker>>

(* releaseTask. The worker is told to clean up, and gets the next task or  *)
(* is idle.                                                                *)
Release(t) ==
    IF ~Running(t)
    THEN UNCHANGED <<worker, refs, pending, started, idle, toWorker>>
    ELSE IF refs[t] > 1
    THEN /\ refs' = [refs EXCEPT ![t] = @ - 1]
         /\ UNCHANGED <<worker, pending, started, idle, toWorker>>
    ELSE LET w == worker[t]
             cleanup == Message(t, "cleanup", None)
         IN  IF pending = <<>>
             THEN /\ idle' = Append(idle, w)
                  /\ worker' = [worker EXCEPT ![t] = None]
                  /\ refs' = [refs EXCEPT ![t] = 0]
                  /\ toWorker' = [toWorker EXCEPT ![w] = Append(@, cleanup)]
                  /\ UNCHANGED <<pending, started>>
             ELSE /\ worker' = [worker EXCEPT ![t] = None, ![Head(pending)] = w]
                  /\ refs' = [refs EXCEPT ![t] = 0, ![Head(pending)] = 1]
                  /\ started' = started \cup {Head(pending)}
                  /\ pending' = Tail(pending)
                  /\ toWorker' = [toWorker EXCEPT ![w] =
                         @ \o <<cleanup, Message(Head(pending), "code", None)>>]
                  /\ UNCHANGED idle

-----------------------------------------------------------------------------
(* The page                                                                *)

\* Mutant of OnQuery: the task is not retained.
OnQueryWithoutRetain(w) ==
    /\ toPage[w] # <<>> /\ Head(toPage[w]).kind = "sql"
    /\ toPage' = [toPage EXCEPT ![w] = Tail(@)]
    /\ LET m == Head(toPage[w]) IN query' = [query EXCEPT ![m.task][m.query] = "running"]
    /\ UNCHANGED <<poolVars, toWorker, scriptVars>>

(* handleWorkerMessage, for a query: it is executed and retains the task.  *)
OnQuery(w) ==
    /\ toPage[w] # <<>> /\ Head(toPage[w]).kind = "sql"
    /\ toPage' = [toPage EXCEPT ![w] = Tail(@)]
    /\ LET m == Head(toPage[w]) IN
       IF Running(m.task)
       THEN /\ refs' = [refs EXCEPT ![m.task] = @ + 1]
            /\ query' = [query EXCEPT ![m.task][m.query] = "running"]
       ELSE UNCHANGED <<refs, query>>
    /\ UNCHANGED <<config, changes, created, live, idle, worker, pending, refused,
                   started, toWorker, scriptVars>>

(* ... for a final message: the task is released.                          *)
OnFinal(w) ==
    /\ toPage[w] # <<>> /\ Head(toPage[w]).kind \in Finals
    /\ toPage' = [toPage EXCEPT ![w] = Tail(@)]
    /\ Release(Head(toPage[w]).task)
    /\ UNCHANGED <<config, changes, created, live, refused, scriptVars, query>>

(* The query is done: continueTask sends the rows to the worker.           *)
Answer(t, q) ==
    /\ query[t][q] = "running"
    /\ query' = [query EXCEPT ![t][q] = "answered"]
    /\ toWorker' = IF Running(t)
                   THEN [toWorker EXCEPT ![worker[t]] = Append(@, Message(t, "rows", q))]
                   ELSE toWorker
    /\ UNCHANGED <<poolVars, toPage, scriptVars>>

(* It failed: the error is shown, the worker is told nothing.              *)
FailQuery(t, q) ==
    /\ query[t][q] = "running"
    /\ query' = [query EXCEPT ![t][q] = "failed"]
    /\ Release(t)
    /\ UNCHANGED <<config, changes, created, live, refused, toPage, scriptVars>>

-----------------------------------------------------------------------------
(* The worker                                                              *)

Received(w) == toWorker' = [toWorker EXCEPT ![w] = Tail(@)]

(* The script runs n more queries. Their callbacks share one place. Those  *)
(* of code which the script does not wait for are told from the others.    *)
Used(t) == Len(query[t])
Free == 0 .. MaxQueries - Cardinality({p \in Tasks \X (1..MaxQueries) : p[2] <= Used(p[1])})
Sqls(t, n) == [i \in 1..n |-> Message(t, "sql", Used(t) + i)]
Post(t, n, how) == query' = [query EXCEPT ![t] = @ \o [i \in 1..n |-> how]]
CallbackAt(t, n, place) == slot' = [slot EXCEPT ![t] = IF n > 0 THEN Used(t) + n ELSE place]

(* History: a callback is overwritten before it got an answer. The place   *)
(* may hold one that was called, or whose query failed.                    *)
Due(t) == slot[t] # None /\ query[t][slot[t]] # "failed" /\ \A pair \in given'[t] : pair[1] # slot[t]
Overlap(t, n) ==
    overlapped' = IF n > 1 \/ (n = 1 /\ Due(t)) THEN overlapped \cup {t} ELSE overlapped

\* Mutant of RunScript: what runs on removes the callback of its own query.
RunScriptThenDelete(t, w, n, awaited, first) ==
    /\ awaited \subseteq Used(t) + 1 .. Used(t) + n
    /\ Post(t, n, "posted") /\ Overlap(t, n)
    /\ CallbackAt(t, IF first = <<>> THEN n ELSE 0, None)
    /\ waits' = [waits EXCEPT ![t] = (@ \ {slot[t]}) \cup awaited]
    /\ script' = [script EXCEPT ![t] = IF waits'[t] = {} THEN "ended" ELSE "waits"]
    /\ toPage' = [toPage EXCEPT ![w] = @ \o first \o Sqls(t, n) \o
                     (IF waits'[t] = {} THEN <<Message(t, "result", None)>> ELSE <<>>)]

(* It runs until it waits for some of them, or to its end. When it throws  *)
(* an error without a place in the code (of the syntax, say), the handler  *)
(* throws as well and nothing is sent.                                     *)
RunScript(t, w, n, awaited, first) ==
    /\ awaited \subseteq Used(t) + 1 .. Used(t) + n
    /\ Post(t, n, "posted") /\ Overlap(t, n)
    /\ CallbackAt(t, n, None)
    /\ waits' = [waits EXCEPT ![t] = (@ \ {slot[t]}) \cup awaited]
    /\ \E state \in IF waits'[t] = {} THEN {"ended", "lost"} ELSE {"waits"} :
          /\ script' = [script EXCEPT ![t] = state]
          /\ toPage' = [toPage EXCEPT ![w] = @ \o first \o Sqls(t, n) \o
                 (IF state = "ended" THEN <<Message(t, "result", None)>> ELSE <<>>)]

(* The message listener of the worker, for the code of a task ...          *)
OnCode(w) ==
    /\ toWorker[w] # <<>> /\ Head(toWorker[w]).kind = "code"
    /\ Received(w)
    /\ LET t == Head(toWorker[w]).task IN
       \E n \in Free : \E awaited \in SUBSET (Used(t) + 1 .. Used(t) + n) :
          RunScript(t, w, n, awaited, <<>>)
    /\ UNCHANGED <<poolVars, given, nested>>

(* ... for rows that a callback takes ...                                  *)
Called(w) ==
    /\ toWorker[w] # <<>> /\ Head(toWorker[w]).kind = "rows"
    /\ Received(w)
    /\ LET m == Head(toWorker[w]) IN
       given' = [given EXCEPT ![m.task] = @ \cup {<<slot[m.task], m.query>>}]

(* ... which resolves the promise of a query the script waits for: the     *)
(* listener removes the callback, and after it the script goes on, ...     *)
OnAwaited(w) ==
    /\ Called(w)
    /\ LET t == Head(toWorker[w]).task IN
       /\ slot[t] \in waits[t]
       /\ \E n \in Free : \E awaited \in SUBSET (Used(t) + 1 .. Used(t) + n) :
             RunScript(t, w, n, awaited, <<Message(t, "done", None)>>)
    /\ UNCHANGED <<poolVars, nested>>

(* ... or of one that only other code waits for, which then goes on when   *)
(* the listener sent its last message, ...                                 *)
OnFloating(w) ==
    /\ Called(w)
    /\ LET t == Head(toWorker[w]).task IN
       /\ slot[t] # None /\ slot[t] \notin waits[t]
       /\ \E n \in Free :
             /\ Post(t, n, "floated") /\ Overlap(t, n) /\ CallbackAt(t, n, None)
             /\ toPage' = [toPage EXCEPT ![w] =
                              @ \o <<Message(t, "done", None)>> \o Sqls(t, n)]
    /\ UNCHANGED <<poolVars, script, waits, nested>>

(* ... or a function, which runs more queries at once; the listener then   *)
(* removes whatever callback is there, ...                                 *)
OnCallback(w) ==
    /\ Called(w)
    /\ LET t == Head(toWorker[w]).task IN
       /\ slot[t] # None /\ slot[t] \notin waits[t]
       /\ \E n \in Free :
             /\ Post(t, n, "posted") /\ Overlap(t, n) /\ CallbackAt(t, 0, None)
             /\ nested' = IF n > 0 THEN nested \cup {t} ELSE nested
             /\ toPage' = [toPage EXCEPT ![w] =
                              @ \o Sqls(t, n) \o <<Message(t, "done", None)>>]
    /\ UNCHANGED <<poolVars, script, waits>>

(* ... unless the function throws: the listener for errors then tells, and *)
(* the callback that is there stays, ...                                   *)
OnThrow(w) ==
    /\ Called(w)
    /\ LET t == Head(toWorker[w]).task IN
       /\ slot[t] # None /\ slot[t] \notin waits[t]
       /\ \E n \in Free :
             /\ Post(t, n, "posted") /\ Overlap(t, n) /\ CallbackAt(t, n, slot[t])
             /\ toPage' = [toPage EXCEPT ![w] =
                              @ \o Sqls(t, n) \o <<Message(t, "result", None)>>]
    /\ UNCHANGED <<poolVars, script, waits, nested>>

(* ... for rows that no callback takes, which are printed, ...             *)
OnRows(w) ==
    /\ toWorker[w] # <<>> /\ Head(toWorker[w]).kind = "rows"
    /\ Received(w)
    /\ LET t == Head(toWorker[w]).task IN
       /\ slot[t] = None
       /\ toPage' = [toPage EXCEPT ![w] = Append(@, Message(t, "print", None))]
    /\ UNCHANGED <<poolVars, scriptVars, query>>

(* ... and for the message to clean up, which it ignores.                  *)
OnCleanup(w) ==
    /\ toWorker[w] # <<>> /\ Head(toWorker[w]).kind = "cleanup"
    /\ Received(w)
    /\ UNCHANGED <<poolVars, toPage, scriptVars, query>>

-----------------------------------------------------------------------------
PageStep(w) == OnQuery(w) \/ OnFinal(w)
WorkerStep(w) ==
    OnCode(w) \/ OnAwaited(w) \/ OnFloating(w) \/ OnCallback(w) \/ OnThrow(w) \/ OnRows(w)
    \/ OnCleanup(w)
QueryEnds(t) == \E q \in 1..Used(t) : Answer(t, q) \/ FailQuery(t, q)

Next ==
    \/ SettingsChanged \/ RemoveIdle
    \/ \E t \in Tasks : RunOnIdle(t) \/ RunOnNew(t) \/ RunLater(t) \/ QueryEnds(t)
    \/ \E w \in Workers : PageStep(w) \/ WorkerStep(w)

(* Messages arrive, queries end and scripts run on; the user is free.      *)
Fairness ==
    /\ \A w \in Workers : WF_vars(PageStep(w)) /\ WF_vars(WorkerStep(w))
    /\ \A t \in Tasks : WF_vars(QueryEnds(t))

Spec == Init /\ [][Next]_vars /\ Fairness

-----------------------------------------------------------------------------
(* Properties                                                              *)

Messages(kinds) == [task : Tasks, kind : kinds, query : Nat]

TypeOK ==
    /\ config \in Configs /\ 1 <= config.min /\ config.min <= config.max
    /\ changes \in 0..MaxChanges
    /\ created \in 0..MaxWorkers /\ live \subseteq Workers
    /\ idle \in Seq(Workers)
    /\ worker \in [Tasks -> {None} \cup Workers]
    /\ refs \in [Tasks -> Nat]
    /\ pending \in Seq(Tasks)
    /\ refused \subseteq Tasks /\ started \subseteq Tasks
    /\ toWorker \in [Workers -> Seq(Messages({"code", "rows", "cleanup"}))]
    /\ toPage \in [Workers -> Seq(Messages({"sql"} \cup Finals))]
    /\ script \in [Tasks -> {"none", "waits", "ended", "lost"}]
    /\ waits \in [Tasks -> SUBSET Nat]
    /\ slot \in [Tasks -> Nat]
    /\ query \in [Tasks -> Seq({"posted", "floated", "running", "answered", "failed"})]
    /\ given \in [Tasks -> SUBSET (Nat \X Nat)]
    /\ overlapped \subseteq Tasks /\ nested \subseteq Tasks

(* Whatever tasks, settings and the timer do, a worker is either idle, once,*)
(* or has one running task: no worker runs two scripts, none is lost and    *)
(* none that was terminated gets a task. A task that waits has no worker.   *)
OneOwner ==
    /\ IsInjective(idle)
    /\ \A t, u \in Active : worker[t] = worker[u] => t = u
    /\ \A t \in Active : worker[t] \notin Range(idle)
    /\ live = Range(idle) \cup {worker[t] : t \in Active}
    /\ Active \cap Range(pending) = {}

(* The messages of a task which hold a reference.                          *)
InFlight(t) ==
    LET Held(s, kinds) == Cardinality({i \in DOMAIN s : s[i].task = t /\ s[i].kind \in kinds})
    IN  IF Running(t) THEN Held(toWorker[worker[t]], {"rows"})
                           + Held(toPage[worker[t]], Finals)
        ELSE 0

(* A task is released exactly when nothing is left of it: the script, a    *)
(* query, an answer on its way or a message about it holds one reference   *)
(* each. A worker is not given to the next script before, and is not kept  *)
(* longer. Only code that the script does not wait for can have queries    *)
(* left, which come too late and are dropped; a script that was lost has   *)
(* its reference for ever.                                                 *)
RefsExact ==
    \A t \in started :
       IF Running(t)
       THEN refs[t] = (IF script[t] = "ended" THEN 0 ELSE 1) + InFlight(t)
                      + Cardinality({q \in DOMAIN query[t] : query[t][q] = "running"})
       ELSE /\ script[t] = "ended"
            /\ \A q \in DOMAIN query[t] : query[t][q] \in {"answered", "failed", "floated"}

(* A script that runs one query at a time, each when the callback of the   *)
(* one before is over, gets each answer by the callback of its query.      *)
OwnAnswer ==
    \A t \in started \ (overlapped \cup nested) :
       /\ \A pair \in given[t] : pair[1] = pair[2]
       /\ ~Running(t) =>
             \A q \in DOMAIN query[t] : query[t][q] = "answered" => <<q, q>> \in given[t]

(* A task that waits for a worker gets one, unless a script waits for a    *)
(* query that failed or whose callback was overwritten, or threw an error  *)
(* that was lost.                                                          *)
Drains ==
    \A t \in Tasks :
       t \in Range(pending) ~>
          \/ t \in started
          \/ \E u \in Tasks :
                u \in overlapped \/ script[u] = "lost" \/ "failed" \in Range(query[u])

(* The number of active workers keeps the maximum that is set.             *)
ActiveBounded == Cardinality(Active) <= config.max
=============================================================================
