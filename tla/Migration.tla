------------------------------ MODULE Migration -----------------------------
(* The execution of a migration plan: the stages of                          *)
(* migration_plugin/lib/backend/stage.py and their subclasses, the thread of *)
(* the Orchestrator, and the abort of the work step.                         *)
(*                                                                           *)
(* One thread walks the plan depth first: Stage.start calls start of every   *)
(* dependency and then, if the stage is enabled, polls those that are not    *)
(* finished until each is done.  A ThreadedStage goes on by starting a       *)
(* thread of its own for its work.  The calls in progress are a stack of     *)
(* frames.  The model begins when the orchestrator thread has reported that  *)
(* the work is in progress.                                                  *)
EXTENDS Naturals, Sequences, FiniteSets

CONSTANTS
  Stages, Threaded,                   \* all stages, and the ThreadedStages
  Root, Dump, Load, Watch, Tunnel,    \* the stages with methods of their own
  Congrats,
  Updates,                            \* stages that update the DB System
  Plans,                              \* [deps, enabled, hot, local] records
  MaxRetries,                         \* bound: retries of a failed dump
  MaxFailures,                        \* bound: stages that fail on their own
  Lingering,                          \* bound: stages whose thread may be alive
                                      \* for a while after its work
  Late                                \* bound: stages whose thread is followed
                                      \* when it was started after a stop

VARIABLES
  plan,          \* of the project
  \* the orchestrator thread
  orch,          \* it runs, or has ended
  stack,         \* its calls of start, the innermost one last
  started,       \* stages whose __started is set
  finished,      \* stages whose __finished is set
  stopped,       \* Orchestrator.stopped
  status,        \* the status of the work step
  aborter,       \* the call of work_abort
  \* the stages' threads
  thread,        \* the Thread object of a stage
  done,          \* ThreadedStages whose __done is set
  fatal,         \* _fatal_error
  dump,          \* DumpStage._status
  dumping,       \* what the thread of the dump does
  dumper,        \* the dumper it chose
  retries,
  expected,      \* the state of the dump the load waits for
  loading,       \* the remote load runs
  monitorFailed, \* MonitorChannel._failed
  \* history
  clean          \* stages whose thread was started with no stop requested

calls == <<orch, stack, started, finished, stopped, status, aborter>>
dumpVars == <<dump, dumping, dumper, retries>>
loadVars == <<expected, loading>>
work == <<thread, done, fatal, dumpVars, loadVars, monitorFailed, clean>>
vars == <<plan, calls, work>>

Deps(s) == plan.deps[s]
DepSet(s) == {Deps(s)[i] : i \in DOMAIN Deps(s)}
Enabled(s) == s \in plan.enabled

ASSUME StageAssumption ==
  /\ Threaded \subseteq Stages
  /\ {Dump, Load, Watch} \subseteq Threaded
  /\ {Root, Tunnel, Congrats} \subseteq Stages \ Threaded
  /\ Root \notin {Tunnel, Congrats} /\ Tunnel # Congrats
  /\ Dump \notin {Load, Watch} /\ Load # Watch
ASSUME PlanAssumption ==
  Plans \subseteq [deps : [Stages -> Seq(Stages)], enabled : SUBSET Stages,
                   hot : BOOLEAN, local : BOOLEAN]
\* Nothing with a thread of its own waits for the monitor, which has no end.
ASSUME WatchAssumption ==
  \A p \in Plans, s \in Threaded : \A i \in DOMAIN p.deps[s] : p.deps[s][i] # Watch

(* The shape of a plan, as the Orchestrator builds it.  No action looks at it:  *)
(* it is what keeps the calls of start, which are nested and repeated, from     *)
(* starting a thread too early or twice.                                        *)

\* The dependencies of the stages of R are in R.
Closed(p, R) == \A s \in R : \A i \in DOMAIN p.deps[s] : p.deps[s][i] \in R

\* A call of start of d gets to s.
Reaches(p, d, s) == \A R \in SUBSET Stages : d \in R /\ Closed(p, R) => s \in R

\* Only one call of start of s is in the code.
CalledOnce(p, s) ==
  \A c, e \in Stages : \A i \in DOMAIN p.deps[c], j \in DOMAIN p.deps[e] :
    p.deps[c][i] = s /\ p.deps[e][j] = s => c = e /\ i = j

\* A stage does not depend on itself, and none of its dependencies is reached
\* again from a later one.
InDepthOnce(p) ==
  \A s \in Stages : \A i \in DOMAIN p.deps[s] :
    \E R \in SUBSET (Stages \ ({s} \cup {p.deps[s][j] : j \in 1 .. i - 1})) :
      p.deps[s][i] \in R /\ Closed(p, R)

\* Every update, and the monitor, leads to a stage that waits for the load: each
\* stage of B does, or has a dependency in B.
LeadToLoad(p, B) ==
  /\ (Updates \cap p.enabled) \cup {Watch} \subseteq B
  /\ \A s \in B : \/ \E i \in DOMAIN p.deps[s] : p.deps[s][i] \in B
                 \/ /\ s \in Threaded \cap p.enabled
                    /\ \E i \in DOMAIN p.deps[s] : p.deps[s][i] = Load

BehindLoad(p) == Load \in p.enabled /\ \E B \in SUBSET Stages : LeadToLoad(p, B)

\* Congratulations comes after the monitor, which waits for the same stages.
BehindWatch(p) ==
  /\ \A s \in Stages : \A i \in DOMAIN p.deps[s] :
       p.deps[s][i] = Congrats => \E j \in 1 .. i - 1 : p.deps[s][j] = Watch
  /\ p.hot => /\ Watch \in p.enabled
              /\ \A i \in DOMAIN p.deps[Congrats] :
                   /\ p.deps[Congrats][i] \in (Threaded \ {Dump}) \cap p.enabled
                   /\ \E j \in DOMAIN p.deps[Watch] : p.deps[Watch][j] = p.deps[Congrats][i]

\* A disabled stage does not wait for what it calls: nobody else calls that, or
\* somebody did before.
CallersWait(p) ==
  /\ Root \in p.enabled /\ CalledOnce(p, Watch)
  /\ \A c \in Stages \ p.enabled : \A i \in DOMAIN p.deps[c] :
       p.deps[c][i] \in (Threaded \cap p.enabled) \ {Dump, Load} =>
         \/ CalledOnce(p, p.deps[c][i])
         \/ \A b \in Stages : \A k \in DOMAIN p.deps[b] :
              p.deps[b][k] = c =>
                \E j \in 1 .. k - 1 : Reaches(p, p.deps[b][j], p.deps[c][i])

ASSUME ShapeAssumption ==
  \A p \in Plans : InDepthOnce(p) /\ BehindLoad(p) /\ BehindWatch(p) /\ CallersWait(p)

ASSUME BoundAssumption ==
  /\ MaxRetries \in Nat /\ MaxFailures \in Nat
  /\ Lingering \subseteq Threaded /\ Late \subseteq Threaded

Frame(s) == [stage |-> s, mode |-> "loop", next |-> 1, wait |-> {}]

Modes == {"loop", "wait", "again", "leave", "mark", "run"}

Frames == [stage : Stages, mode : Modes, next : Nat \ {0}, wait : SUBSET Stages]

CallsTyped ==
  /\ orch \in {"runs", "ended"}
  /\ stack \in Seq(Frames)
  /\ started \subseteq Stages /\ finished \subseteq Stages
  /\ stopped \in BOOLEAN
  /\ status \in {"in progress", "ready", "finished", "error"}
  /\ aborter \in {"idle", "joins", "returned", "raised"}

ThreadsTyped ==
  /\ thread \in [Threaded -> {"new", "alive", "exiting", "dead", "joined"}]
  /\ done \subseteq Threaded /\ clean \subseteq Threaded
  /\ fatal \in [Threaded -> {"none", "aborted", "error"}]
  /\ monitorFailed \in BOOLEAN

DumpTyped ==
  /\ dump \in {"ready", "starting", "data", "done", "error"}
  /\ dumping \in {"begins", "runs", "done", "error"}
  /\ dumper \in {"none", "local", "remote"}
  /\ retries \in 0 .. MaxRetries

LoadTyped == expected \in {"none", "data", "done"} /\ loading \in BOOLEAN

TypeOK == plan \in Plans /\ CallsTyped /\ ThreadsTyped /\ DumpTyped /\ LoadTyped

Init ==
  /\ plan \in Plans
  /\ orch = "runs" /\ stack = <<Frame(Root)>>
  /\ started = {Root} /\ finished = {}
  /\ stopped = FALSE /\ status = "in progress" /\ aborter = "idle"
  /\ thread = [s \in Threaded |-> "new"]
  /\ done = {} /\ clean = {}
  /\ fatal = [s \in Threaded |-> "none"]
  /\ dump = "ready" /\ dumping = "begins" /\ dumper = "none" /\ retries = 0
  /\ expected = "none" /\ loading = FALSE /\ monitorFailed = FALSE
-----------------------------------------------------------------------------
(* The orchestrator thread *)

Top == stack[Len(stack)]

At(mode) == stack # <<>> /\ Top.mode = mode

Become(f) == stack' = [stack EXCEPT ![Len(stack)] = f]

\* Mutant of Called: the list of what to wait for is made anew for each dependency.
CalledKeepsLast(f, d) ==
  [f EXCEPT !.next = @ + 1,
            !.wait = IF d \notin finished /\ Enabled(f.stage) THEN {d} ELSE {}]

\* What start of f does when the call of start of its dependency d returned.
Called(f, d) ==
  [f EXCEPT !.next = @ + 1,
            !.wait = IF d \notin finished /\ Enabled(f.stage) THEN @ \cup {d} ELSE @]

\* start of the innermost stage returns to its caller.
Return ==
  LET n == Len(stack) - 1
  IN stack' = [i \in 1 .. n |-> IF i = n THEN Called(stack[n], Top.stage) ELSE stack[i]]

\* An exception leaves every call of start, and do_work reports it.
Raise ==
  /\ stack' = <<>>
  /\ orch' = "ended" /\ status' = "error"

\* Mutant of CallDependency: the stop is not looked at between dependencies.
CallWhenStopped ==
  /\ At("loop") /\ Top.next <= Len(Deps(Top.stage))
  /\ LET d == Deps(Top.stage)[Top.next]
     IN /\ d \notin started
        /\ started' = started \cup {d}
        /\ stack' = Append(stack, Frame(d))
  /\ UNCHANGED <<plan, orch, finished, stopped, status, aborter, work>>

\* The first call of start of a dependency.
CallDependency ==
  /\ At("loop") /\ Top.next <= Len(Deps(Top.stage)) /\ ~stopped
  /\ LET d == Deps(Top.stage)[Top.next]
     IN /\ d \notin started
        /\ started' = started \cup {d}
        /\ stack' = Append(stack, Frame(d))
  /\ UNCHANGED <<plan, orch, finished, stopped, status, aborter, work>>

\* A later one: the dump and the load return at once, another stage waits again
\* for the dependencies that are enabled and not finished, unless it is finished.
CallAgain ==
  /\ At("loop") /\ Top.next <= Len(Deps(Top.stage)) /\ ~stopped
  /\ LET d == Deps(Top.stage)[Top.next]
         left == {x \in DepSet(d) : x \notin finished /\ Enabled(x)}
         frame == IF d \in finished THEN [Frame(d) EXCEPT !.mode = "leave"]
                  ELSE [Frame(d) EXCEPT !.mode = "again", !.wait = left]
     IN /\ d \in started
        /\ IF d \in {Dump, Load} THEN Become(Called(Top, d))
           ELSE stack' = Append(stack, frame)
  /\ UNCHANGED <<plan, orch, started, finished, stopped, status, aborter, work>>

\* "canceling stage execution": the rest of the dependencies is not called and
\* Stage.start returns False, which only Root.run looks at.
Cancel ==
  /\ At("loop") /\ Top.next <= Len(Deps(Top.stage)) /\ stopped
  /\ IF Top.stage = Root
     THEN stack' = <<>> /\ orch' = "ended" /\ status' = "finished"
     ELSE Become([Top EXCEPT !.mode = "leave"]) /\ UNCHANGED <<orch, status>>
  /\ UNCHANGED <<plan, started, finished, stopped, aborter, work>>

\* Mutant of LoopOver: the dependencies are waited for after a stop only.
LoopOverInverted ==
  /\ At("loop") /\ Top.next > Len(Deps(Top.stage))
  /\ Become([Top EXCEPT !.mode = IF Top.wait # {} /\ stopped THEN "wait" ELSE "leave"])
  /\ UNCHANGED <<plan, orch, started, finished, stopped, status, aborter, work>>

LoopOver ==
  /\ At("loop") /\ Top.next > Len(Deps(Top.stage))
  /\ Become([Top EXCEPT !.mode = IF Top.wait # {} /\ ~stopped THEN "wait" ELSE "leave"])
  /\ UNCHANGED <<plan, orch, started, finished, stopped, status, aborter, work>>

\* Mutant of Updated: a stage is done when its thread is.
UpdatedWhenGone(d) ==
  CASE d = Dump -> dump \in {"done", "error"}
    [] d = Watch -> monitorFailed
    [] d \in Threaded \ {Dump, Watch} -> thread[d] # "alive"
    [] OTHER -> d # Tunnel \/ ~Enabled(Tunnel)

\* update of a dependency that is waited for.
Updated(d) ==
  CASE d = Dump -> dump \in {"done", "error"}
    [] d = Watch -> monitorFailed
    [] d \in Threaded \ {Dump, Watch} -> d \in done /\ fatal[d] = "none"
    [] OTHER -> d # Tunnel \/ ~Enabled(Tunnel)

Waiting == stack # <<>> /\ Top.mode \in {"wait", "again", "run"}

\* finish: a thread that is still alive is joined and forgotten, and only then
\* the stage counts as finished.
Finish(d) ==
  /\ Become([Top EXCEPT !.wait = @ \ {d}])
  /\ IF d \in Threaded
     THEN /\ thread[d] # "alive"
          /\ finished' = IF thread[d] = "exiting" THEN finished \cup {d} ELSE finished
          /\ thread' = [thread EXCEPT ![d] = IF @ = "exiting" THEN "joined" ELSE @]
     ELSE finished' = finished \cup {d} /\ UNCHANGED thread
  /\ UNCHANGED <<plan, orch, started, stopped, status, aborter, done, fatal,
                 dumpVars, loadVars, monitorFailed, clean>>

Poll == Waiting /\ \E d \in Top.wait : Updated(d) /\ Finish(d)

\* check_tunnel succeeds: somebody opened the tunnel and it can be used.
TunnelWorks == Waiting /\ Tunnel \in Top.wait /\ Enabled(Tunnel) /\ Finish(Tunnel)

Polled(d) == d \in Threaded \ {Dump, Watch}

\* Mutant of PollAborted: what was aborted is polled again.
PollAbortedAgain ==
  /\ Waiting
  /\ \E d \in Top.wait : Polled(d) /\ fatal[d] = "aborted"
  /\ UNCHANGED vars

PollAborted ==
  /\ Waiting
  /\ \E d \in Top.wait : /\ Polled(d) /\ fatal[d] = "aborted"
                         /\ Become([Top EXCEPT !.wait = @ \ {d}])
  /\ UNCHANGED <<plan, orch, started, finished, stopped, status, aborter, work>>

PollFailed ==
  /\ Waiting
  /\ \E d \in Top.wait : Polled(d) /\ fatal[d] = "error"
  /\ Raise /\ stopped' = TRUE
  /\ UNCHANGED <<plan, started, finished, aborter, work>>

\* The end of wait_dependencies.  For Root.run it is the end of the work.
WaitOver ==
  /\ Waiting /\ Top.wait = {}
  /\ IF stopped THEN Raise /\ UNCHANGED finished
     ELSE IF Top.mode = "run"
     THEN /\ finished' = finished \cup {Root}
          /\ stack' = <<>> /\ orch' = "ended" /\ status' = "finished"
     ELSE Become([Top EXCEPT !.mode = "leave"]) /\ UNCHANGED <<orch, status, finished>>
  /\ UNCHANGED <<plan, started, stopped, aborter, work>>

\* Root.run waits once more for all its dependencies.
LeaveRoot ==
  /\ At("leave") /\ Top.stage = Root
  /\ Become([Top EXCEPT !.mode = "run", !.wait = DepSet(Root)])
  /\ UNCHANGED <<plan, orch, started, finished, stopped, status, aborter, work>>

\* A plain stage.  Congratulations reports that the migration is ready.
LeavePlain ==
  /\ At("leave") /\ Top.stage \notin Threaded \cup {Root}
  /\ Return
  /\ status' = IF Top.stage = Congrats THEN "ready" ELSE status
  /\ UNCHANGED <<plan, orch, started, finished, stopped, aborter, work>>

\* The built-in tunnel cannot be started.
TunnelFails ==
  /\ At("leave") /\ Top.stage = Tunnel /\ Enabled(Tunnel) /\ plan.local
  /\ Raise
  /\ UNCHANGED <<plan, started, finished, stopped, aborter, work>>

\* Mutant of Skip: a disabled stage is not marked as done.
SkipUnmarked ==
  /\ At("leave") /\ Top.stage \in Threaded
  /\ thread[Top.stage] # "joined"
  /\ ~Enabled(Top.stage) \/ Top.stage \in done
  /\ Return
  /\ UNCHANGED <<plan, orch, started, finished, stopped, status, aborter, work>>

\* ThreadedStage.start after Stage.start: the thread of a stage that is disabled
\* or done is not started.
Skip ==
  /\ At("leave") /\ Top.stage \in Threaded
  /\ thread[Top.stage] # "joined"
  /\ ~Enabled(Top.stage) \/ Top.stage \in done
  /\ done' = done \cup {Top.stage}
  /\ Return
  /\ UNCHANGED <<plan, orch, started, finished, stopped, status, aborter,
                 thread, fatal, dumpVars, loadVars, monitorFailed, clean>>

\* DumpStage.start goes on after it started the thread.
StartThread ==
  /\ At("leave") /\ Top.stage \in Threaded
  /\ thread[Top.stage] = "new"
  /\ Enabled(Top.stage) /\ Top.stage \notin done
  /\ thread' = [thread EXCEPT ![Top.stage] = "alive"]
  /\ clean' = IF stopped THEN clean ELSE clean \cup {Top.stage}
  /\ IF Top.stage = Dump THEN Become([Top EXCEPT !.mode = "mark"]) ELSE Return
  /\ UNCHANGED <<plan, orch, started, finished, stopped, status, aborter, done,
                 fatal, dumpVars, loadVars, monitorFailed>>

MarkStarting ==
  /\ At("mark") /\ dump' = "starting" /\ Return
  /\ UNCHANGED <<plan, orch, started, finished, stopped, status, aborter, thread,
                 done, fatal, dumping, dumper, retries, loadVars, monitorFailed, clean>>

\* Called again, a stage whose thread was joined fails assert self._thread, and
\* one whose work is not done would start the same Thread once more.
CannotStart(s) ==
  \/ thread[s] = "joined"
  \/ thread[s] # "new" /\ Enabled(s) /\ s \notin done

StartFails ==
  /\ At("leave") /\ Top.stage \in Threaded /\ CannotStart(Top.stage)
  /\ Raise
  /\ UNCHANGED <<plan, started, finished, stopped, aborter, work>>

Orchestrate ==
  \/ CallDependency \/ CallAgain \/ Cancel \/ LoopOver
  \/ Poll \/ PollAborted \/ PollFailed \/ WaitOver
  \/ LeaveRoot \/ LeavePlain \/ TunnelFails \/ Skip \/ StartThread
  \/ MarkStarting \/ StartFails
-----------------------------------------------------------------------------
(* The threads of the stages.  Aborted is raised only after a stop.          *)

MayFail == Cardinality({s \in Threaded : fatal[s] = "error"}) < MaxFailures

\* safe_work.  The thread is alive for some time after it has set __done.
Ends(s, error) ==
  /\ thread[s] = "alive"
  /\ thread' = [thread EXCEPT ![s] = IF s \in Lingering THEN "exiting" ELSE "dead"]
  /\ done' = IF error = "none" THEN done \cup {s} ELSE done
  /\ fatal' = [fatal EXCEPT ![s] = error]
  /\ monitorFailed' = (monitorFailed \/ (s = Watch /\ error # "none"))
  /\ UNCHANGED <<plan, calls, dumpVars, loadVars, clean>>

\* The monitor of the channel loops until it is stopped.
WorkDone(s) ==
  /\ s \notin {Dump, Load}
  /\ s = Watch => stopped
  /\ Ends(s, "none")

WorkFails(s) == s \notin {Dump, Load} /\ MayFail /\ Ends(s, "error")

WorkAborts(s) == s \notin {Dump, Load} /\ stopped /\ Ends(s, "aborted")

\* The jump host makes the dump if it can connect to the source, else this host.
\* No dump that is there already is used.
FindDump ==
  /\ thread[Dump] = "alive" /\ dumping = "begins"
  /\ dumper' \in {"local", "remote"} /\ dumping' = "runs"
  /\ UNCHANGED <<plan, calls, thread, done, fatal, dump, retries, loadVars,
                 monitorFailed, clean>>

DumpData ==
  /\ thread[Dump] = "alive" /\ dumping = "runs" /\ dump \in {"ready", "starting"}
  /\ dump' = "data"
  /\ UNCHANGED <<plan, calls, thread, done, fatal, dumping, dumper, retries,
                 loadVars, monitorFailed, clean>>

\* Mutant of RetryDump: the attempts are not counted against the limit.
RetryDumpForever ==
  /\ thread[Dump] = "alive" /\ dumping = "runs" /\ retries <= MaxRetries
  /\ dump' = "starting" /\ retries' = retries + 1
  /\ UNCHANGED <<plan, calls, thread, done, fatal, dumping, dumper, loadVars,
                 monitorFailed, clean>>

\* The partial dump is deleted and another one begins.
RetryDump ==
  /\ thread[Dump] = "alive" /\ dumping = "runs" /\ retries < MaxRetries
  /\ dump' = "starting" /\ retries' = retries + 1
  /\ UNCHANGED <<plan, calls, thread, done, fatal, dumping, dumper, loadVars,
                 monitorFailed, clean>>

DumpSucceeds ==
  /\ thread[Dump] = "alive" /\ dumping = "runs"
  /\ dump' = "done" /\ dumping' = "done"
  /\ UNCHANGED <<plan, calls, thread, done, fatal, dumper, retries, loadVars,
                 monitorFailed, clean>>

DumpErrs ==
  /\ thread[Dump] = "alive" /\ dumping \in {"begins", "runs"} /\ MayFail
  /\ dump' = "error" /\ dumping' = "error"
  /\ UNCHANGED <<plan, calls, thread, done, fatal, dumper, retries, loadVars,
                 monitorFailed, clean>>

DumpEnds ==
  \/ dumping = "done" /\ Ends(Dump, "none")
  \/ dumping = "error" /\ Ends(Dump, "error")

\* An exception of the connection to the jump host leaves the status as it is.
DumpDies ==
  /\ dumping \in {"begins", "runs"}
  /\ \/ MayFail /\ Ends(Dump, "error")
     \/ stopped /\ Ends(Dump, "aborted")

\* The load chooses what it waits for when its thread begins.
LoadChecks ==
  /\ thread[Load] = "alive" /\ expected = "none"
  /\ expected' = IF dumper = "remote" THEN "done" ELSE "data"
  /\ UNCHANGED <<plan, calls, thread, done, fatal, dumpVars, loading, monitorFailed, clean>>

LoadBegins ==
  /\ thread[Load] = "alive" /\ ~loading /\ ~stopped
  /\ dump = "done" \/ (dump = "data" /\ expected = "data")
  /\ expected # "none"
  /\ loading' = TRUE
  /\ UNCHANGED <<plan, calls, thread, done, fatal, dumpVars, expected, monitorFailed, clean>>

\* The remote load ends when the dump is complete, reported or not, and it may
\* fail, as it does without the dump.
LoadEnds ==
  \/ loading /\ dump \in {"data", "done"} /\ Ends(Load, "none")
  \/ loading /\ (MayFail \/ fatal[Dump] # "none") /\ Ends(Load, "error")
  \/ ~loading /\ expected # "none" /\ dump = "error" /\ Ends(Load, "error")
  \/ ~loading /\ dump \in {expected, "done"} /\ MayFail /\ Ends(Load, "error")
  \/ ~loading /\ expected # "none" /\ stopped /\ Ends(Load, "aborted")

ThreadExits(s) ==
  /\ thread[s] = "exiting" /\ thread' = [thread EXCEPT ![s] = "dead"]
  /\ UNCHANGED <<plan, calls, done, fatal, dumpVars, loadVars, monitorFailed, clean>>

DumpWork ==
  FindDump \/ DumpData \/ RetryDump \/ DumpSucceeds \/ DumpErrs \/ DumpEnds \/ DumpDies

LoadWork == LoadChecks \/ LoadBegins \/ LoadEnds

Work(s) ==
  /\ s \in clean \cup Late
  /\ \/ WorkDone(s) \/ WorkFails(s) \/ WorkAborts(s) \/ ThreadExits(s)
     \/ s = Dump /\ DumpWork
     \/ s = Load /\ LoadWork
-----------------------------------------------------------------------------
(* The abort of the work step *)

\* The stages that Stage.stop reaches from the root: those started and not finished.
ReachedIn[n \in Nat] ==
  IF n = 0 THEN {Root}
  ELSE LET r == ReachedIn[n - 1]
       IN r \cup {d \in started \ finished : \E s \in r : d \in DepSet(s)}

Reached == ReachedIn[Cardinality(Stages)]

\* stop of the load, or of a dump on the jump host, connects to the jump host,
\* which is refused once the stop is requested: the exception leaves abort.
StopRaises == Load \in Reached \/ (Dump \in Reached /\ dumper = "remote")

Abort ==
  /\ status = "in progress" /\ aborter = "idle"
  /\ stopped' = TRUE
  /\ aborter' = IF StopRaises THEN "raised" ELSE "joins"
  /\ UNCHANGED <<plan, orch, stack, started, finished, status, work>>

\* The orchestrator thread was joined.
AbortReturns ==
  /\ aborter = "joins" /\ orch = "ended"
  /\ aborter' = "returned"
  /\ UNCHANGED <<plan, orch, stack, started, finished, stopped, status, work>>
-----------------------------------------------------------------------------
Next ==
  \/ Orchestrate \/ TunnelWorks \/ Abort \/ AbortReturns
  \/ \E s \in Threaded : Work(s)

SafeSpec == Init /\ [][Next]_vars

\* Threads are scheduled, and the work of a stage comes to an end, that of the
\* monitor when it is stopped: a thread takes finitely many steps, so that each
\* has its turn.  Somebody opens the tunnel the plan asks for, unless the
\* migration is stopped.
Fairness ==
  /\ WF_vars(Orchestrate) /\ WF_vars(AbortReturns)
  /\ WF_vars(~stopped /\ TunnelWorks)
  /\ WF_vars(\E s \in Threaded \ {Watch} : Work(s))
  /\ WF_vars(stopped /\ Work(Watch))

Spec == SafeSpec /\ Fairness
-----------------------------------------------------------------------------
(* Properties *)

\* The work of a dependency is over: dump and monitor tell by their status.
WorkIsOver(d) ==
  \/ ~Enabled(d)
  \/ d \in done
  \/ d = Dump /\ dump \in {"done", "error"}
  \/ d \notin Threaded /\ (d = Tunnel => d \in finished)

\* Unless a stop is requested, the thread of a stage starts when the work of
\* every dependency is over, whichever of its callers came first and whatever
\* was called again or aborted in between.
DependenciesFirst ==
  [][\A s \in clean' \ clean : \A d \in DepSet(s) : WorkIsOver(d)]_clean

\* The updates of the DB System, the channel and the monitor never run before
\* the data is loaded, although a disabled stage does not wait for its
\* dependencies and the load is called by one stage only.
LoadedFirst == clean \cap (Updates \cup {Watch}) # {} => Load \in done

\* The user is told that the migration is ready only when the data was loaded
\* and, in a hot migration, the channel was created, also when a stop makes
\* the calls of start return early.
ReadyIsReady ==
  status = "ready" => /\ Load \in done
                      /\ plan.hot => \A s \in DepSet(Congrats) : s \in done

\* No Thread is started twice, by whatever paths of the plan start of its stage
\* is called: Python raises RuntimeError.
StartedOnce ==
  At("leave") /\ Top.stage \in Threaded =>
    thread[Top.stage] = "joined" \/ ~CannotStart(Top.stage)

\* A stage that is called again has its Thread object (stage.py: "assert
\* self._thread").
ThreadAtHand ==
  At("leave") /\ Top.stage \in Threaded => thread[Top.stage] # "joined"

\* "operations that update DB System cannot be executed concurrently"
\* (orchestration.py), while no stop is requested.
ExclusiveUpdates == Cardinality({s \in Updates \cap clean : thread[s] = "alive"}) <= 1

\* The dump ended and its status does not tell.
DumpLost == thread[Dump] \in {"exiting", "dead"} /\ dump \notin {"done", "error"}

Awaits(s) == Waiting /\ s \in Top.wait

\* A migration that is not stopped gets to its end, to an error or to the word
\* that it is ready, but for a dump thread that ends without a status.
GetsReady ==
  status = "in progress" ~> status # "in progress" \/ stopped \/ DumpLost

\* A stop ends the orchestrator thread, except where nothing of what it waits for
\* looks at the stop: the tunnel, the monitor, or a dump without a status.
StopEnds ==
  stopped ~> orch = "ended" \/ DumpLost \/ Awaits(Tunnel) \/ Awaits(Watch)
=============================================================================
