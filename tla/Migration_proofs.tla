-------------------------- MODULE Migration_proofs --------------------------
(* What holds of the execution of a migration for every bound: for every     *)
(* plan the types, and that a stage starts after its dependencies; for every *)
(* plan of the shape that Migration names, that the updates come after the   *)
(* load, that the migration is ready when it is said to be, and that no      *)
(* thread is started twice.                                                  *)
EXTENDS Migration, SequenceTheorems, TLAPS

LEMMA PlanType ==
  ASSUME plan \in Plans, NEW s \in Stages
  PROVE  Deps(s) \in Seq(Stages) /\ DepSet(s) \subseteq Stages
<1>1. plan.deps \in [Stages -> Seq(Stages)]
  BY PlanAssumption
<1>2. Deps(s) \in Seq(Stages)
  BY <1>1 DEF Deps
<1> QED
  BY <1>2, ElementOfSeq DEF DepSet

\* Frames, and what the operations on the stack make of them.
LEMMA FrameType == ASSUME NEW s \in Stages PROVE Frame(s) \in Frames
BY DEF Frame, Frames, Modes

LEMMA TopType ==
  ASSUME stack \in Seq(Frames), stack # <<>>
  PROVE  Top \in Frames /\ Len(stack) \in Nat \ {0} /\ Len(stack) \in 1 .. Len(stack)
<1>1. Len(stack) \in Nat \ {0}
  BY EmptySeq, LenProperties
<1> QED
  BY <1>1, ElementOfSeq DEF Top

LEMMA WithFields ==
  ASSUME NEW f \in Frames
  PROVE  /\ \A n \in Nat \ {0}, w \in SUBSET Stages :
              [f EXCEPT !.next = n, !.wait = w] \in Frames
         /\ \A m \in Modes, w \in SUBSET Stages :
              [f EXCEPT !.mode = m, !.wait = w] \in Frames
         /\ \A m \in Modes : [f EXCEPT !.mode = m] \in Frames
         /\ \A w \in SUBSET Stages : [f EXCEPT !.wait = w] \in Frames
BY DEF Frames

LEMMA CalledType ==
  ASSUME NEW f \in Frames, NEW d \in Stages
  PROVE  Called(f, d) \in Frames
<1> DEFINE w == IF d \notin finished /\ Enabled(f.stage) THEN f.wait \cup {d} ELSE f.wait
<1>1. f.next \in Nat \ {0} /\ f.wait \in SUBSET Stages
  BY DEF Frames
<1>2. f.next + 1 \in Nat \ {0}
  BY <1>1
<1>3. w \in SUBSET Stages
  BY <1>1
<1>4. [f EXCEPT !.next = f.next + 1, !.wait = w] \in Frames
  <2> HIDE DEF w
  <2> QED
    BY <1>2, <1>3, WithFields DEF Modes
<1> QED
  BY <1>4 DEF Called

LEMMA BecomeType ==
  ASSUME stack \in Seq(Frames), stack # <<>>, NEW f \in Frames, Become(f)
  PROVE  stack' \in Seq(Frames)
BY TopType, ExceptSeq DEF Become

LEMMA ReturnType ==
  ASSUME stack \in Seq(Frames), stack # <<>>, Return
  PROVE  stack' \in Seq(Frames)
<1> DEFINE n == Len(stack) - 1
<1>1. n \in Nat /\ \A i \in 1 .. n : i \in 1 .. Len(stack)
  BY TopType
<1>2. \A i \in 1 .. n : stack[i] \in Frames
  BY <1>1, ElementOfSeq
<1>3. Top.stage \in Stages
  BY TopType DEF Frames
<1>4. \A i \in 1 .. n :
        (IF i = n THEN Called(stack[n], Top.stage) ELSE stack[i]) \in Frames
  BY <1>1, <1>2, <1>3, CalledType
<1> QED
  BY <1>1, <1>4, IsASeq DEF Return

LEMMA PushType ==
  ASSUME stack \in Seq(Frames), NEW f \in Frames
  PROVE  Append(stack, f) \in Seq(Frames)
BY AppendProperties

LEMMA Distinct ==
  /\ Root \in Stages /\ Root \notin Threaded /\ Tunnel \in Stages /\ Tunnel \notin Threaded
  /\ Dump \in Threaded /\ Load \in Threaded /\ Watch \in Threaded /\ Threaded \subseteq Stages
  /\ Root # Tunnel /\ Dump # Watch
BY StageAssumption

LEMMA TypeInit == Init => TypeOK
<1> SUFFICES ASSUME Init PROVE TypeOK
  OBVIOUS
<1>1. <<Frame(Root)>> \in Seq(Frames)
  BY Distinct, FrameType
<1>2. stack \in Seq(Frames)
  BY <1>1, Zenon DEF Init
<1>3. /\ retries = 0 /\ started = {Root} /\ finished = {} /\ done = {} /\ clean = {}
      /\ thread = [s \in Threaded |-> "new"] /\ fatal = [s \in Threaded |-> "none"]
  BY Zenon DEF Init
<1>4. /\ retries \in 0 .. MaxRetries
      /\ started \subseteq Stages /\ finished \subseteq Stages
      /\ done \subseteq Threaded /\ clean \subseteq Threaded
  BY <1>3, Distinct, BoundAssumption
<1>5. /\ thread \in [Threaded -> {"new", "alive", "exiting", "dead", "joined"}]
      /\ fatal \in [Threaded -> {"none", "aborted", "error"}]
  BY <1>3
<1> QED
  BY <1>2, <1>4, <1>5, Zenon DEF Init, TypeOK, CallsTyped, ThreadsTyped,
     DumpTyped, LoadTyped

\* The stage and the fields of the innermost call.
LEMMA TopFields ==
  ASSUME TypeOK, stack # <<>>
  PROVE  /\ stack \in Seq(Frames) /\ Top \in Frames
         /\ Top.stage \in Stages /\ Top.wait \subseteq Stages /\ Top.next \in Nat \ {0}
         /\ DepSet(Top.stage) \subseteq Stages
<1>1. stack \in Seq(Frames) /\ plan \in Plans
  BY DEF TypeOK, CallsTyped
<1>2. Top \in Frames
  BY <1>1, TopType
<1>3. Top.stage \in Stages /\ Top.wait \subseteq Stages /\ Top.next \in Nat \ {0}
  BY <1>2 DEF Frames
<1> QED
  BY <1>1, <1>2, <1>3, PlanType

\* The dependency that the innermost call is at.
LEMMA NextDependency ==
  ASSUME TypeOK, stack # <<>>, Top.next <= Len(Deps(Top.stage))
  PROVE  Deps(Top.stage)[Top.next] \in Stages
<1>1. plan \in Plans
  BY DEF TypeOK, CallsTyped
<1>2. Deps(Top.stage) \in Seq(Stages)
  BY <1>1, TopFields, PlanType
<1> QED
  BY <1>2, TopFields, ElementOfSeq, LenProperties

\* What the orchestrator thread does to its calls of start.
LEMMA FinishType ==
  ASSUME TypeOK, stack # <<>>, NEW d \in Stages, Finish(d)
  PROVE  stack' \in Seq(Frames)
<1>1. [Top EXCEPT !.wait = Top.wait \ {d}] \in Frames
  BY TopFields, WithFields DEF Modes
<1> QED
  BY <1>1, TopFields, BecomeType DEF Finish

LEMMA StackType ==
  ASSUME TypeOK, Orchestrate \/ TunnelWorks
  PROVE  stack' \in Seq(Frames)
<1>1. stack \in Seq(Frames) /\ <<>> \in Seq(Frames)
  BY EmptySeq DEF TypeOK, CallsTyped
<1>2. "leave" \in Modes /\ "wait" \in Modes /\ "again" \in Modes /\ "run" \in Modes
      /\ "mark" \in Modes
  BY DEF Modes
<1>3. CASE CallDependency
  <2>1. Deps(Top.stage)[Top.next] \in Stages
    BY <1>3, NextDependency DEF CallDependency, At
  <2> QED
    BY <1>1, <1>3, <2>1, FrameType, PushType DEF CallDependency
<1>4. CASE CallAgain
  <2> DEFINE d == Deps(Top.stage)[Top.next]
             left == {x \in DepSet(d) : x \notin finished /\ Enabled(x)}
  <2>1. stack # <<>> /\ d \in Stages
    BY <1>4, NextDependency DEF CallAgain, At
  <2>2. left \in SUBSET Stages
    BY <2>1, PlanType DEF TypeOK
  <2>3. CASE stack' = Append(stack, [Frame(d) EXCEPT !.mode = "leave"])
    <3>1. [Frame(d) EXCEPT !.mode = "leave"] \in Frames
      BY <1>2, <2>1, FrameType, WithFields
    <3> QED
      BY <1>1, <2>3, <3>1, PushType
  <2>4. CASE stack' = Append(stack, [Frame(d) EXCEPT !.mode = "again", !.wait = left])
    <3>1. [Frame(d) EXCEPT !.mode = "again", !.wait = left] \in Frames
      BY <1>2, <2>1, <2>2, FrameType, WithFields
    <3> QED
      BY <1>1, <2>4, <3>1, PushType
  <2>5. CASE Become(Called(Top, d))
    BY <1>1, <2>1, <2>5, TopFields, CalledType, BecomeType
  <2> QED
    BY <1>4, <2>3, <2>4, <2>5, Zenon DEF CallAgain
<1>5. CASE Cancel
  <2>1. [Top EXCEPT !.mode = "leave"] \in Frames
    BY <1>2, <1>5, TopFields, WithFields DEF Cancel, At
  <2> QED
    BY <1>1, <1>5, <2>1, BecomeType DEF Cancel, At
<1>6. CASE LoopOver
  <2>1. \A m \in Modes : [Top EXCEPT !.mode = m] \in Frames
    BY <1>6, TopFields, WithFields DEF LoopOver, At
  <2> QED
    BY <1>1, <1>2, <1>6, <2>1, BecomeType DEF LoopOver, At
<1>7. ASSUME NEW d \in Top.wait, Waiting, Finish(d) PROVE stack' \in Seq(Frames)
  BY <1>7, TopFields, FinishType DEF Waiting
<1>8. CASE Poll \/ TunnelWorks
  BY <1>7, <1>8 DEF Poll, TunnelWorks
<1>9. CASE PollAborted
  <2>1. PICK d \in Top.wait : Become([Top EXCEPT !.wait = Top.wait \ {d}])
    BY <1>9, Zenon DEF PollAborted
  <2>2. [Top EXCEPT !.wait = Top.wait \ {d}] \in Frames
    BY <1>2, <1>9, TopFields, WithFields DEF PollAborted, Waiting
  <2> QED
    BY <1>1, <1>9, <2>1, <2>2, BecomeType DEF PollAborted, Waiting
<1>10. CASE PollFailed \/ TunnelFails \/ StartFails
  BY <1>1, <1>10 DEF PollFailed, TunnelFails, StartFails, Raise
<1>11. CASE WaitOver
  <2>1. [Top EXCEPT !.mode = "leave"] \in Frames
    BY <1>2, <1>11, TopFields, WithFields
       DEF WaitOver, Waiting
  <2> QED
    BY <1>1, <1>11, <2>1, BecomeType DEF WaitOver, Waiting, Raise
<1>12. CASE LeaveRoot
  <2>1. DepSet(Root) \in SUBSET Stages
    BY PlanType, Distinct DEF TypeOK
  <2>2. [Top EXCEPT !.mode = "run", !.wait = DepSet(Root)] \in Frames
    BY <1>2, <1>12, <2>1, TopFields, WithFields DEF LeaveRoot, At
  <2> QED
    BY <1>1, <1>12, <2>2, BecomeType DEF LeaveRoot, At
<1>13. CASE LeavePlain \/ Skip \/ MarkStarting
  BY <1>1, <1>13, ReturnType DEF LeavePlain, Skip, MarkStarting, At
<1>14. CASE StartThread
  <2>1. [Top EXCEPT !.mode = "mark"] \in Frames
    BY <1>2, <1>14, TopFields, WithFields
       DEF StartThread, At
  <2> QED
    BY <1>1, <1>14, <2>1, BecomeType, ReturnType DEF StartThread, At
<1> QED
  BY <1>3, <1>4, <1>5, <1>6, <1>8, <1>9, <1>10, <1>11, <1>12, <1>13, <1>14
     DEF Orchestrate

\* What an action leaves alone keeps its type.
LEMMA Unchanged ==
  /\ ThreadsTyped /\ UNCHANGED <<thread, done, fatal, monitorFailed, clean>> => ThreadsTyped'
  /\ DumpTyped /\ UNCHANGED dumpVars => DumpTyped'
  /\ LoadTyped /\ UNCHANGED loadVars => LoadTyped'
  /\ CallsTyped /\ UNCHANGED calls => CallsTyped'
<1>1. ThreadsTyped /\ UNCHANGED <<thread, done, fatal, monitorFailed, clean>> => ThreadsTyped'
  BY DEF ThreadsTyped
<1>2. DumpTyped /\ UNCHANGED dumpVars => DumpTyped'
  BY DEF DumpTyped, dumpVars
<1>3. LoadTyped /\ UNCHANGED loadVars => LoadTyped'
  BY DEF LoadTyped, loadVars
<1>4. CallsTyped /\ UNCHANGED calls => CallsTyped'
  BY DEF CallsTyped, calls
<1> QED
  BY <1>1, <1>2, <1>3, <1>4

LEMMA WorkUnchanged ==
  ASSUME TypeOK, UNCHANGED work
  PROVE  ThreadsTyped' /\ DumpTyped' /\ LoadTyped'
BY Unchanged DEF TypeOK, work

LEMMA OrchestrateType ==
  ASSUME TypeOK, Orchestrate \/ TunnelWorks
  PROVE  TypeOK'
<1> USE DEF CallsTyped
<1>1. stack' \in Seq(Frames)
  BY StackType
<1>2. plan \in Plans /\ CallsTyped /\ ThreadsTyped /\ DumpTyped /\ LoadTyped
  BY DEF TypeOK
<1>3. ASSUME UNCHANGED <<plan, work>>, CallsTyped' PROVE TypeOK'
  BY <1>2, <1>3, WorkUnchanged DEF TypeOK
<1>4. CASE CallDependency
  <2>1. Deps(Top.stage)[Top.next] \in Stages
    BY <1>4, NextDependency DEF CallDependency, At
  <2> QED
    BY <1>1, <1>2, <1>3, <1>4, <2>1 DEF CallDependency
<1>5. CASE CallAgain
  BY <1>1, <1>2, <1>3, <1>5 DEF CallAgain
<1>6. CASE Cancel
  BY <1>1, <1>2, <1>3, <1>6 DEF Cancel
<1>7. CASE LoopOver
  BY <1>1, <1>2, <1>3, <1>7 DEF LoopOver
<1>8. ASSUME NEW d \in Top.wait, Waiting, Finish(d) PROVE TypeOK'
  <2>1. d \in Stages
    BY <1>8, TopFields DEF Waiting
  <2>2. CallsTyped'
    BY <1>1, <1>2, <1>8, <2>1 DEF Finish
  <2>3. ThreadsTyped'
    BY <1>2, <1>8 DEF Finish, ThreadsTyped
  <2> QED
    BY <1>2, <1>8, <2>2, <2>3, Unchanged DEF Finish, TypeOK
<1>9. CASE Poll \/ TunnelWorks
  BY <1>8, <1>9 DEF Poll, TunnelWorks
<1>10. CASE PollAborted
  BY <1>1, <1>2, <1>3, <1>10 DEF PollAborted
<1>11. CASE PollFailed
  BY <1>1, <1>2, <1>3, <1>11 DEF PollFailed, Raise
<1>12. CASE WaitOver
  BY <1>1, <1>2, <1>3, <1>12, Distinct DEF WaitOver, Raise
<1>13. CASE LeaveRoot
  BY <1>1, <1>2, <1>3, <1>13 DEF LeaveRoot
<1>14. CASE LeavePlain
  BY <1>1, <1>2, <1>3, <1>14 DEF LeavePlain
<1>15. CASE TunnelFails \/ StartFails
  BY <1>1, <1>2, <1>3, <1>15 DEF TunnelFails, StartFails, Raise
<1>16. CASE Skip
  <2>1. CallsTyped'
    BY <1>1, <1>2, <1>16 DEF Skip
  <2>2. ThreadsTyped'
    BY <1>2, <1>16 DEF Skip, ThreadsTyped
  <2> QED
    BY <1>2, <1>16, <2>1, <2>2, Unchanged DEF Skip, TypeOK
<1>17. CASE StartThread
  <2>1. CallsTyped'
    BY <1>1, <1>2, <1>17 DEF StartThread
  <2>2. ThreadsTyped'
    BY <1>2, <1>17 DEF StartThread, ThreadsTyped
  <2> QED
    BY <1>2, <1>17, <2>1, <2>2, Unchanged DEF StartThread, TypeOK
<1>18. CASE MarkStarting
  <2>1. CallsTyped'
    BY <1>1, <1>2, <1>18 DEF MarkStarting
  <2>2. DumpTyped'
    BY <1>2, <1>18 DEF MarkStarting, DumpTyped
  <2> QED
    BY <1>2, <1>18, <2>1, <2>2, Unchanged DEF MarkStarting, TypeOK
<1> QED
  BY <1>4, <1>5, <1>6, <1>7, <1>9, <1>10, <1>11, <1>12, <1>13, <1>14, <1>15,
     <1>16, <1>17, <1>18 DEF Orchestrate

LEMMA EndsType ==
  ASSUME TypeOK, NEW s \in Threaded, NEW e \in {"none", "aborted", "error"}, Ends(s, e)
  PROVE  TypeOK'
<1>1. ThreadsTyped
  BY DEF TypeOK
<1>2. thread' \in [Threaded -> {"new", "alive", "exiting", "dead", "joined"}]
  BY <1>1 DEF Ends, ThreadsTyped
<1>3. fatal' \in [Threaded -> {"none", "aborted", "error"}]
  BY <1>1 DEF Ends, ThreadsTyped
<1>4. done' \subseteq Threaded /\ monitorFailed' \in BOOLEAN /\ clean' \subseteq Threaded
  BY <1>1 DEF Ends, ThreadsTyped
<1>5. ThreadsTyped'
  BY <1>2, <1>3, <1>4 DEF ThreadsTyped
<1> QED
  BY <1>5, Unchanged DEF Ends, TypeOK

LEMMA WorkType ==
  ASSUME TypeOK, NEW s \in Threaded, Work(s)
  PROVE  TypeOK'
<1>1. plan \in Plans /\ CallsTyped /\ ThreadsTyped /\ DumpTyped /\ LoadTyped
  BY DEF TypeOK
<1>2. CASE WorkDone(s) \/ WorkFails(s) \/ WorkAborts(s)
  BY <1>2, EndsType DEF WorkDone, WorkFails, WorkAborts
<1>3. CASE ThreadExits(s)
  <2>1. ThreadsTyped'
    BY <1>1, <1>3 DEF ThreadExits, ThreadsTyped
  <2> QED
    BY <1>1, <1>3, <2>1, Unchanged DEF ThreadExits, TypeOK
<1>4. ASSUME UNCHANGED <<plan, calls, thread, done, fatal, loadVars, monitorFailed, clean>>,
             DumpTyped'
      PROVE  TypeOK'
  BY <1>1, <1>4, Unchanged DEF TypeOK
<1>5. CASE FindDump
  BY <1>1, <1>4, <1>5 DEF FindDump, DumpTyped
<1>6. CASE DumpData
  BY <1>1, <1>4, <1>6 DEF DumpData, DumpTyped
<1>7. CASE RetryDump
  <2>1. retries + 1 \in 0 .. MaxRetries
    BY <1>1, <1>7, BoundAssumption DEF RetryDump, DumpTyped
  <2> QED
    BY <1>1, <1>4, <1>7, <2>1 DEF RetryDump, DumpTyped
<1>8. CASE DumpSucceeds \/ DumpErrs
  BY <1>1, <1>4, <1>8 DEF DumpSucceeds, DumpErrs, DumpTyped
<1>9. CASE DumpEnds \/ DumpDies
  BY <1>9, Distinct, EndsType DEF DumpEnds, DumpDies
<1>10. CASE LoadChecks
  <2>1. LoadTyped'
    BY <1>1, <1>10 DEF LoadChecks, LoadTyped
  <2> QED
    BY <1>1, <1>10, <2>1, Unchanged DEF LoadChecks, TypeOK
<1>11. CASE LoadBegins
  <2>1. LoadTyped'
    BY <1>1, <1>11 DEF LoadBegins, LoadTyped
  <2> QED
    BY <1>1, <1>11, <2>1, Unchanged DEF LoadBegins, TypeOK
<1>12. CASE LoadEnds
  BY <1>12, Distinct, EndsType DEF LoadEnds
<1> QED
  BY <1>2, <1>3, <1>5, <1>6, <1>7, <1>8, <1>9, <1>10, <1>11, <1>12
     DEF Work, DumpWork, LoadWork

LEMMA TypeNext == TypeOK /\ [Next]_vars => TypeOK'
<1> SUFFICES ASSUME TypeOK, [Next]_vars PROVE TypeOK'
  OBVIOUS
<1>1. CASE Orchestrate \/ TunnelWorks
  BY <1>1, OrchestrateType
<1>2. CASE Abort
  BY <1>2, WorkUnchanged DEF Abort, TypeOK, CallsTyped
<1>3. CASE AbortReturns
  BY <1>3, WorkUnchanged DEF AbortReturns, TypeOK, CallsTyped
<1>4. CASE \E s \in Threaded : Work(s)
  BY <1>4, WorkType
<1>5. CASE UNCHANGED vars
  BY <1>5, WorkUnchanged, Unchanged DEF TypeOK, vars
<1> QED
  BY <1>1, <1>2, <1>3, <1>4, <1>5 DEF Next

\* The variables keep their types for every plan, also one with a cycle, and
\* every bound.
THEOREM TypeCorrect == SafeSpec => []TypeOK
BY TypeInit, TypeNext, PTL DEF SafeSpec
-----------------------------------------------------------------------------
(* The order of the stages.  A call of start knows of each dependency it has *)
(* looked at that its work is over, or waits for it, until a stop is         *)
(* requested.                                                                *)

\* DumpStage.start sets the status of the dump after the thread may have done it.
Over(d) == WorkIsOver(d) /\ (d = Dump /\ Enabled(Dump) /\ Dump \notin done => ~At("mark"))

OverStages == {d \in Stages : Over(d)}

\* The stages whose thread is still to be started.
Pending == {s \in Threaded : Enabled(s) /\ thread[s] = "new"}

\* The dependencies that a call of start has looked at.
Seen(p, f) ==
  LET deps == p.deps[f.stage]
  IN {deps[j] : j \in {k \in DOMAIN deps : f.mode = "loop" => k < f.next}}

Waits(f) == IF f.mode = "leave" THEN {} ELSE f.wait

\* The call f of start is in the call of start of its next dependency, g.
Calls(p, f, g) ==
  /\ f.mode = "loop" /\ f.next \in DOMAIN p.deps[f.stage]
  /\ p.deps[f.stage][f.next] = g.stage

FrameOK(f) == f.stage \in Pending /\ ~stopped => Seen(plan, f) \subseteq OverStages \cup Waits(f)

FramesOK == \A i \in 1 .. Len(stack) : FrameOK(stack[i])

CallsOK == \A i \in 1 .. Len(stack) - 1 : Calls(plan, stack[i], stack[i + 1])

DumpOK ==
  /\ dump \in {"done", "error"} => dumping \in {"done", "error"}
  /\ thread[Dump] = "new" => dump = "ready" /\ dumping = "begins"
  /\ At("mark") => thread[Dump] # "new"

AbortOK == \A s \in Threaded : fatal[s] = "aborted" => stopped

FinishedOK ==
  \A d \in finished : /\ d # Watch => d \in OverStages
                      /\ d \in Threaded => thread[d] = "joined"

Order == CallsOK /\ FramesOK /\ DumpOK /\ AbortOK /\ FinishedOK

OrderInv == TypeOK /\ Order

\* The stack after each of the three changes that do not empty it.
LEMMA BecomeShape ==
  ASSUME stack \in Seq(Frames), stack # <<>>, NEW f \in Frames, Become(f)
  PROVE  /\ Len(stack') = Len(stack) /\ Len(stack) \in Nat \ {0}
         /\ \A i \in 1 .. Len(stack) - 1 : stack'[i] = stack[i]
         /\ stack'[Len(stack)] = f /\ Top' = f
<1>1. Len(stack) \in Nat \ {0} /\ Len(stack) \in 1 .. Len(stack)
  BY TopType
<1>2. Len(stack') = Len(stack) /\ \A i \in 1 .. Len(stack) :
         stack'[i] = IF i = Len(stack) THEN f ELSE stack[i]
  BY <1>1, ExceptSeq DEF Become
<1> QED
  BY <1>1, <1>2 DEF Top

LEMMA PushShape ==
  ASSUME stack \in Seq(Frames), stack # <<>>, NEW f \in Frames, stack' = Append(stack, f)
  PROVE  /\ Len(stack') = Len(stack) + 1 /\ Len(stack) \in Nat \ {0}
         /\ \A i \in 1 .. Len(stack) : stack'[i] = stack[i]
         /\ stack'[Len(stack) + 1] = f /\ Top' = f
<1>1. Len(stack) \in Nat \ {0}
  BY TopType
<1>2. /\ Len(stack') = Len(stack) + 1
      /\ \A i \in 1 .. Len(stack) : stack'[i] = stack[i]
      /\ stack'[Len(stack) + 1] = f
  BY <1>1, AppendProperties
<1> QED
  BY <1>1, <1>2 DEF Top

LEMMA ReturnShape ==
  ASSUME stack \in Seq(Frames), stack # <<>>, Return
  PROVE  /\ Len(stack') = Len(stack) - 1 /\ Len(stack) \in Nat \ {0}
         /\ \A i \in 1 .. Len(stack) - 2 : stack'[i] = stack[i]
         /\ Len(stack) # 1 =>
              LET n == Len(stack) - 1
              IN stack'[n] = Called(stack[n], Top.stage) /\ Top' = stack'[n]
<1> DEFINE n == Len(stack) - 1
<1>1. Len(stack) \in Nat \ {0} /\ n \in Nat
  BY TopType
<1>2. stack' = [i \in 1 .. n |-> IF i = n THEN Called(stack[n], Top.stage) ELSE stack[i]]
  BY DEF Return
<1>3. stack' \in Seq(Frames)
  BY ReturnType
<1>4. DOMAIN stack' = 1 .. n /\ DOMAIN stack' = 1 .. Len(stack')
  BY <1>2, <1>3, LenProperties
<1>5. Len(stack') = n
  BY <1>1, <1>3, <1>4, LenProperties
<1>6. \A i \in 1 .. n : stack'[i] = IF i = n THEN Called(stack[n], Top.stage) ELSE stack[i]
  BY <1>2
<1>7. \A i \in 1 .. Len(stack) - 2 : i \in 1 .. n /\ i # n
  BY <1>1
<1>8. Len(stack) # 1 => n \in 1 .. n
  <2>1. \A m \in Nat \ {0} : m # 1 => m - 1 \in 1 .. m - 1
    OBVIOUS
  <2> QED
    BY <1>1, <2>1
<1>9. Top' = stack'[n]
  BY <1>5 DEF Top
<1> QED
  BY <1>1, <1>5, <1>6, <1>7, <1>8, <1>9

\* What no step undoes.
Monotone ==
  /\ plan' = plan /\ Pending' \subseteq Pending /\ (stopped => stopped')
  /\ OverStages \subseteq OverStages'

\* The frame f is as it should be after the step.
Fits(f) == f.stage \in Pending' /\ ~stopped' => Seen(plan, f) \subseteq OverStages' \cup Waits(f)

LEMMA FrameFits ==
  ASSUME Monotone, NEW f \in Frames, FrameOK(f)
  PROVE  Fits(f)
BY DEF Monotone, FrameOK, Fits

LEMMA FramesNext ==
  ASSUME plan' = plan, \A i \in 1 .. Len(stack') : Fits(stack'[i])
  PROVE  FramesOK'
BY DEF FramesOK, FrameOK, Fits

LEMMA CallsNext ==
  ASSUME plan' = plan, \A i \in 1 .. Len(stack') - 1 : Calls(plan, stack'[i], stack'[i + 1])
  PROVE  CallsOK'
BY DEF CallsOK

LEMMA BecomeFits ==
  ASSUME OrderInv, Monotone, stack # <<>>,
         NEW f \in Frames, Become(f), f.stage = Top.stage, Fits(f)
  PROVE  FramesOK' /\ CallsOK'
<1>1. stack \in Seq(Frames) /\ FramesOK /\ CallsOK /\ plan' = plan
  BY DEF OrderInv, Order, TypeOK, CallsTyped, Monotone
<1>2. /\ Len(stack') = Len(stack) /\ Len(stack) \in Nat \ {0}
      /\ \A i \in 1 .. Len(stack) - 1 : stack'[i] = stack[i]
      /\ stack'[Len(stack)] = f
  BY <1>1, BecomeShape
<1>3. ASSUME NEW i \in 1 .. Len(stack') PROVE Fits(stack'[i])
  <2>1. i = Len(stack) \/ i \in 1 .. Len(stack) - 1
    BY <1>2
  <2>2. i \in 1 .. Len(stack)
    BY <1>2
  <2>3. stack[i] \in Frames /\ FrameOK(stack[i])
    BY <1>1, <2>2, ElementOfSeq DEF FramesOK
  <2>4. Fits(stack[i])
    BY <2>3, FrameFits
  <2> QED
    BY <1>2, <2>1, <2>4
<1>4. ASSUME NEW i \in 1 .. Len(stack') - 1 PROVE Calls(plan, stack'[i], stack'[i + 1])
  <2>1. i \in 1 .. Len(stack) - 1 /\ Calls(plan, stack[i], stack[i + 1])
    BY <1>1, <1>2 DEF CallsOK
  <2>2. stack'[i] = stack[i]
    BY <1>2, <2>1
  <2>3. i + 1 = Len(stack) \/ i + 1 \in 1 .. Len(stack) - 1
    BY <1>2, <2>1
  <2>4. stack'[i + 1].stage = stack[i + 1].stage
    BY <1>2, <2>3 DEF Top
  <2> QED
    BY <2>1, <2>2, <2>4 DEF Calls
<1> QED
  BY <1>1, <1>3, <1>4, FramesNext, CallsNext

LEMMA PushFits ==
  ASSUME OrderInv, Monotone, stack # <<>>,
         NEW f \in Frames, stack' = Append(stack, f), Calls(plan, Top, f), Fits(f)
  PROVE  FramesOK' /\ CallsOK'
<1>1. stack \in Seq(Frames) /\ FramesOK /\ CallsOK /\ plan' = plan
  BY DEF OrderInv, Order, TypeOK, CallsTyped, Monotone
<1>2. /\ Len(stack') = Len(stack) + 1 /\ Len(stack) \in Nat \ {0}
      /\ \A i \in 1 .. Len(stack) : stack'[i] = stack[i]
      /\ stack'[Len(stack) + 1] = f
  BY <1>1, PushShape
<1>3. ASSUME NEW i \in 1 .. Len(stack') PROVE Fits(stack'[i])
  <2>1. CASE i = Len(stack) + 1
    BY <1>2, <2>1
  <2>2. CASE i \in 1 .. Len(stack)
    <3>1. stack[i] \in Frames /\ FrameOK(stack[i])
      BY <1>1, <2>2, ElementOfSeq DEF FramesOK
    <3> QED
      BY <1>2, <2>2, <3>1, FrameFits
  <2> QED
    BY <1>2, <2>1, <2>2
<1>4. ASSUME NEW i \in 1 .. Len(stack') - 1 PROVE Calls(plan, stack'[i], stack'[i + 1])
  <2>1. i \in 1 .. Len(stack) /\ stack'[i] = stack[i]
    BY <1>2
  <2>2. CASE i = Len(stack)
    BY <1>2, <2>1, <2>2 DEF Top
  <2>3. CASE i # Len(stack)
    <3>1. i \in 1 .. Len(stack) - 1 /\ i + 1 \in 1 .. Len(stack)
      BY <1>2, <2>1, <2>3
    <3> QED
      BY <1>1, <1>2, <2>1, <3>1 DEF CallsOK
  <2> QED
    BY <2>2, <2>3
<1> QED
  BY <1>1, <1>3, <1>4, FramesNext, CallsNext

LEMMA CalledFits ==
  ASSUME OrderInv, Monotone, NEW c \in Frames, FrameOK(c), NEW d \in Stages,
         c.mode = "loop", c.next \in DOMAIN plan.deps[c.stage], plan.deps[c.stage][c.next] = d
  PROVE  Fits(Called(c, d))
<1> DEFINE g == Called(c, d)
<1>1. SUFFICES ASSUME g.stage \in Pending', ~stopped', NEW x \in Seen(plan, g)
               PROVE  x \in OverStages' \cup Waits(g)
  BY DEF Fits
<1>2. /\ g.stage = c.stage /\ g.mode = c.mode /\ g.next = c.next + 1
      /\ g.wait = IF d \notin finished /\ Enabled(c.stage) THEN c.wait \cup {d} ELSE c.wait
  BY DEF Called, Frames
<1>3. c.stage \in Pending /\ ~stopped /\ Enabled(c.stage) /\ c.stage \in Threaded
      /\ OverStages \subseteq OverStages' /\ plan \in Plans
  BY <1>1, <1>2 DEF Monotone, Pending, OrderInv, Order, TypeOK
<1>4. Seen(plan, c) \subseteq OverStages \cup c.wait
  BY <1>3 DEF FrameOK, Waits
<1>5. Waits(g) = g.wait /\ c.wait \subseteq g.wait
  BY <1>2 DEF Waits
<1>6. x \in Seen(plan, c) \/ x = d
  <2>1. PICK j \in DOMAIN plan.deps[c.stage] :
          j < c.next + 1 /\ x = plan.deps[c.stage][j]
    BY <1>1, <1>2 DEF Seen
  <2>2. j \in Nat /\ c.next \in Nat
    <3>1. plan.deps[c.stage] \in Seq(Stages)
      BY <1>3, PlanType, Distinct DEF Deps
    <3> QED
      BY <2>1, <3>1, LenProperties DEF Frames
  <2>3. j < c.next \/ j = c.next
    BY <2>1, <2>2
  <2> QED
    BY <2>1, <2>3 DEF Seen
<1>7. CASE x \in Seen(plan, c)
  BY <1>3, <1>4, <1>5, <1>7
<1>8. CASE x = d
  <2>1. CASE d \notin finished
    BY <1>2, <1>3, <1>5, <1>8, <2>1
  <2>2. CASE d \in finished
    <3>1. d # Watch
      BY <1>3, WatchAssumption
    <3> QED
      BY <1>3, <1>8, <2>2, <3>1 DEF OrderInv, Order, FinishedOK
  <2> QED
    BY <2>1, <2>2
<1> QED
  BY <1>6, <1>7, <1>8

LEMMA ReturnFits ==
  ASSUME OrderInv, Monotone, stack # <<>>, Return
  PROVE  FramesOK' /\ CallsOK'
<1> DEFINE n == Len(stack) - 1
<1>1. /\ stack \in Seq(Frames) /\ FramesOK /\ CallsOK /\ plan' = plan
      /\ Top.stage \in Stages
  BY TopFields DEF OrderInv, Order, TypeOK, CallsTyped, Monotone
<1>2. /\ Len(stack') = n /\ Len(stack) \in Nat \ {0}
      /\ \A i \in 1 .. Len(stack) - 2 : stack'[i] = stack[i]
      /\ Len(stack) # 1 => stack'[n] = Called(stack[n], Top.stage)
  BY <1>1, ReturnShape
<1>3. ASSUME NEW i \in 1 .. Len(stack') PROVE Fits(stack'[i])
  <2>1. i \in 1 .. Len(stack) /\ i \in 1 .. n
    BY <1>2
  <2>2. stack[i] \in Frames /\ FrameOK(stack[i])
    BY <1>1, <2>1, ElementOfSeq DEF FramesOK
  <2>3. CASE i # n
    <3>1. i \in 1 .. Len(stack) - 2
      BY <1>2, <2>1, <2>3
    <3> QED
      BY <1>2, <2>2, <3>1, FrameFits
  <2>4. CASE i = n
    <3>1. Len(stack) # 1 /\ i + 1 = Len(stack)
      BY <1>2, <2>1, <2>4
    <3>2. Calls(plan, stack[i], Top)
      BY <1>1, <2>1, <2>4, <3>1 DEF CallsOK, Top
    <3>3. Fits(Called(stack[i], Top.stage))
      BY <1>1, <2>2, <3>2, CalledFits DEF Calls
    <3> QED
      BY <1>2, <2>4, <3>1, <3>3
  <2> QED
    BY <2>3, <2>4
<1>4. ASSUME NEW i \in 1 .. Len(stack') - 1 PROVE Calls(plan, stack'[i], stack'[i + 1])
  <2>1. /\ i \in 1 .. Len(stack) - 2 /\ i \in 1 .. Len(stack) - 1
        /\ i + 1 \in 1 .. Len(stack) /\ Len(stack) # 1
        /\ i + 1 = n \/ i + 1 \in 1 .. Len(stack) - 2
    BY <1>2
  <2>2. stack'[i] = stack[i] /\ Calls(plan, stack[i], stack[i + 1])
    BY <1>1, <1>2, <2>1 DEF CallsOK
  <2>3. stack[i + 1] \in Frames
    BY <1>1, <2>1, ElementOfSeq
  <2>4. Called(stack[i + 1], Top.stage).stage = stack[i + 1].stage
    BY <2>3 DEF Called, Frames
  <2>5. stack'[i + 1].stage = stack[i + 1].stage
    BY <1>2, <2>1, <2>4
  <2> QED
    BY <2>2, <2>5 DEF Calls
<1> QED
  BY <1>1, <1>3, <1>4, FramesNext, CallsNext

LEMMA SameFits ==
  ASSUME OrderInv, Monotone, UNCHANGED stack
  PROVE  FramesOK' /\ CallsOK'
<1>1. stack \in Seq(Frames) /\ FramesOK /\ CallsOK /\ plan' = plan
  BY DEF OrderInv, Order, TypeOK, CallsTyped, Monotone
<1>2. ASSUME NEW i \in 1 .. Len(stack) PROVE Fits(stack[i])
  BY <1>1, ElementOfSeq, FrameFits DEF FramesOK
<1> QED
  BY <1>1, <1>2, FramesNext, CallsNext DEF CallsOK

LEMMA EmptyFits ==
  ASSUME stack' = <<>>, plan' = plan
  PROVE  FramesOK' /\ CallsOK' /\ ~At("mark")'
<1>1. Len(stack') = 0
  BY EmptySeq
<1>2. 1 .. Len(stack') = {} /\ 1 .. Len(stack') - 1 = {}
  BY <1>1
<1> QED
  BY <1>2 DEF FramesOK, CallsOK, At

LEMMA MonotoneFrom ==
  ASSUME plan' = plan, done \subseteq done', finished \subseteq finished', stopped => stopped',
         \A s \in Threaded : thread'[s] = "new" => thread[s] = "new",
         dump \in {"done", "error"} /\ ~At("mark") =>
           dump' \in {"done", "error"} /\ ~At("mark")'
  PROVE  Monotone
<1>1. \A s \in Stages : Enabled(s)' <=> Enabled(s)
  BY DEF Enabled
<1>2. Pending' \subseteq Pending
  BY <1>1, Distinct DEF Pending
<1>3. ASSUME NEW d \in Stages, Over(d) PROVE Over(d)'
  <2>1. CASE ~Enabled(d)
    BY <1>1, <2>1, Distinct DEF Over, WorkIsOver
  <2>2. CASE Enabled(d) /\ d = Dump
    BY <1>1, <1>3, <2>2, Distinct DEF Over, WorkIsOver
  <2>3. CASE Enabled(d) /\ d # Dump
    BY <1>1, <1>3, <2>3, Distinct DEF Over, WorkIsOver
  <2> QED
    BY <2>1, <2>2, <2>3
<1>4. OverStages \subseteq OverStages'
  BY <1>3 DEF OverStages
<1> QED
  BY <1>2, <1>4 DEF Monotone

LEMMA BecomeNoMark ==
  ASSUME TypeOK, stack # <<>>, NEW f \in Frames, Become(f), f.mode # "mark"
  PROVE  ~At("mark")'
BY BecomeShape DEF TypeOK, CallsTyped, At

LEMMA PushNoMark ==
  ASSUME TypeOK, stack # <<>>, NEW f \in Frames, stack' = Append(stack, f), f.mode # "mark"
  PROVE  ~At("mark")'
BY PushShape DEF TypeOK, CallsTyped, At

LEMMA ReturnNoMark ==
  ASSUME TypeOK, CallsOK, stack # <<>>, Return
  PROVE  ~At("mark")'
<1> DEFINE n == Len(stack) - 1
<1>1. /\ Len(stack') = n /\ Len(stack) \in Nat \ {0} /\ stack \in Seq(Frames)
      /\ Len(stack) # 1 => Top' = Called(stack[n], Top.stage)
  BY ReturnShape DEF TypeOK, CallsTyped
<1>2. CASE Len(stack) = 1
  <2>1. Len(stack') = 0 /\ stack' \in Seq(Frames)
    BY <1>1, <1>2, ReturnType
  <2> QED
    BY <2>1, EmptySeq DEF At
<1>3. CASE Len(stack) # 1
  <2>1. n \in 1 .. Len(stack) - 1 /\ n \in 1 .. Len(stack)
    <3>1. \A m \in Nat \ {0} : m # 1 => m - 1 \in 1 .. m - 1 /\ m - 1 \in 1 .. m
      OBVIOUS
    <3> QED
      BY <1>1, <1>3, <3>1
  <2>2. stack[n] \in Frames /\ stack[n].mode = "loop"
    BY <1>1, <2>1, ElementOfSeq DEF CallsOK, Calls
  <2>3. Called(stack[n], Top.stage).mode = "loop"
    BY <2>2 DEF Called, Frames
  <2> QED
    BY <1>1, <1>3, <2>3 DEF At
<1> QED
  BY <1>2, <1>3

\* The parts of the invariant that are not about the calls.
LEMMA PlainStep ==
  ASSUME OrderInv, UNCHANGED <<plan, work, finished>>, stopped => stopped', ~At("mark")'
  PROVE  Monotone /\ DumpOK' /\ AbortOK' /\ FinishedOK'
<1>1. UNCHANGED <<thread, done, fatal, dump, dumping>>
  BY DEF work, dumpVars
<1>2. Monotone
  BY <1>1, MonotoneFrom
<1>3. DumpOK'
  BY <1>1 DEF DumpOK, OrderInv, Order
<1>4. AbortOK'
  BY <1>1 DEF AbortOK, OrderInv, Order
<1>5. FinishedOK'
  BY <1>1, <1>2 DEF FinishedOK, OrderInv, Order, Monotone
<1> QED
  BY <1>2, <1>3, <1>4, <1>5

LEMMA EmptyStep ==
  ASSUME OrderInv, UNCHANGED <<plan, work, finished>>, stopped => stopped', stack' = <<>>
  PROVE  Order'
BY EmptyFits, PlainStep DEF Order

LEMMA ReturnStep ==
  ASSUME OrderInv, UNCHANGED <<plan, work, finished>>, stopped => stopped',
         stack # <<>>, Return
  PROVE  Order'
BY ReturnFits, ReturnNoMark, PlainStep DEF OrderInv, Order

LEMMA BecomeStep ==
  ASSUME OrderInv, UNCHANGED <<plan, work, finished>>, stopped => stopped',
         stack # <<>>, NEW f \in Frames, Become(f), f.stage = Top.stage, f.mode # "mark",
         Monotone => Fits(f)
  PROVE  Order'
BY BecomeFits, BecomeNoMark, PlainStep DEF OrderInv, Order

LEMMA PushStep ==
  ASSUME OrderInv, UNCHANGED <<plan, work, finished>>, stopped => stopped',
         stack # <<>>, NEW f \in Frames, stack' = Append(stack, f), f.mode # "mark",
         Calls(plan, Top, f), Monotone => Fits(f)
  PROVE  Order'
BY PushFits, PushNoMark, PlainStep DEF OrderInv, Order

LEMMA TopDeps ==
  ASSUME OrderInv, stack # <<>>
  PROVE  /\ plan \in Plans /\ Top \in Frames /\ FrameOK(Top)
         /\ Top.stage \in Stages /\ Top.next \in Nat \ {0}
         /\ Deps(Top.stage) = plan.deps[Top.stage]
         /\ Deps(Top.stage) \in Seq(Stages)
         /\ DOMAIN Deps(Top.stage) = 1 .. Len(Deps(Top.stage))
         /\ Len(Deps(Top.stage)) \in Nat
<1>1. TypeOK /\ FramesOK /\ plan \in Plans /\ stack \in Seq(Frames)
  BY DEF OrderInv, Order, TypeOK, CallsTyped
<1>2. Top \in Frames /\ Top.stage \in Stages /\ Top.next \in Nat \ {0}
  BY <1>1, TopFields
<1>3. FrameOK(Top)
  BY <1>1, TopType DEF FramesOK, Top
<1>4. Deps(Top.stage) \in Seq(Stages)
  BY <1>1, <1>2, PlanType
<1> QED
  BY <1>1, <1>2, <1>3, <1>4, LenProperties DEF Deps

\* Every dependency has been looked at when the mode is not "loop".
LEMMA SeenAll ==
  ASSUME NEW f \in Frames, f.mode # "loop", plan \in Plans
  PROVE  Seen(plan, f) = DepSet(f.stage)
BY DEF Seen, DepSet, Deps

LEMMA CallDependencyOrder == OrderInv /\ CallDependency => Order'
<1> SUFFICES ASSUME OrderInv, CallDependency PROVE Order'
  OBVIOUS
<1> DEFINE d == Deps(Top.stage)[Top.next]
<1>1. stack # <<>> /\ Top.mode = "loop" /\ Top.next <= Len(Deps(Top.stage))
  BY DEF CallDependency, At
<1>2. d \in Stages /\ Top.next \in DOMAIN Deps(Top.stage)
  BY <1>1, TopDeps, NextDependency DEF OrderInv
<1>3. /\ Frame(d) \in Frames /\ Frame(d).mode = "loop" /\ Frame(d).stage = d
      /\ Frame(d).next = 1
  BY <1>2, FrameType DEF Frame
<1>4. plan.deps[d] \in Seq(Stages)
  BY <1>1, <1>2, TopDeps, PlanType DEF Deps
<1>5. Seen(plan, Frame(d)) = {}
  BY <1>3, <1>4, LenProperties DEF Seen
<1>6. Fits(Frame(d))
  BY <1>5 DEF Fits
<1>7. Calls(plan, Top, Frame(d))
  BY <1>1, <1>2, <1>3, TopDeps DEF Calls
<1> QED
  BY <1>1, <1>3, <1>6, <1>7, PushStep DEF CallDependency

LEMMA CallAgainOrder == OrderInv /\ CallAgain => Order'
<1> SUFFICES ASSUME OrderInv, CallAgain PROVE Order'
  OBVIOUS
<1> DEFINE d == Deps(Top.stage)[Top.next]
           left == {x \in DepSet(d) : x \notin finished /\ Enabled(x)}
           leave == [Frame(d) EXCEPT !.mode = "leave"]
           again == [Frame(d) EXCEPT !.mode = "again", !.wait = left]
<1>1. stack # <<>> /\ Top.mode = "loop" /\ Top.next <= Len(Deps(Top.stage))
  BY DEF CallAgain, At
<1>2. d \in Stages /\ Top.next \in DOMAIN Deps(Top.stage) /\ plan \in Plans
  BY <1>1, TopDeps, NextDependency DEF OrderInv
<1>3. left \in SUBSET Stages /\ DepSet(d) \subseteq Stages
  BY <1>2, PlanType
<1>4. /\ leave \in Frames /\ leave.mode = "leave" /\ leave.stage = d
      /\ again \in Frames /\ again.mode = "again" /\ again.stage = d /\ again.wait = left
  <2>1. Frame(d) \in Frames /\ "leave" \in Modes /\ "again" \in Modes
    BY <1>2, FrameType DEF Modes
  <2>2. leave \in Frames /\ again \in Frames
    BY <1>3, <2>1, WithFields
  <2> QED
    BY <2>2 DEF Frame
<1>5. Calls(plan, Top, leave) /\ Calls(plan, Top, again)
  BY <1>1, <1>2, <1>4, TopDeps DEF Calls
<1>6. CASE d \in {Dump, Load}
  <2>1. Become(Called(Top, d))
    BY <1>6 DEF CallAgain
  <2>2. /\ Called(Top, d) \in Frames /\ Called(Top, d).stage = Top.stage
        /\ Called(Top, d).mode = "loop"
    BY <1>1, <1>2, TopDeps, CalledType DEF Called, Frames
  <2>3. Monotone => Fits(Called(Top, d))
    BY <1>1, <1>2, TopDeps, CalledFits
  <2> QED
    BY <1>1, <2>1, <2>2, <2>3, BecomeStep DEF CallAgain
<1>7. CASE d \in finished /\ d \notin {Dump, Load}
  <2>1. stack' = Append(stack, leave)
    BY <1>7 DEF CallAgain
  <2>2. d \notin Pending
    BY <1>7 DEF OrderInv, Order, FinishedOK, Pending
  <2>3. Monotone => Fits(leave)
    BY <1>4, <2>2 DEF Monotone, Fits
  <2> QED
    BY <1>1, <1>4, <1>5, <2>1, <2>3, PushStep DEF CallAgain
<1>8. CASE d \notin finished /\ d \notin {Dump, Load}
  <2>1. stack' = Append(stack, again)
    BY <1>8 DEF CallAgain
  <2>2. ASSUME d \in Threaded, NEW x \in DepSet(d), x \notin left PROVE x \in OverStages
    <3>1. x \in Stages /\ x # Watch
      BY <1>2, <1>3, <2>2, WatchAssumption DEF DepSet, Deps
    <3>2. CASE x \in finished
      BY <3>1, <3>2 DEF OrderInv, Order, FinishedOK
    <3>3. CASE ~Enabled(x)
      BY <3>1, <3>3 DEF OverStages, Over, WorkIsOver
    <3> QED
      BY <2>2, <3>2, <3>3
  <2>3. Seen(plan, again) = DepSet(d) /\ Waits(again) = left
    BY <1>2, <1>4, SeenAll DEF Waits
  <2>4. Monotone => Fits(again)
    BY <1>4, <2>2, <2>3 DEF Monotone, Fits, Pending
  <2> QED
    BY <1>1, <1>4, <1>5, <2>1, <2>4, PushStep DEF CallAgain
<1> QED
  BY <1>6, <1>7, <1>8

\* After a stop there is nothing to show of a frame.
LEMMA StoppedFits == ASSUME NEW f \in Frames, stopped' PROVE Fits(f)
BY DEF Fits

LEMMA CancelOrder == OrderInv /\ Cancel => Order'
<1> SUFFICES ASSUME OrderInv, Cancel PROVE Order'
  OBVIOUS
<1> DEFINE f == [Top EXCEPT !.mode = "leave"]
<1>1. stack # <<>> /\ stopped /\ stopped' /\ UNCHANGED <<plan, work, finished>>
  BY DEF Cancel, At
<1>2. f \in Frames /\ f.stage = Top.stage /\ f.mode = "leave"
  BY <1>1, TopDeps DEF Frames, Modes
<1> QED
  BY <1>1, <1>2, StoppedFits, EmptyStep, BecomeStep DEF Cancel

\* All the dependencies have been looked at.
LEMMA LoopOverOrder == OrderInv /\ LoopOver => Order'
<1> SUFFICES ASSUME OrderInv, LoopOver PROVE Order'
  OBVIOUS
<1> DEFINE m == IF Top.wait # {} /\ ~stopped THEN "wait" ELSE "leave"
           f == [Top EXCEPT !.mode = m]
<1>1. /\ stack # <<>> /\ Top.mode = "loop" /\ Top.next > Len(Deps(Top.stage))
      /\ UNCHANGED <<plan, work, finished, stopped>> /\ Become(f)
  BY DEF LoopOver, At
<1>2. f \in Frames /\ f.stage = Top.stage /\ f.mode = m /\ f.wait = Top.wait
  BY <1>1, TopDeps DEF Frames, Modes
<1>3. m # "loop" /\ m # "mark"
  OBVIOUS
<1>4. \A k \in DOMAIN Deps(Top.stage) : k < Top.next
  BY <1>1, TopDeps
<1>5. Seen(plan, Top) = DepSet(Top.stage)
  BY <1>1, <1>4, TopDeps DEF Seen, DepSet
<1>6. Seen(plan, f) = Seen(plan, Top)
  BY <1>1, <1>2, <1>3, <1>5, TopDeps, SeenAll
<1>7. ~stopped => Waits(f) = Top.wait
  BY <1>2 DEF Waits
<1>8. Waits(Top) = Top.wait
  BY <1>1 DEF Waits
<1>9. Monotone => Fits(f)
  BY <1>1, <1>2, <1>6, <1>7, <1>8, TopDeps, FrameFits DEF Fits
<1> QED
  BY <1>1, <1>2, <1>3, <1>9, BecomeStep

\* A dependency that was waited for is over.
LEMMA FinishOrder ==
  ASSUME OrderInv, TypeOK', Waiting, NEW d \in Top.wait, Finish(d),
         \/ Updated(d)
         \/ d = Tunnel
  PROVE  Order'
<1> DEFINE f == [Top EXCEPT !.wait = Top.wait \ {d}]
<1>1. /\ stack # <<>> /\ Top.mode \in {"wait", "again", "run"} /\ TypeOK
      /\ UNCHANGED <<plan, stopped, done, fatal, dump, dumping>> /\ Become(f)
      /\ CallsOK /\ FramesOK /\ DumpOK /\ AbortOK /\ FinishedOK
  BY DEF Waiting, Finish, dumpVars, OrderInv, Order
<1>2. d \in Stages /\ Top.wait \subseteq Stages
  BY <1>1, TopFields
<1>3. f \in Frames /\ f.stage = Top.stage /\ f.mode = Top.mode /\ f.wait = Top.wait \ {d}
  BY <1>1, <1>2, TopDeps DEF Frames
<1>4. ~At("mark")' /\ ~At("mark")
  BY <1>1, <1>3, BecomeNoMark DEF At
<1>5. /\ finished \subseteq finished' /\ finished' \subseteq finished \cup {d}
      /\ d \notin Threaded => d \in finished'
  BY <1>1 DEF Finish
<1>6. \A s \in Threaded : /\ thread'[s] = "new" => thread[s] = "new"
                          /\ thread[s] = "joined" => thread'[s] = "joined"
  BY <1>1 DEF Finish, TypeOK, ThreadsTyped
<1>7. Monotone
  BY <1>1, <1>4, <1>5, <1>6, MonotoneFrom
<1>8. d # Watch => d \in OverStages'
  <2>1. CASE d = Tunnel
    BY <1>2, <1>5, <2>1, Distinct DEF OverStages, Over, WorkIsOver
  <2>2. CASE Updated(d) /\ d # Tunnel
    BY <1>1, <1>2, <1>4, <2>2, Distinct DEF OverStages, Over, WorkIsOver, Updated
  <2> QED
    BY <2>1, <2>2
<1>9. Fits(f)
  <2>1. Seen(plan, f) = DepSet(Top.stage) /\ Seen(plan, Top) = DepSet(Top.stage)
    BY <1>1, <1>3, TopDeps, SeenAll
  <2>2. Waits(f) = Top.wait \ {d} /\ Waits(Top) = Top.wait
    BY <1>1, <1>3 DEF Waits
  <2>3. Top.stage \in Threaded => Watch \notin DepSet(Top.stage)
    BY <1>1, TopDeps, WatchAssumption DEF DepSet, Deps
  <2>4. Fits(Top)
    BY <1>1, <1>7, TopDeps, FrameFits
  <2> QED
    BY <1>3, <1>8, <2>1, <2>2, <2>3, <2>4 DEF Fits, Pending
<1>10. FramesOK' /\ CallsOK'
  BY <1>1, <1>3, <1>7, <1>9, BecomeFits
<1>11. DumpOK'
  BY <1>1, <1>4, <1>6, Distinct DEF DumpOK
<1>12. AbortOK'
  BY <1>1 DEF AbortOK
<1>13. FinishedOK'
  <2>1. d \in finished' /\ d \in Threaded => thread'[d] = "joined"
    BY <1>1 DEF Finish, TypeOK, ThreadsTyped, FinishedOK
  <2>2. OverStages \subseteq OverStages'
    BY <1>7 DEF Monotone
  <2> QED
    BY <1>1, <1>5, <1>6, <1>8, <2>1, <2>2 DEF FinishedOK
<1> QED
  BY <1>10, <1>11, <1>12, <1>13 DEF Order

LEMMA PollOrder == OrderInv /\ TypeOK' /\ (Poll \/ TunnelWorks) => Order'
BY FinishOrder DEF Poll, TunnelWorks

LEMMA PollAbortedOrder == OrderInv /\ PollAborted => Order'
<1> SUFFICES ASSUME OrderInv, PollAborted PROVE Order'
  OBVIOUS
<1>1. PICK d \in Top.wait : /\ d \in Threaded /\ fatal[d] = "aborted"
                            /\ Become([Top EXCEPT !.wait = Top.wait \ {d}])
  BY Zenon DEF PollAborted, Polled
<1> DEFINE f == [Top EXCEPT !.wait = Top.wait \ {d}]
<1>2. /\ stack # <<>> /\ Top.mode \in {"wait", "again", "run"}
      /\ UNCHANGED <<plan, work, finished, stopped>>
  BY DEF PollAborted, Waiting
<1>3. f \in Frames /\ f.stage = Top.stage /\ f.mode # "mark"
  BY <1>2, TopDeps DEF Frames
<1>4. stopped
  BY <1>1 DEF OrderInv, Order, AbortOK
<1> QED
  BY <1>1, <1>2, <1>3, <1>4, StoppedFits, BecomeStep

LEMMA WaitOverOrder == OrderInv /\ WaitOver => Order'
<1> SUFFICES ASSUME OrderInv, WaitOver PROVE Order'
  OBVIOUS
<1>1. /\ stack # <<>> /\ Top.mode \in {"wait", "again", "run"} /\ Top.wait = {}
      /\ UNCHANGED <<plan, work, stopped>>
  BY DEF WaitOver, Waiting
<1>2. CASE UNCHANGED finished /\ stack' = <<>>
  BY <1>1, <1>2, EmptyStep
<1>3. CASE finished' = finished \cup {Root} /\ stack' = <<>>
  <2>1. FramesOK' /\ CallsOK' /\ ~At("mark")'
    BY <1>1, <1>3, EmptyFits
  <2>2. UNCHANGED <<thread, done, fatal, dump, dumping>>
    BY <1>1 DEF work, dumpVars
  <2>3. Monotone
    BY <1>1, <1>3, <2>1, <2>2, MonotoneFrom
  <2>4. Root \in OverStages
    BY Distinct DEF OverStages, Over, WorkIsOver
  <2>5. DumpOK' /\ AbortOK'
    BY <1>1, <2>1, <2>2 DEF DumpOK, AbortOK, OrderInv, Order
  <2>6. FinishedOK'
    BY <1>3, <2>2, <2>3, <2>4, Distinct DEF FinishedOK, Monotone, OrderInv, Order
  <2> QED
    BY <2>1, <2>5, <2>6 DEF Order
<1>4. CASE UNCHANGED finished /\ Become([Top EXCEPT !.mode = "leave"])
  <2> DEFINE f == [Top EXCEPT !.mode = "leave"]
  <2>1. f \in Frames /\ f.stage = Top.stage /\ f.mode = "leave"
    BY <1>1, TopDeps DEF Frames, Modes
  <2>2. Seen(plan, f) = Seen(plan, Top)
    BY <1>1, <2>1, TopDeps, SeenAll
  <2>3. Waits(f) = {} /\ Waits(Top) = {}
    BY <1>1, <2>1 DEF Waits
  <2>4. Monotone => Fits(f)
    BY <1>1, <2>1, <2>2, <2>3, TopDeps, FrameFits DEF Fits
  <2> QED
    BY <1>1, <1>4, <2>1, <2>4, BecomeStep
<1> QED
  BY <1>2, <1>3, <1>4 DEF WaitOver, Raise

LEMMA LeaveRootOrder == OrderInv /\ LeaveRoot => Order'
<1> SUFFICES ASSUME OrderInv, LeaveRoot PROVE Order'
  OBVIOUS
<1> DEFINE f == [Top EXCEPT !.mode = "run", !.wait = DepSet(Root)]
<1>1. stack # <<>> /\ Top.stage = Root /\ Become(f) /\ UNCHANGED <<plan, work, finished, stopped>>
  BY DEF LeaveRoot, At
<1>2. DepSet(Root) \in SUBSET Stages
  BY <1>1, TopDeps, PlanType
<1>3. f \in Frames /\ f.stage = Root /\ f.mode = "run"
  BY <1>1, <1>2, TopDeps DEF Frames, Modes
<1>4. Fits(f)
  BY <1>3, Distinct DEF Fits, Pending
<1> QED
  BY <1>1, <1>3, <1>4, BecomeStep

\* The actions that end the thread, or only return from a call.
LEMMA SimpleOrder ==
  OrderInv /\ (PollFailed \/ LeavePlain \/ TunnelFails \/ StartFails) => Order'
<1> SUFFICES ASSUME OrderInv, PollFailed \/ LeavePlain \/ TunnelFails \/ StartFails
             PROVE  Order'
  OBVIOUS
<1>1. CASE PollFailed
  BY <1>1, EmptyStep DEF PollFailed, Raise
<1>2. CASE LeavePlain
  BY <1>2, ReturnStep DEF LeavePlain, At
<1>3. CASE TunnelFails
  BY <1>3, EmptyStep DEF TunnelFails, Raise
<1>4. CASE StartFails
  BY <1>4, EmptyStep DEF StartFails, Raise
<1> QED
  BY <1>1, <1>2, <1>3, <1>4

LEMMA SkipOrder == OrderInv /\ Skip => Order'
<1> SUFFICES ASSUME OrderInv, Skip PROVE Order'
  OBVIOUS
<1>1. /\ stack # <<>> /\ Return /\ done \subseteq done' /\ TypeOK /\ CallsOK
      /\ UNCHANGED <<plan, finished, stopped, thread, fatal, dump, dumping>>
  BY DEF Skip, At, dumpVars, OrderInv, Order
<1>2. ~At("mark")'
  BY <1>1, ReturnNoMark
<1>3. Monotone
  BY <1>1, <1>2, MonotoneFrom
<1>4. FramesOK' /\ CallsOK'
  BY <1>1, <1>3, ReturnFits
<1>5. DumpOK' /\ AbortOK'
  BY <1>1, <1>2 DEF DumpOK, AbortOK, OrderInv, Order
<1>6. FinishedOK'
  BY <1>1, <1>3 DEF FinishedOK, Monotone, OrderInv, Order
<1> QED
  BY <1>4, <1>5, <1>6 DEF Order

LEMMA StartThreadOrder == OrderInv /\ StartThread => Order'
<1> SUFFICES ASSUME OrderInv, StartThread PROVE Order'
  OBVIOUS
<1> DEFINE s == Top.stage
           f == [Top EXCEPT !.mode = "mark"]
<1>1. /\ stack # <<>> /\ s \in Threaded /\ thread[s] = "new"
      /\ thread' = [thread EXCEPT ![s] = "alive"]
      /\ UNCHANGED <<plan, finished, stopped, done, fatal, dump, dumping>>
      /\ TypeOK /\ CallsOK /\ FramesOK /\ DumpOK /\ AbortOK /\ FinishedOK
  BY DEF StartThread, At, dumpVars, OrderInv, Order
<1>2. \A x \in Threaded : /\ thread'[x] = IF x = s THEN "alive" ELSE thread[x]
                          /\ x = s => thread[x] # "joined"
  BY <1>1 DEF TypeOK, ThreadsTyped
<1>3. f \in Frames /\ f.stage = s /\ f.mode = "mark"
  BY <1>1, TopDeps DEF Frames, Modes
<1>4. s # Dump => ~At("mark")'
  BY <1>1, ReturnNoMark DEF StartThread
<1>5. s = Dump => dump = "ready"
  BY <1>1 DEF DumpOK
<1>6. Monotone
  BY <1>1, <1>2, <1>4, <1>5, MonotoneFrom
<1>7. FramesOK' /\ CallsOK'
  <2>1. CASE s = Dump
    <3>1. f.stage \notin Pending'
      BY <1>1, <1>2, <1>3 DEF Pending
    <3> QED
      BY <1>1, <1>3, <1>6, <2>1, <3>1, BecomeFits DEF StartThread, Fits
  <2>2. CASE s # Dump
    BY <1>1, <1>6, <2>2, ReturnFits DEF StartThread
  <2> QED
    BY <2>1, <2>2
<1>8. DumpOK'
  BY <1>1, <1>2, <1>4, Distinct DEF DumpOK
<1>9. AbortOK'
  BY <1>1 DEF AbortOK
<1>10. FinishedOK'
  BY <1>1, <1>2, <1>6 DEF FinishedOK, Monotone
<1> QED
  BY <1>7, <1>8, <1>9, <1>10 DEF Order

LEMMA MarkStartingOrder == OrderInv /\ MarkStarting => Order'
<1> SUFFICES ASSUME OrderInv, MarkStarting PROVE Order'
  OBVIOUS
<1>1. /\ stack # <<>> /\ Return /\ At("mark") /\ dump' = "starting"
      /\ UNCHANGED <<plan, finished, stopped, thread, done, fatal, dumping>>
      /\ TypeOK /\ CallsOK /\ FramesOK /\ DumpOK /\ AbortOK /\ FinishedOK
  BY DEF MarkStarting, At, OrderInv, Order
<1>2. ~At("mark")'
  BY <1>1, ReturnNoMark
<1>3. Monotone
  BY <1>1, MonotoneFrom
<1>4. FramesOK' /\ CallsOK'
  BY <1>1, <1>3, ReturnFits
<1>5. DumpOK' /\ AbortOK'
  BY <1>1, <1>2 DEF DumpOK, AbortOK
<1>6. FinishedOK'
  BY <1>1, <1>3 DEF FinishedOK, Monotone
<1> QED
  BY <1>4, <1>5, <1>6 DEF Order

LEMMA OrchestrateOrder == OrderInv /\ TypeOK' /\ (Orchestrate \/ TunnelWorks) => Order'
BY CallDependencyOrder, CallAgainOrder, CancelOrder, LoopOverOrder, PollOrder,
   PollAbortedOrder, WaitOverOrder, LeaveRootOrder, SimpleOrder, SkipOrder,
   StartThreadOrder, MarkStartingOrder
   DEF Orchestrate

\* A step of a stage's thread, or of nobody, does not touch the calls of start.
LEMMA ThreadStep ==
  ASSUME OrderInv, UNCHANGED <<plan, stack, finished>>, stopped => stopped', done \subseteq done',
         \A s \in Threaded : /\ thread'[s] = "new" => thread[s] = "new"
                             /\ thread[s] = "joined" => thread'[s] = "joined",
         dump \in {"done", "error"} => dump' \in {"done", "error"},
         AbortOK',
         dump' \in {"done", "error"} => dumping' \in {"done", "error"},
         thread'[Dump] = "new" => dump' = dump /\ dumping' = dumping
  PROVE  Order'
<1>1. At("mark")' <=> At("mark")
  BY DEF At, Top
<1>2. Monotone
  BY <1>1, MonotoneFrom
<1>3. FramesOK' /\ CallsOK'
  BY <1>2, SameFits
<1>4. DumpOK'
  BY <1>1, Distinct DEF DumpOK, OrderInv, Order
<1>5. FinishedOK'
  BY <1>2 DEF FinishedOK, Monotone, OrderInv, Order
<1> QED
  BY <1>3, <1>4, <1>5 DEF Order

LEMMA EndsOrder ==
  ASSUME OrderInv, NEW s \in Threaded, NEW e \in {"none", "aborted", "error"}, Ends(s, e),
         e = "aborted" => stopped
  PROVE  Order'
<1>1. /\ UNCHANGED <<plan, stack, finished, stopped, dump, dumping>>
      /\ done \subseteq done' /\ thread[s] = "alive" /\ fatal' = [fatal EXCEPT ![s] = e]
      /\ TypeOK /\ DumpOK /\ AbortOK
  BY DEF Ends, calls, dumpVars, OrderInv, Order
<1>2. \A x \in Threaded : /\ thread'[x] = "new" => thread[x] = "new"
                          /\ thread[x] = "joined" => thread'[x] = "joined"
  BY <1>1 DEF Ends, TypeOK, ThreadsTyped
<1>3. AbortOK'
  BY <1>1 DEF AbortOK, TypeOK, ThreadsTyped
<1> QED
  BY <1>1, <1>2, <1>3, ThreadStep DEF DumpOK

LEMMA DumpStatusOrder ==
  ASSUME OrderInv, FindDump \/ DumpData \/ RetryDump \/ DumpSucceeds \/ DumpErrs
  PROVE  Order'
<1>1. /\ UNCHANGED <<plan, stack, finished, stopped, done, thread, fatal>>
      /\ thread[Dump] = "alive" /\ DumpOK /\ AbortOK
  BY DEF FindDump, DumpData, RetryDump, DumpSucceeds, DumpErrs, calls, OrderInv, Order
<1>2. /\ dump \in {"done", "error"} => dump' \in {"done", "error"}
      /\ dump' \in {"done", "error"} => dumping' \in {"done", "error"}
  BY <1>1 DEF FindDump, DumpData, RetryDump, DumpSucceeds, DumpErrs, DumpOK
<1>3. AbortOK'
  BY <1>1 DEF AbortOK
<1> QED
  BY <1>1, <1>2, <1>3, ThreadStep

LEMMA WorkOrder == ASSUME OrderInv, NEW s \in Threaded, Work(s) PROVE Order'
<1>1. CASE WorkDone(s) \/ WorkFails(s) \/ WorkAborts(s)
  BY <1>1, EndsOrder DEF WorkDone, WorkFails, WorkAborts
<1>2. CASE ThreadExits(s)
  <2>1. /\ UNCHANGED <<plan, stack, finished, stopped, done, fatal, dump, dumping>>
        /\ TypeOK /\ DumpOK /\ AbortOK
    BY <1>2 DEF ThreadExits, calls, dumpVars, OrderInv, Order
  <2>2. \A x \in Threaded : /\ thread'[x] = "new" => thread[x] = "new"
                            /\ thread[x] = "joined" => thread'[x] = "joined"
    BY <1>2, <2>1 DEF ThreadExits, TypeOK, ThreadsTyped
  <2>3. AbortOK'
    BY <2>1 DEF AbortOK
  <2> QED
    BY <2>1, <2>2, <2>3, ThreadStep DEF DumpOK
<1>3. CASE FindDump \/ DumpData \/ RetryDump \/ DumpSucceeds \/ DumpErrs
  BY <1>3, DumpStatusOrder
<1>4. CASE DumpEnds \/ DumpDies
  BY <1>4, Distinct, EndsOrder DEF DumpEnds, DumpDies
<1>5. CASE LoadChecks \/ LoadBegins
  <2>1. /\ UNCHANGED <<plan, stack, finished, stopped, done, thread, fatal, dump, dumping>>
        /\ DumpOK /\ AbortOK
    BY <1>5 DEF LoadChecks, LoadBegins, calls, dumpVars, OrderInv, Order
  <2>2. AbortOK'
    BY <2>1 DEF AbortOK
  <2> QED
    BY <2>1, <2>2, ThreadStep DEF DumpOK
<1>6. CASE LoadEnds
  BY <1>6, Distinct, EndsOrder DEF LoadEnds
<1> QED
  BY <1>1, <1>2, <1>3, <1>4, <1>5, <1>6 DEF Work, DumpWork, LoadWork

LEMMA OrderInit == Init => OrderInv
<1> SUFFICES ASSUME Init PROVE OrderInv
  OBVIOUS
<1>1. /\ TypeOK /\ plan \in Plans /\ stack = <<Frame(Root)>> /\ finished = {}
      /\ thread = [s \in Threaded |-> "new"] /\ fatal = [s \in Threaded |-> "none"]
      /\ dump = "ready" /\ dumping = "begins"
  BY TypeInit, Zenon DEF Init
<1>2. Len(stack) = 1 /\ stack[1] = Frame(Root)
  BY <1>1
<1>3. Frame(Root).stage = Root /\ Frame(Root).mode = "loop"
  BY DEF Frame
<1>4. CallsOK
  BY <1>2 DEF CallsOK
<1>5. FramesOK
  BY <1>2, <1>3, Distinct DEF FramesOK, FrameOK, Pending
<1>6. DumpOK
  BY <1>1, <1>2, <1>3 DEF DumpOK, At, Top
<1>7. AbortOK /\ FinishedOK
  BY <1>1 DEF AbortOK, FinishedOK
<1> QED
  BY <1>1, <1>4, <1>5, <1>6, <1>7 DEF OrderInv, Order

LEMMA OrderNext == OrderInv /\ [Next]_vars => OrderInv'
<1> SUFFICES ASSUME OrderInv, [Next]_vars PROVE OrderInv'
  OBVIOUS
<1>1. TypeOK'
  BY TypeNext DEF OrderInv
<1>2. CASE Orchestrate \/ TunnelWorks
  BY <1>1, <1>2, OrchestrateOrder DEF OrderInv
<1>3. CASE \E s \in Threaded : Work(s)
  BY <1>1, <1>3, WorkOrder DEF OrderInv
<1>4. CASE Abort \/ AbortReturns \/ UNCHANGED vars
  <2>1. /\ UNCHANGED <<plan, stack, finished, work>> /\ (stopped => stopped')
        /\ DumpOK /\ AbortOK
    <3>1. CASE Abort
      BY <3>1 DEF Abort, OrderInv, Order
    <3>2. CASE AbortReturns
      BY <3>2 DEF AbortReturns, OrderInv, Order
    <3>3. CASE UNCHANGED vars
      BY <3>3 DEF vars, calls, OrderInv, Order
    <3> QED
      BY <1>4, <3>1, <3>2, <3>3
  <2>2. UNCHANGED <<done, thread, fatal, dump, dumping>>
    BY <2>1 DEF work, dumpVars
  <2>3. AbortOK'
    BY <2>1, <2>2 DEF AbortOK
  <2>4. Order'
    BY <2>1, <2>2, <2>3, ThreadStep DEF DumpOK
  <2> QED
    BY <1>1, <2>4 DEF OrderInv
<1> QED
  BY <1>2, <1>3, <1>4 DEF Next

\* Only a thread that starts without a stop is new to clean.
LEMMA CleanByStart ==
  ASSUME [Next]_vars, clean' # clean
  PROVE  StartThread
<1>1. ASSUME NEW s \in Threaded, Work(s) PROVE UNCHANGED clean
  BY <1>1 DEF Work, WorkDone, WorkFails, WorkAborts, ThreadExits, DumpWork, FindDump,
       DumpData, RetryDump, DumpSucceeds, DumpErrs, DumpEnds, DumpDies, LoadWork,
       LoadChecks, LoadBegins, LoadEnds, Ends
<1>2. CASE (Orchestrate /\ ~StartThread) \/ TunnelWorks
  BY <1>2, Zenon DEF Orchestrate, CallDependency, CallAgain, Cancel, LoopOver, Poll, Finish,
       TunnelWorks, PollAborted, PollFailed, WaitOver, LeaveRoot, LeavePlain, TunnelFails,
       Skip, MarkStarting, StartFails, work
<1>3. CASE Abort \/ AbortReturns \/ UNCHANGED vars
  BY <1>3 DEF Abort, AbortReturns, vars, work
<1> QED
  BY <1>1, <1>2, <1>3 DEF Next

\* Its stage has looked at all its dependencies.
LEMMA StartsInOrder ==
  OrderInv /\ [Next]_vars =>
    [\A s \in clean' \ clean : \A d \in DepSet(s) : WorkIsOver(d)]_clean
<1> SUFFICES ASSUME OrderInv, [Next]_vars, clean' # clean
             PROVE  \A s \in clean' \ clean : \A d \in DepSet(s) : WorkIsOver(d)
  OBVIOUS
<1>1. StartThread
  BY CleanByStart
<1>2. /\ stack # <<>> /\ Top.mode = "leave" /\ Top.stage \in Pending /\ ~stopped
      /\ clean' = clean \cup {Top.stage}
  BY <1>1 DEF StartThread, At, Pending
<1>3. Seen(plan, Top) = DepSet(Top.stage) /\ Waits(Top) = {}
  BY <1>2, TopDeps, SeenAll DEF Waits
<1>4. DepSet(Top.stage) \subseteq OverStages
  BY <1>2, <1>3, TopDeps DEF FrameOK
<1> QED
  BY <1>2, <1>4 DEF OverStages, Over

\* Whatever the plan is, and however often its stages are called, the thread of
\* a stage starts after the work of all its dependencies, up to a stop.
THEOREM DependenciesBeforeStages == SafeSpec => DependenciesFirst
BY OrderInit, OrderNext, StartsInOrder, PTL DEF SafeSpec, DependenciesFirst
-----------------------------------------------------------------------------
(* The plans of the Orchestrator.  What follows is of plans as the           *)
(* ShapeAssumption describes them.                                           *)

LEMMA PlanShape ==
  ASSUME plan \in Plans
  PROVE  InDepthOnce(plan) /\ BehindLoad(plan) /\ BehindWatch(plan) /\ CallersWait(plan)
BY ShapeAssumption

LEMMA DepIn ==
  ASSUME NEW s, NEW i \in DOMAIN Deps(s)
  PROVE  Deps(s)[i] \in DepSet(s)
BY DEF DepSet

LEMMA ReachesSelf == ASSUME NEW d PROVE Reaches(plan, d, d)
BY DEF Reaches

LEMMA ReachesOn ==
  ASSUME NEW d, NEW s, NEW x, Reaches(plan, d, s), x \in DepSet(s)
  PROVE  Reaches(plan, d, x)
BY DEF Reaches, Closed, DepSet, Deps

\* What is reached from s is s, or reached from a dependency.
LEMMA ReachesSplit ==
  ASSUME plan \in Plans, NEW s \in Stages, NEW x, Reaches(plan, s, x), x # s
  PROVE  \E d \in DepSet(s) : Reaches(plan, d, x)
<1> DEFINE R == {s} \cup {y \in Stages : \E d \in DepSet(s) : Reaches(plan, d, y)}
<1>1. R \in SUBSET Stages
  OBVIOUS
<1>2. ASSUME NEW y \in R, NEW i \in DOMAIN plan.deps[y]
      PROVE  plan.deps[y][i] \in R
  <2> DEFINE z == plan.deps[y][i]
  <2>1. y \in Stages /\ z \in DepSet(y)
    BY <1>1 DEF DepSet, Deps
  <2>2. z \in Stages
    BY <2>1, PlanType
  <2>3. CASE y = s
    BY <2>1, <2>2, <2>3, ReachesSelf
  <2>4. CASE y # s
    <3>1. PICK d \in DepSet(s) : Reaches(plan, d, y)
      BY <1>2, <2>4
    <3>2. Reaches(plan, d, z)
      BY <2>1, <3>1, ReachesOn
    <3> QED
      BY <2>2, <3>2
  <2> QED
    BY <2>3, <2>4
<1>3. Closed(plan, R) /\ s \in R
  BY <1>2 DEF Closed
<1>4. x \in R
  <2> HIDE DEF R
  <2> QED
    BY <1>1, <1>3 DEF Reaches
<1> QED
  BY <1>4

\* A dependency does not lead back to its stage, nor to an earlier dependency.
LEMMA ReachesApart ==
  ASSUME plan \in Plans, NEW s \in Stages, NEW i \in DOMAIN Deps(s)
  PROVE  /\ ~Reaches(plan, Deps(s)[i], s)
         /\ \A j \in DOMAIN Deps(s) : j < i => ~Reaches(plan, Deps(s)[i], Deps(s)[j])
<1>1. PICK R \in SUBSET (Stages \ ({s} \cup {plan.deps[s][j] : j \in 1 .. i - 1})) :
         plan.deps[s][i] \in R /\ Closed(plan, R)
  BY PlanShape DEF InDepthOnce, Deps
<1>2. R \in SUBSET Stages /\ s \notin R /\ \A j \in 1 .. i - 1 : plan.deps[s][j] \notin R
  BY <1>1
<1>3. \A j \in DOMAIN Deps(s) : j < i => j \in 1 .. i - 1
  <2>1. Deps(s) \in Seq(Stages)
    BY PlanType
  <2> QED
    BY <2>1, LenProperties
<1> QED
  BY <1>1, <1>2, <1>3 DEF Reaches, Deps

\* The stages behind the load, and the gates among them that wait for it.
Behind == CHOOSE B \in SUBSET Stages : LeadToLoad(plan, B)

Gate(s) == s \in Threaded /\ Enabled(s) /\ Load \in DepSet(s)

LEMMA BehindFacts ==
  ASSUME plan \in Plans
  PROVE  /\ Behind \subseteq Stages /\ Watch \in Behind /\ Enabled(Load)
         /\ \A s \in Updates : Enabled(s) => s \in Behind
         /\ \A s \in Behind : Gate(s) \/ \E d \in DepSet(s) : d \in Behind
<1>1. \E B \in SUBSET Stages : LeadToLoad(plan, B)
  BY PlanShape DEF BehindLoad
<1>2. Behind \in SUBSET Stages /\ LeadToLoad(plan, Behind)
  BY <1>1, Zenon DEF Behind
<1>3. \A s \in Behind : Gate(s) \/ \E d \in DepSet(s) : d \in Behind
  BY <1>2 DEF LeadToLoad, Gate, DepSet, Deps, Enabled
<1>4. Enabled(Load)
  BY PlanShape DEF BehindLoad, Enabled
<1> QED
  BY <1>2, <1>3, <1>4 DEF LeadToLoad, Enabled
-----------------------------------------------------------------------------
(* The calls in progress, as such a plan nests them.                         *)

OnStack(s) == \E k \in 1 .. Len(stack) : stack[k].stage = s

Rooted == stack # <<>> => stack[1].stage = Root

\* Every call is reached from those it is in.
Nested ==
  \A k \in 1 .. Len(stack) : \A i \in 1 .. k :
    Reaches(plan, stack[i].stage, stack[k].stage)

Geometry == Rooted /\ Nested /\ \A s : OnStack(s) => s \in started

\* The calls after the step: m of them, the innermost one f, the others as before.
Moved(m, f) ==
  /\ m \in 1 .. Len(stack) + 1 /\ f \in Frames
  /\ Len(stack') = m /\ stack'[m] = f
  /\ \A k \in 1 .. m - 1 : stack'[k] = stack[k]

\* A call in its loop waits for what it has called.
WaitsForSeen ==
  \A k \in 1 .. Len(stack) :
    stack[k].mode = "loop" => stack[k].wait \subseteq Seen(plan, stack[k])

LEMMA StackFrames ==
  ASSUME OrderInv
  PROVE  /\ stack \in Seq(Frames) /\ Len(stack) \in Nat /\ plan \in Plans
         /\ \A k \in 1 .. Len(stack) :
              /\ k \in Nat \ {0} /\ stack[k] \in Frames /\ stack[k].stage \in Stages
              /\ stack[k].next \in Nat \ {0} /\ stack[k].wait \subseteq Stages
              /\ Deps(stack[k].stage) = plan.deps[stack[k].stage]
              /\ Deps(stack[k].stage) \in Seq(Stages)
              /\ DOMAIN Deps(stack[k].stage) \subseteq Nat \ {0}
         /\ stack # <<>> => Len(stack) \in 1 .. Len(stack) /\ Top = stack[Len(stack)]
<1>1. stack \in Seq(Frames) /\ plan \in Plans
  BY DEF OrderInv, TypeOK, CallsTyped
<1>2. Len(stack) \in Nat
  BY <1>1, LenProperties
<1>3. ASSUME NEW k \in 1 .. Len(stack)
      PROVE  /\ stack[k] \in Frames /\ stack[k].stage \in Stages
             /\ stack[k].next \in Nat \ {0} /\ stack[k].wait \subseteq Stages
             /\ Deps(stack[k].stage) = plan.deps[stack[k].stage]
             /\ Deps(stack[k].stage) \in Seq(Stages)
             /\ DOMAIN Deps(stack[k].stage) \subseteq Nat \ {0}
  <2>1. stack[k] \in Frames
    BY <1>1, ElementOfSeq
  <2>2. /\ stack[k].stage \in Stages /\ stack[k].next \in Nat \ {0}
        /\ stack[k].wait \subseteq Stages
    BY <2>1 DEF Frames
  <2>3. Deps(stack[k].stage) \in Seq(Stages)
    BY <1>1, <2>2, PlanType
  <2>4. DOMAIN Deps(stack[k].stage) \subseteq Nat \ {0}
    BY <2>3, LenProperties
  <2> QED
    BY <2>1, <2>2, <2>3, <2>4 DEF Deps
<1>4. stack # <<>> => Len(stack) \in 1 .. Len(stack)
  BY <1>1, TopType
<1> QED
  BY <1>1, <1>2, <1>3, <1>4 DEF Top

\* A call is at the dependency that is the next call.
LEMMA NextCall ==
  ASSUME OrderInv, NEW k \in 1 .. Len(stack) - 1
  PROVE  /\ k \in 1 .. Len(stack) /\ k + 1 \in 1 .. Len(stack)
         /\ stack[k].mode = "loop" /\ stack[k].next \in DOMAIN Deps(stack[k].stage)
         /\ Deps(stack[k].stage)[stack[k].next] = stack[k + 1].stage
<1>1. Len(stack) \in Nat
  BY StackFrames
<1>2. k \in 1 .. Len(stack) /\ k + 1 \in 1 .. Len(stack)
  BY <1>1
<1> QED
  BY <1>2 DEF OrderInv, Order, CallsOK, Calls, Deps

\* No stage is called while it is.
LEMMA StagesDiffer ==
  ASSUME OrderInv, Nested, NEW k \in 1 .. Len(stack), NEW i \in 1 .. Len(stack), i < k
  PROVE  stack[i].stage # stack[k].stage
<1>1. i \in 1 .. Len(stack) - 1 /\ i + 1 \in 1 .. k
  BY StackFrames
<1>2. Reaches(plan, stack[i + 1].stage, stack[k].stage)
  BY <1>1 DEF Nested
<1>3. /\ stack[i].next \in DOMAIN Deps(stack[i].stage) /\ stack[i].stage \in Stages
      /\ Deps(stack[i].stage)[stack[i].next] = stack[i + 1].stage
  BY <1>1, NextCall, StackFrames
<1>4. ~Reaches(plan, stack[i + 1].stage, stack[i].stage)
  BY <1>3, ReachesApart, StackFrames
<1> QED
  BY <1>2, <1>4

\* The next dependency is in no call, and no call waits for it.
LEMMA NextIsElsewhere ==
  ASSUME OrderInv, Nested, WaitsForSeen, stack # <<>>, Top.mode = "loop",
         Top.next \in DOMAIN Deps(Top.stage), NEW d, d = Deps(Top.stage)[Top.next]
  PROVE  /\ ~OnStack(d)
         /\ \A k \in 1 .. Len(stack) : d \notin stack[k].wait
<1> SUFFICES ASSUME NEW k \in 1 .. Len(stack)
             PROVE  stack[k].stage # d /\ d \notin stack[k].wait
  BY DEF OnStack
<1> DEFINE s == stack[k].stage
           n == stack[k].next
<1>1. /\ stack[k].mode = "loop" /\ n \in DOMAIN Deps(s) /\ s \in Stages /\ plan \in Plans
      /\ Reaches(plan, Deps(s)[n], d)
  <2>1. CASE k = Len(stack)
    BY <2>1, StackFrames, ReachesSelf
  <2>2. CASE k # Len(stack)
    <3>1. k \in 1 .. Len(stack) - 1 /\ Len(stack) \in 1 .. Len(stack) /\ k + 1 \in 1 .. Len(stack)
      BY <2>2, StackFrames
    <3>2. /\ stack[k].mode = "loop" /\ n \in DOMAIN Deps(s)
          /\ Deps(s)[n] = stack[k + 1].stage
      BY <3>1, NextCall
    <3>3. Reaches(plan, stack[k + 1].stage, Top.stage)
      BY <3>1, StackFrames DEF Nested
    <3>4. d \in DepSet(Top.stage)
      BY DepIn
    <3> QED
      BY <3>2, <3>3, <3>4, ReachesOn, StackFrames
  <2> QED
    BY <2>1, <2>2
<1>2. /\ ~Reaches(plan, Deps(s)[n], s)
      /\ \A j \in DOMAIN Deps(s) : j < n => ~Reaches(plan, Deps(s)[n], Deps(s)[j])
  BY <1>1, ReachesApart
<1>3. \A x \in stack[k].wait : \E j \in DOMAIN Deps(s) : j < n /\ x = Deps(s)[j]
  BY <1>1 DEF WaitsForSeen, Seen, Deps
<1> QED
  BY <1>1, <1>2, <1>3

\* The innermost call goes on.
LEMMA StaysGeometry ==
  ASSUME OrderInv, Geometry, plan' = plan, started \subseteq started', stack # <<>>,
         NEW f, Moved(Len(stack), f), f.stage = Top.stage
  PROVE  Geometry' /\ \A s : OnStack(s)' <=> OnStack(s)
<1>1. /\ Len(stack') = Len(stack) /\ 1 \in 1 .. Len(stack)
      /\ \A k \in 1 .. Len(stack) : k = Len(stack) \/ k \in 1 .. Len(stack) - 1
  BY StackFrames DEF Moved
<1>2. \A k \in 1 .. Len(stack) : stack'[k].stage = stack[k].stage
  BY <1>1, StackFrames DEF Moved
<1>3. \A s : OnStack(s)' <=> OnStack(s)
  BY <1>1, <1>2 DEF OnStack
<1>4. Rooted' /\ Nested'
  BY <1>1, <1>2 DEF Geometry, Rooted, Nested
<1> QED
  BY <1>3, <1>4 DEF Geometry

\* A dependency of the innermost call is called.
LEMMA PushGeometry ==
  ASSUME OrderInv, Geometry, plan' = plan, started \subseteq started', stack # <<>>,
         NEW f, Moved(Len(stack) + 1, f), f.stage \in DepSet(Top.stage), f.stage \in started'
  PROVE  Geometry' /\ \A s : OnStack(s)' <=> OnStack(s) \/ s = f.stage
<1> DEFINE n == Len(stack)
<1>1. /\ Len(stack') = n + 1 /\ stack'[n + 1] = f /\ n \in 1 .. n /\ 1 \in 1 .. n
      /\ \A k \in 1 .. n + 1 : k = n + 1 \/ k \in 1 .. n
      /\ \A k \in 1 .. n : k \in 1 .. n + 1 /\ k # n + 1 /\ stack'[k] = stack[k]
  BY StackFrames DEF Moved
<1>2. \A s : OnStack(s)' <=> OnStack(s) \/ s = f.stage
  BY <1>1 DEF OnStack
<1>3. Rooted'
  BY <1>1 DEF Geometry, Rooted
<1>4. ASSUME NEW k \in 1 .. n + 1, NEW i \in 1 .. k
      PROVE  Reaches(plan, stack'[i].stage, stack'[k].stage)
  <2>1. CASE k \in 1 .. n
    <3>1. i \in 1 .. n
      BY <2>1, <1>1
    <3> QED
      BY <1>1, <2>1, <3>1 DEF Geometry, Nested
  <2>2. CASE k = n + 1 /\ i = n + 1
    BY <1>1, <2>2, ReachesSelf
  <2>3. CASE k = n + 1 /\ i \in 1 .. n
    <3>1. Reaches(plan, stack[i].stage, Top.stage)
      BY <1>1, <2>3, StackFrames DEF Geometry, Nested
    <3> QED
      BY <1>1, <2>3, <3>1, ReachesOn
  <2>4. i \in 1 .. n \/ i = n + 1
    BY <1>1
  <2> QED
    BY <1>1, <2>1, <2>2, <2>3, <2>4
<1> QED
  BY <1>1, <1>2, <1>3, <1>4 DEF Geometry, Nested

\* The innermost call returns.
LEMMA ReturnGeometry ==
  ASSUME OrderInv, Geometry, plan' = plan, started \subseteq started', stack # <<>>,
         Len(stack) # 1, NEW f, Moved(Len(stack) - 1, f), f.stage = stack[Len(stack) - 1].stage
  PROVE  /\ Geometry' /\ \A s : OnStack(s)' => OnStack(s)
         /\ \A s : OnStack(s) => OnStack(s)' \/ s = Top.stage
<1> DEFINE n == Len(stack) - 1
<1>1. /\ Len(stack') = n /\ n \in 1 .. n /\ 1 \in 1 .. n /\ Len(stack) = n + 1
      /\ \A k \in 1 .. n + 1 : k = n + 1 \/ k \in 1 .. n
      /\ \A k \in 1 .. n : k \in 1 .. n + 1
      /\ \A k \in 1 .. n : k = n \/ k \in 1 .. n - 1
  BY StackFrames DEF Moved
<1>2. \A k \in 1 .. n : stack'[k].stage = stack[k].stage
  BY <1>1 DEF Moved
<1>3. /\ \A s : OnStack(s)' => OnStack(s)
      /\ \A s : OnStack(s) => OnStack(s)' \/ s = Top.stage
  BY <1>1, <1>2, StackFrames DEF OnStack
<1>4. Rooted'
  BY <1>1, <1>2 DEF Geometry, Rooted
<1>5. ASSUME NEW k \in 1 .. n, NEW i \in 1 .. k
      PROVE  Reaches(plan, stack'[i].stage, stack'[k].stage)
  <2>1. i \in 1 .. n /\ k \in 1 .. Len(stack)
    BY <1>1
  <2>2. Reaches(plan, stack[i].stage, stack[k].stage)
    BY <2>1 DEF Geometry, Nested
  <2> QED
    BY <1>2, <2>1, <2>2
<1> QED
  BY <1>1, <1>3, <1>4, <1>5 DEF Geometry, Nested
-----------------------------------------------------------------------------
(* What the steps do to the threads and to the calls.                        *)

\* What no step undoes, and that a thread starts where StartThread starts it.
Later ==
  /\ plan' = plan /\ started \subseteq started' /\ done \subseteq done' /\ clean \subseteq clean'
  /\ stopped => stopped'
  /\ \A s \in Threaded :
       /\ thread[s] = "new" => thread'[s] = "new" \/ (StartThread /\ s = Top.stage)
       /\ thread[s] # "new" => thread'[s] # "new"
       /\ thread[s] = "joined" => thread'[s] = "joined"
       /\ s \in done' \ done => thread[s] = "alive" \/ ~Enabled(s)

\* The calls of start are as they were, or there are none.
Still == UNCHANGED <<stack, started>>

Ended == stack' = <<>> /\ UNCHANGED started

\* The innermost call is at its dependency d.
AtCall(d) ==
  /\ stack # <<>> /\ Top.mode = "loop" /\ ~stopped
  /\ Top.next \in DOMAIN Deps(Top.stage) /\ d = Deps(Top.stage)[Top.next] /\ d \in Stages

\* It calls d, the dump or the load, which returns at once.
CallsBack(d) ==
  /\ AtCall(d) /\ d \in started /\ UNCHANGED <<started, stopped>>
  /\ Moved(Len(stack), Called(Top, d))

\* It calls d for the first time, or again.
CallsNew(d) ==
  /\ AtCall(d) /\ d \notin started /\ started' = started \cup {d}
  /\ Moved(Len(stack) + 1, Frame(d)) /\ UNCHANGED work

CallsOld(d, f) ==
  /\ AtCall(d) /\ d \in started \ {Dump, Load} /\ UNCHANGED <<started, work>>
  /\ Moved(Len(stack) + 1, f) /\ f.stage = d
  /\ f.mode = "again" \/ (f.mode = "leave" /\ f.wait = {})

\* It goes on, with all its dependencies looked at if there is no stop.
GoesOn(f) ==
  /\ stack # <<>> /\ UNCHANGED started
  /\ Moved(Len(stack), f) /\ f.stage = Top.stage /\ f.mode # "loop"
  /\ f.mode = "mark" => Top.stage = Dump
  /\ Top.mode # "mark"
  /\ ~stopped' =>
       /\ Top.mode = "loop" => Seen(plan, Top) = DepSet(Top.stage)
       /\ f.mode \in {"leave", "mark"} => f.wait = {} \/ (f.wait = Top.wait /\ Top.mode = "leave")
       /\ \A x \in Top.wait :
            \/ x \in f.wait \/ x \in done' \/ Top.mode = "leave"
            \/ x \notin Threaded \ {Dump, Watch}
  /\ StartThread => f.mode = "mark"

\* It returns.
Returns ==
  /\ stack # <<>> /\ Len(stack) # 1 /\ UNCHANGED <<started, finished>>
  /\ Top.mode \in {"leave", "mark"}
  /\ Moved(Len(stack) - 1, Called(stack[Len(stack) - 1], Top.stage))
  /\ Top.stage \in Threaded /\ Enabled(Top.stage) => thread'[Top.stage] # "new"

LEMMA BecomeMoved ==
  ASSUME OrderInv, stack # <<>>, NEW f \in Frames, Become(f)
  PROVE  Moved(Len(stack), f)
<1>1. stack \in Seq(Frames)
  BY StackFrames
<1> QED
  BY <1>1, BecomeShape DEF Moved

LEMMA PushMoved ==
  ASSUME OrderInv, stack # <<>>, NEW f \in Frames, stack' = Append(stack, f)
  PROVE  Moved(Len(stack) + 1, f)
<1>1. stack \in Seq(Frames)
  BY StackFrames
<1>2. /\ Len(stack') = Len(stack) + 1 /\ Len(stack) \in Nat \ {0}
      /\ \A i \in 1 .. Len(stack) : stack'[i] = stack[i]
      /\ stack'[Len(stack) + 1] = f
  BY <1>1, PushShape
<1> QED
  BY <1>2 DEF Moved

LEMMA ReturnMoved ==
  ASSUME OrderInv, stack # <<>>, Len(stack) # 1, Return
  PROVE  Moved(Len(stack) - 1, Called(stack[Len(stack) - 1], Top.stage))
<1> DEFINE n == Len(stack) - 1
<1>1. stack \in Seq(Frames) /\ Len(stack) \in 1 .. Len(stack)
  BY StackFrames
<1>2. /\ Len(stack') = n /\ Len(stack) \in Nat \ {0}
      /\ \A i \in 1 .. Len(stack) - 2 : stack'[i] = stack[i]
      /\ stack'[n] = Called(stack[n], Top.stage)
  BY <1>1, ReturnShape
<1>3. n \in 1 .. Len(stack) /\ n - 1 = Len(stack) - 2
  BY <1>2
<1>4. Called(stack[n], Top.stage) \in Frames
  BY <1>1, <1>3, StackFrames, CalledType
<1> QED
  BY <1>2, <1>3, <1>4 DEF Moved

\* Root is not left by a return.
LEMMA RootStays ==
  ASSUME OrderInv, Rooted, stack # <<>>, Top.stage # Root
  PROVE  Len(stack) # 1
BY DEF Rooted, Top

\* Threads and stops only go on, and only StartThread starts a thread.
LEMMA LaterFrom ==
  ASSUME UNCHANGED <<plan, clean, thread, done>>, started \subseteq started', stopped => stopped'
  PROVE  Later
BY DEF Later

LEMMA LaterOrchestrate ==
  ASSUME OrderInv, Orchestrate \/ TunnelWorks
  PROVE  Later
<1>1. thread \in [Threaded -> {"new", "alive", "exiting", "dead", "joined"}]
  BY DEF OrderInv, TypeOK, ThreadsTyped
<1>2. CASE CallDependency \/ CallAgain \/ Cancel \/ LoopOver \/ PollAborted \/ WaitOver
  BY <1>2, LaterFrom DEF CallDependency, CallAgain, Cancel, LoopOver, PollAborted, WaitOver, work
<1>3. CASE PollFailed \/ LeaveRoot \/ LeavePlain \/ TunnelFails \/ StartFails \/ MarkStarting
  BY <1>3, LaterFrom DEF PollFailed, LeaveRoot, LeavePlain, TunnelFails, StartFails,
       MarkStarting, work
<1>4. CASE Poll \/ TunnelWorks
  <2>1. PICK d : Finish(d)
    BY <1>4 DEF Poll, TunnelWorks
  <2>2. /\ UNCHANGED <<plan, started, stopped, done, clean>>
        /\ \/ UNCHANGED thread
           \/ thread' = [thread EXCEPT ![d] = IF @ = "exiting" THEN "joined" ELSE @]
    BY <2>1 DEF Finish
  <2> QED
    BY <1>1, <2>2 DEF Later
<1>5. CASE Skip
  <2>1. /\ UNCHANGED <<plan, started, stopped, thread, clean>>
        /\ done' = done \cup {Top.stage} /\ (~Enabled(Top.stage) \/ Top.stage \in done)
    BY <1>5 DEF Skip
  <2> QED
    BY <2>1 DEF Later
<1>6. CASE StartThread
  <2>1. /\ UNCHANGED <<plan, started, stopped, done>> /\ thread[Top.stage] = "new"
        /\ thread' = [thread EXCEPT ![Top.stage] = "alive"]
        /\ clean \subseteq clean'
    BY <1>6 DEF StartThread
  <2> QED
    BY <1>1, <1>6, <2>1 DEF Later
<1> QED
  BY <1>2, <1>3, <1>4, <1>5, <1>6 DEF Orchestrate

LEMMA LaterWork ==
  ASSUME OrderInv, NEW s \in Threaded, Work(s)
  PROVE  Later /\ Still
<1>1. thread \in [Threaded -> {"new", "alive", "exiting", "dead", "joined"}]
  BY DEF OrderInv, TypeOK, ThreadsTyped
<1>2. ASSUME NEW x \in Threaded, NEW e, Ends(x, e) PROVE Later /\ Still
  <2>1. /\ UNCHANGED <<plan, stack, started, stopped, clean>> /\ thread[x] = "alive"
        /\ \/ thread' = [thread EXCEPT ![x] = "exiting"]
           \/ thread' = [thread EXCEPT ![x] = "dead"]
        /\ done \subseteq done' /\ done' \subseteq done \cup {x}
    BY <1>2 DEF Ends, calls
  <2> QED
    BY <1>1, <2>1 DEF Later, Still
<1>3. CASE WorkDone(s) \/ WorkFails(s) \/ WorkAborts(s)
  BY <1>2, <1>3 DEF WorkDone, WorkFails, WorkAborts
<1>4. CASE ThreadExits(s)
  <2>1. /\ UNCHANGED <<plan, stack, started, stopped, clean, done>> /\ thread[s] = "exiting"
        /\ thread' = [thread EXCEPT ![s] = "dead"]
    BY <1>4 DEF ThreadExits, calls
  <2> QED
    BY <1>1, <2>1 DEF Later, Still
<1>5. CASE FindDump \/ DumpData \/ RetryDump \/ DumpSucceeds \/ DumpErrs \/ LoadChecks \/ LoadBegins
  <2>1. UNCHANGED <<plan, calls, thread, done, clean>>
    BY <1>5 DEF FindDump, DumpData, RetryDump, DumpSucceeds, DumpErrs, LoadChecks, LoadBegins
  <2> QED
    BY <2>1, LaterFrom DEF Still, calls
<1>6. CASE DumpEnds \/ DumpDies \/ LoadEnds
  BY <1>2, <1>6, Distinct DEF DumpEnds, DumpDies, LoadEnds
<1> QED
  BY <1>3, <1>4, <1>5, <1>6 DEF Work, DumpWork, LoadWork

LEMMA LaterNext ==
  ASSUME OrderInv, [Next]_vars
  PROVE  Later
<1>1. CASE Abort
  BY <1>1, LaterFrom DEF Abort, work
<1>2. CASE AbortReturns
  BY <1>2, LaterFrom DEF AbortReturns, work
<1>3. CASE UNCHANGED vars
  BY <1>3, LaterFrom DEF vars, calls, work
<1>4. CASE Orchestrate \/ TunnelWorks \/ \E s \in Threaded : Work(s)
  BY <1>4, LaterOrchestrate, LaterWork
<1> QED
  BY <1>1, <1>2, <1>3, <1>4 DEF Next

\* The calls of start after each step.
KindOfStep ==
  \/ Still
  \/ Ended
  \/ \E d \in Stages : CallsBack(d)
  \/ \E d \in Stages : CallsNew(d)
  \/ \E d \in Stages, f \in Frames : CallsOld(d, f)
  \/ \E f \in Frames : GoesOn(f)
  \/ Returns

LEMMA CallDependencyKind ==
  ASSUME OrderInv, CallDependency
  PROVE  KindOfStep
<1> DEFINE d == Deps(Top.stage)[Top.next]
<1>1. /\ stack # <<>> /\ Top.mode = "loop" /\ Top.next <= Len(Deps(Top.stage)) /\ ~stopped
      /\ d \notin started /\ started' = started \cup {d} /\ stack' = Append(stack, Frame(d))
      /\ UNCHANGED work
  BY DEF CallDependency, At
<1>2. d \in Stages /\ Top.next \in DOMAIN Deps(Top.stage)
  BY <1>1, TopDeps, NextDependency DEF OrderInv
<1>3. Moved(Len(stack) + 1, Frame(d))
  BY <1>1, <1>2, FrameType, PushMoved
<1> QED
  BY <1>1, <1>2, <1>3 DEF KindOfStep, CallsNew, AtCall

LEMMA CallAgainKind ==
  ASSUME OrderInv, CallAgain
  PROVE  KindOfStep
<1> DEFINE d == Deps(Top.stage)[Top.next]
           left == {x \in DepSet(d) : x \notin finished /\ Enabled(x)}
           leave == [Frame(d) EXCEPT !.mode = "leave"]
           again == [Frame(d) EXCEPT !.mode = "again", !.wait = left]
<1>1. /\ stack # <<>> /\ Top.mode = "loop" /\ Top.next <= Len(Deps(Top.stage)) /\ ~stopped
      /\ d \in started /\ UNCHANGED <<started, stopped, work>>
  BY DEF CallAgain, At
<1>2. d \in Stages /\ Top.next \in DOMAIN Deps(Top.stage) /\ plan \in Plans /\ Top \in Frames
  BY <1>1, TopDeps, NextDependency DEF OrderInv
<1>3. AtCall(d)
  BY <1>1, <1>2 DEF AtCall
<1>4. left \in SUBSET Stages
  BY <1>2, PlanType
<1>5. leave \in Frames /\ again \in Frames
  BY <1>2, <1>4, FrameType, WithFields DEF Modes
<1>6. /\ leave.stage = d /\ leave.mode = "leave" /\ leave.wait = {}
      /\ again.stage = d /\ again.mode = "again"
  BY <1>5 DEF Frame
<1>7. CASE d \in {Dump, Load}
  <2>1. Become(Called(Top, d))
    BY <1>7 DEF CallAgain
  <2>2. Moved(Len(stack), Called(Top, d))
    BY <1>1, <1>2, <2>1, CalledType, BecomeMoved
  <2> QED
    BY <1>1, <1>2, <1>3, <2>2 DEF KindOfStep, CallsBack
<1>8. CASE d \notin {Dump, Load}
  <2>1. PICK f \in {leave, again} : stack' = Append(stack, f)
    BY <1>8 DEF CallAgain
  <2>2. f \in Frames /\ Moved(Len(stack) + 1, f)
    BY <1>1, <1>5, <2>1, PushMoved
  <2>3. CallsOld(d, f)
    BY <1>1, <1>3, <1>6, <1>8, <2>1, <2>2 DEF CallsOld
  <2> QED
    BY <1>2, <2>2, <2>3 DEF KindOfStep
<1> QED
  BY <1>7, <1>8

\* A step of the innermost call that is not in its loop any more.
LEMMA GoesOnFrom ==
  ASSUME OrderInv, stack # <<>>, UNCHANGED started, ~StartThread,
         NEW f \in Frames, Become(f), f.stage = Top.stage, f.mode \notin {"loop", "mark"},
         Top.mode # "mark",
         \/ stopped'
         \/ /\ Top.mode = "loop" => Seen(plan, Top) = DepSet(Top.stage)
            /\ f.mode = "leave" => f.wait = {}
            /\ \A x \in Top.wait :
                 x \in f.wait \/ x \in done' \/ Top.mode = "leave" \/ x \notin Threaded \ {Dump, Watch}
  PROVE  KindOfStep
<1>1. Moved(Len(stack), f)
  BY BecomeMoved
<1>2. f.mode # "loop" /\ f.mode # "mark"
  OBVIOUS
<1>3. ~stopped' => /\ Top.mode = "loop" => Seen(plan, Top) = DepSet(Top.stage)
                   /\ f.mode = "leave" => f.wait = {}
                   /\ \A x \in Top.wait :
                        x \in f.wait \/ x \in done' \/ Top.mode = "leave" \/ x \notin Threaded \ {Dump, Watch}
  OBVIOUS
<1>4. GoesOn(f)
  BY <1>1, <1>2, <1>3 DEF GoesOn
<1> QED
  BY <1>4 DEF KindOfStep

LEMMA CancelKind ==
  ASSUME OrderInv, Cancel
  PROVE  KindOfStep
<1> DEFINE f == [Top EXCEPT !.mode = "leave"]
<1>1. stack # <<>> /\ stopped /\ stopped' /\ Top.mode = "loop" /\ UNCHANGED started
  BY DEF Cancel, At
<1>2. CASE stack' = <<>>
  BY <1>1, <1>2 DEF KindOfStep, Ended
<1>3. CASE Become(f)
  <2>1. f \in Frames /\ f.stage = Top.stage /\ f.mode = "leave"
    BY <1>1, TopDeps DEF Frames, Modes
  <2>2. ~StartThread
    BY <1>1 DEF StartThread, At
  <2> QED
    BY <1>1, <1>3, <2>1, <2>2, GoesOnFrom
<1> QED
  BY <1>2, <1>3 DEF Cancel

LEMMA LoopOverKind ==
  ASSUME OrderInv, LoopOver
  PROVE  KindOfStep
<1> DEFINE m == IF Top.wait # {} /\ ~stopped THEN "wait" ELSE "leave"
           f == [Top EXCEPT !.mode = m]
<1>1. /\ stack # <<>> /\ Top.mode = "loop" /\ Top.next > Len(Deps(Top.stage))
      /\ UNCHANGED <<started, stopped>> /\ Become(f)
  BY DEF LoopOver, At
<1>2. f \in Frames /\ f.stage = Top.stage /\ f.mode = m /\ f.wait = Top.wait
  BY <1>1, TopDeps DEF Frames, Modes
<1>3. \A k \in DOMAIN Deps(Top.stage) : k < Top.next
  BY <1>1, TopDeps
<1>4. Seen(plan, Top) = DepSet(Top.stage)
  BY <1>1, <1>3, TopDeps DEF Seen, DepSet
<1>5. ~StartThread
  BY <1>1 DEF StartThread, At
<1>6. m \notin {"loop", "mark"} /\ (stopped \/ (m = "leave" => Top.wait = {}))
  OBVIOUS
<1> QED
  BY <1>1, <1>2, <1>4, <1>5, <1>6, GoesOnFrom

LEMMA FinishKind ==
  ASSUME OrderInv, Waiting, NEW d \in Top.wait, Finish(d),
         \/ Updated(d)
         \/ d = Tunnel
  PROVE  KindOfStep
<1> DEFINE f == [Top EXCEPT !.wait = Top.wait \ {d}]
<1>1. /\ stack # <<>> /\ Top.mode \in {"wait", "again", "run"}
      /\ UNCHANGED <<started, stopped, done>> /\ Become(f)
  BY DEF Waiting, Finish
<1>2. f \in Frames /\ f.stage = Top.stage /\ f.mode = Top.mode /\ f.wait = Top.wait \ {d}
  BY <1>1, TopDeps DEF Frames
<1>3. d \in done \/ d \notin Threaded \ {Dump, Watch}
  BY Distinct DEF Updated
<1>4. ~StartThread
  BY <1>1 DEF StartThread, At
<1> QED
  BY <1>1, <1>2, <1>3, <1>4, GoesOnFrom

LEMMA PollAbortedKind ==
  ASSUME OrderInv, PollAborted
  PROVE  KindOfStep
<1>1. PICK d \in Top.wait : /\ d \in Threaded /\ fatal[d] = "aborted"
                            /\ Become([Top EXCEPT !.wait = Top.wait \ {d}])
  BY Zenon DEF PollAborted, Polled
<1> DEFINE f == [Top EXCEPT !.wait = Top.wait \ {d}]
<1>2. stack # <<>> /\ Top.mode \in {"wait", "again", "run"} /\ UNCHANGED <<started, stopped>>
  BY DEF PollAborted, Waiting
<1>3. f \in Frames /\ f.stage = Top.stage /\ f.mode = Top.mode
  BY <1>2, TopDeps DEF Frames
<1>4. stopped'
  BY <1>1, <1>2 DEF OrderInv, Order, AbortOK
<1>5. ~StartThread
  BY <1>2 DEF StartThread, At
<1> QED
  BY <1>1, <1>2, <1>3, <1>4, <1>5, GoesOnFrom

LEMMA WaitOverKind ==
  ASSUME OrderInv, WaitOver
  PROVE  KindOfStep
<1> DEFINE f == [Top EXCEPT !.mode = "leave"]
<1>1. /\ stack # <<>> /\ Top.mode \in {"wait", "again", "run"} /\ Top.wait = {}
      /\ UNCHANGED <<started, stopped>>
  BY DEF WaitOver, Waiting
<1>2. CASE stack' = <<>>
  BY <1>1, <1>2 DEF KindOfStep, Ended
<1>3. CASE Become(f)
  <2>1. f \in Frames /\ f.stage = Top.stage /\ f.mode = "leave" /\ f.wait = {}
    BY <1>1, TopDeps DEF Frames, Modes
  <2>2. ~StartThread
    BY <1>1 DEF StartThread, At
  <2> QED
    BY <1>1, <1>3, <2>1, <2>2, GoesOnFrom
<1> QED
  BY <1>2, <1>3 DEF WaitOver, Raise

LEMMA LeaveRootKind ==
  ASSUME OrderInv, LeaveRoot
  PROVE  KindOfStep
<1> DEFINE f == [Top EXCEPT !.mode = "run", !.wait = DepSet(Root)]
<1>1. /\ stack # <<>> /\ Top.mode = "leave" /\ Top.stage = Root /\ Become(f)
      /\ UNCHANGED <<started, stopped>>
  BY DEF LeaveRoot, At
<1>2. DepSet(Root) \in SUBSET Stages
  BY <1>1, TopDeps, PlanType
<1>3. f \in Frames /\ f.stage = Root /\ f.mode = "run"
  BY <1>1, <1>2, TopDeps DEF Frames, Modes
<1>4. ~StartThread
  BY <1>1, Distinct DEF StartThread
<1> QED
  BY <1>1, <1>3, <1>4, GoesOnFrom

LEMMA ReturnKind ==
  ASSUME OrderInv, Rooted, stack # <<>>, Return, UNCHANGED <<started, finished>>,
         Top.stage # Root, Top.mode \in {"leave", "mark"},
         Top.stage \in Threaded /\ Enabled(Top.stage) => thread'[Top.stage] # "new"
  PROVE  KindOfStep
BY RootStays, ReturnMoved DEF KindOfStep, Returns

LEMMA LeavePlainKind ==
  ASSUME OrderInv, Rooted, LeavePlain
  PROVE  KindOfStep
<1>1. /\ stack # <<>> /\ Top.mode = "leave" /\ Top.stage \notin Threaded \cup {Root}
      /\ Return /\ UNCHANGED <<started, finished>>
  BY DEF LeavePlain, At
<1> QED
  BY <1>1, ReturnKind

LEMMA SkipKind ==
  ASSUME OrderInv, Rooted, \A s \in done : Enabled(s) => thread[s] # "new", Skip
  PROVE  KindOfStep
<1>1. /\ stack # <<>> /\ Top.mode = "leave" /\ Top.stage \in Threaded
      /\ ~Enabled(Top.stage) \/ Top.stage \in done
      /\ Return /\ UNCHANGED <<started, finished, thread>>
  BY DEF Skip, At
<1> QED
  BY <1>1, Distinct, ReturnKind

LEMMA StartThreadKind ==
  ASSUME OrderInv, Rooted, StartThread
  PROVE  KindOfStep
<1> DEFINE f == [Top EXCEPT !.mode = "mark"]
<1>1. /\ stack # <<>> /\ Top.mode = "leave" /\ Top.stage \in Threaded
      /\ thread' = [thread EXCEPT ![Top.stage] = "alive"]
      /\ UNCHANGED <<started, finished, stopped>>
      /\ IF Top.stage = Dump THEN Become(f) ELSE Return
  BY DEF StartThread, At
<1>2. thread'[Top.stage] # "new"
  BY <1>1 DEF OrderInv, TypeOK, ThreadsTyped
<1>3. CASE Top.stage = Dump
  <2>1. f \in Frames /\ f.stage = Top.stage /\ f.mode = "mark" /\ f.wait = Top.wait
    BY <1>1, TopDeps DEF Frames, Modes
  <2>2. Moved(Len(stack), f)
    BY <1>1, <1>3, <2>1, BecomeMoved
  <2>3. GoesOn(f)
    BY <1>1, <1>3, <2>1, <2>2 DEF GoesOn
  <2> QED
    BY <2>1, <2>3 DEF KindOfStep
<1>4. CASE Top.stage # Dump
  BY <1>1, <1>2, <1>4, Distinct, ReturnKind
<1> QED
  BY <1>3, <1>4

LEMMA MarkStartingKind ==
  ASSUME OrderInv, Rooted, stack # <<>> /\ Top.mode = "mark" => Top.stage = Dump, MarkStarting
  PROVE  KindOfStep
<1>1. /\ stack # <<>> /\ Top.mode = "mark" /\ Return /\ At("mark")
      /\ UNCHANGED <<started, finished, thread>>
  BY DEF MarkStarting, At
<1>2. thread[Dump] # "new"
  BY <1>1 DEF OrderInv, Order, DumpOK
<1> QED
  BY <1>1, <1>2, Distinct, ReturnKind

LEMMA StepKinds ==
  ASSUME OrderInv, Rooted, \A s \in done : Enabled(s) => thread[s] # "new",
         stack # <<>> /\ Top.mode = "mark" => Top.stage = Dump, [Next]_vars
  PROVE  KindOfStep
<1>1. CASE CallDependency \/ CallAgain \/ Cancel \/ LoopOver \/ PollAborted \/ WaitOver \/ LeaveRoot
  BY <1>1, CallDependencyKind, CallAgainKind, CancelKind, LoopOverKind, PollAbortedKind,
     WaitOverKind, LeaveRootKind
<1>2. CASE Poll \/ TunnelWorks
  BY <1>2, FinishKind DEF Poll, TunnelWorks
<1>3. CASE PollFailed \/ TunnelFails \/ StartFails
  BY <1>3 DEF PollFailed, TunnelFails, StartFails, Raise, KindOfStep, Ended
<1>4. CASE LeavePlain \/ Skip \/ StartThread \/ MarkStarting
  BY <1>4, LeavePlainKind, SkipKind, StartThreadKind, MarkStartingKind
<1>5. CASE Abort \/ AbortReturns \/ UNCHANGED vars
  BY <1>5 DEF Abort, AbortReturns, vars, calls, KindOfStep, Still
<1>6. CASE \E s \in Threaded : Work(s)
  BY <1>6, LaterWork DEF KindOfStep
<1> QED
  BY <1>1, <1>2, <1>3, <1>4, <1>5, <1>6 DEF Next, Orchestrate
-----------------------------------------------------------------------------
(* What the calls and the threads look like in every state.                  *)

FrameShape(f) ==
  /\ f.mode = "loop" => f.wait \subseteq Seen(plan, f)
  /\ f.mode = "mark" => f.stage = Dump
  /\ f.mode \in {"leave", "mark"} /\ ~stopped => f.wait = {}

Shapely == \A k \in 1 .. Len(stack) : FrameShape(stack[k])

Fresh == \A s \in Threaded : s \notin started => thread[s] = "new"

DoneStarted == \A s \in done : Enabled(s) => thread[s] # "new"

\* A thread that was started after a stop is not in clean.
CleanOK == \A s \in Threaded : thread[s] # "new" => s \in clean \/ stopped

\* What a clean stage depends on, the dump aside, is done.
CleanDeps ==
  \A s \in clean :
    /\ Enabled(s) /\ thread[s] # "new"
    /\ \A d \in DepSet(s) : d \in Threaded \ {Dump} /\ Enabled(d) => d \in done

Ground == Geometry /\ Shapely /\ Fresh /\ DoneStarted /\ CleanOK /\ CleanDeps

LEMMA MovedFrames ==
  ASSUME OrderInv, NEW m, NEW f, Moved(m, f)
  PROVE  /\ Len(stack') = m /\ m \in 1 .. m /\ m \in Nat /\ stack'[m] = f
         /\ \A k \in 1 .. m : k # m => /\ k \in 1 .. Len(stack) /\ stack'[k] = stack[k]
                                       /\ k < m /\ k \in 1 .. m - 1
BY StackFrames DEF Moved

\* The caller of a stage goes on with its next dependency.
LEMMA CalledSeen ==
  ASSUME OrderInv, NEW c \in Frames, c.mode = "loop",
         c.next \in DOMAIN plan.deps[c.stage], NEW d, d = plan.deps[c.stage][c.next]
  PROVE  /\ Called(c, d).stage = c.stage /\ Called(c, d).mode = "loop"
         /\ Called(c, d).next = c.next + 1
         /\ Called(c, d).wait =
              IF d \notin finished /\ Enabled(c.stage) THEN c.wait \cup {d} ELSE c.wait
         /\ Seen(plan, Called(c, d)) = Seen(plan, c) \cup {d}
<1> DEFINE g == Called(c, d)
<1>1. /\ g.stage = c.stage /\ g.mode = "loop" /\ g.next = c.next + 1
      /\ g.wait = IF d \notin finished /\ Enabled(c.stage) THEN c.wait \cup {d} ELSE c.wait
  BY DEF Called, Frames
<1>2. c.next \in Nat /\ DOMAIN plan.deps[c.stage] \subseteq Nat
  <2>1. plan \in Plans /\ c.stage \in Stages /\ c.next \in Nat
    BY DEF OrderInv, TypeOK, Frames
  <2>2. plan.deps[c.stage] \in Seq(Stages)
    BY <2>1, PlanType DEF Deps
  <2> QED
    BY <2>1, <2>2, LenProperties
<1>3. \A j \in DOMAIN plan.deps[c.stage] : j < c.next + 1 <=> j < c.next \/ j = c.next
  BY <1>2
<1> HIDE DEF g
<1>4. Seen(plan, g) = Seen(plan, c) \cup {d}
  BY <1>1, <1>3 DEF Seen
<1> QED
  BY <1>1, <1>4 DEF g

\* The call that a return goes back to.
LEMMA CallerOf ==
  ASSUME OrderInv, Returns
  PROVE  LET n == Len(stack) - 1
         IN /\ n \in 1 .. Len(stack) /\ n \in Nat /\ Len(stack) = n + 1
            /\ stack[n] \in Frames /\ stack[n].mode = "loop"
            /\ stack[n].next \in DOMAIN plan.deps[stack[n].stage]
            /\ plan.deps[stack[n].stage][stack[n].next] = Top.stage
            /\ Moved(n, Called(stack[n], Top.stage))
<1> DEFINE n == Len(stack) - 1
<1>1. stack # <<>> /\ Len(stack) # 1 /\ Moved(n, Called(stack[n], Top.stage))
  BY DEF Returns
<1>2. n \in 1 .. Len(stack) - 1 /\ n \in 1 .. Len(stack) /\ Len(stack) = n + 1 /\ n \in Nat
  <2>1. Len(stack) \in Nat /\ Len(stack) \in 1 .. Len(stack)
    BY <1>1, StackFrames
  <2>2. \A l \in Nat : l \in 1 .. l /\ l # 1 =>
          l - 1 \in 1 .. l - 1 /\ l - 1 \in 1 .. l /\ l = l - 1 + 1 /\ l - 1 \in Nat
    OBVIOUS
  <2> QED
    BY <1>1, <2>1, <2>2
<1>3. stack[n] \in Frames /\ plan.deps[stack[n].stage] = Deps(stack[n].stage)
  BY <1>2, StackFrames
<1> QED
  BY <1>1, <1>2, <1>3, NextCall, StackFrames

LEMMA NextOf ==
  ASSUME OrderInv, NEW d, AtCall(d)
  PROVE  /\ Top \in Frames /\ Top.mode = "loop"
         /\ Top.next \in DOMAIN plan.deps[Top.stage] /\ d = plan.deps[Top.stage][Top.next]
         /\ d \in DepSet(Top.stage)
BY TopDeps, DepIn DEF AtCall, Deps

\* The geometry after the step.
LEMMA GeometryNext ==
  ASSUME OrderInv, Geometry, Later, KindOfStep
  PROVE  Geometry'
<1>1. plan' = plan /\ started \subseteq started'
  BY DEF Later
<1>2. CASE Still
  BY <1>1, <1>2 DEF Still, Geometry, Rooted, Nested, OnStack
<1>3. CASE Ended
  <2>1. Len(stack') = 0
    BY <1>3, EmptySeq DEF Ended
  <2>2. 1 .. Len(stack') = {} /\ stack' = <<>>
    BY <1>3, <2>1 DEF Ended
  <2> QED
    BY <2>2 DEF Geometry, Rooted, Nested, OnStack
<1>4. ASSUME NEW d \in Stages, CallsBack(d) PROVE Geometry'
  <2>1. AtCall(d) /\ stack # <<>> /\ Moved(Len(stack), Called(Top, d))
    BY <1>4 DEF CallsBack, AtCall
  <2>2. Called(Top, d).stage = Top.stage
    BY <2>1, NextOf, CalledSeen
  <2> QED
    BY <1>1, <2>1, <2>2, StaysGeometry
<1>5. ASSUME NEW d \in Stages, CallsNew(d) PROVE Geometry'
  <2>1. /\ AtCall(d) /\ stack # <<>> /\ d \in started' /\ Moved(Len(stack) + 1, Frame(d))
        /\ Frame(d).stage = d
    BY <1>5 DEF CallsNew, AtCall, Frame
  <2> QED
    BY <1>1, <2>1, NextOf, PushGeometry
<1>6. ASSUME NEW d \in Stages, NEW f \in Frames, CallsOld(d, f) PROVE Geometry'
  <2>1. /\ AtCall(d) /\ stack # <<>> /\ d \in started' /\ Moved(Len(stack) + 1, f)
        /\ f.stage = d
    BY <1>1, <1>6 DEF CallsOld, AtCall
  <2> QED
    BY <1>1, <2>1, NextOf, PushGeometry
<1>7. ASSUME NEW f \in Frames, GoesOn(f) PROVE Geometry'
  BY <1>1, <1>7, StaysGeometry DEF GoesOn
<1>8. CASE Returns
  <2>1. Called(stack[Len(stack) - 1], Top.stage).stage = stack[Len(stack) - 1].stage
    BY <1>8, CallerOf, CalledSeen
  <2> QED
    BY <1>1, <1>8, <2>1, ReturnGeometry DEF Returns
<1> QED
  BY <1>2, <1>3, <1>4, <1>5, <1>6, <1>7, <1>8 DEF KindOfStep

LEMMA GroundFrames ==
  ASSUME OrderInv, Ground, Later, KindOfStep
  PROVE  Shapely'
<1> DEFINE Shape(f) == /\ f.mode = "loop" => f.wait \subseteq Seen(plan, f)
                       /\ f.mode = "mark" => f.stage = Dump
                       /\ f.mode \in {"leave", "mark"} /\ ~stopped' => f.wait = {}
<1>1. plan' = plan /\ (stopped => stopped') /\ \A k \in 1 .. Len(stack) : Shape(stack[k])
  BY DEF Later, Ground, Shapely, FrameShape
<1>2. SUFFICES ASSUME NEW k \in 1 .. Len(stack') PROVE Shape(stack'[k])
  BY <1>1 DEF Shapely, FrameShape
<1> HIDE DEF Shape
<1>3. ASSUME NEW m, NEW f, Moved(m, f), Shape(f) PROVE Shape(stack'[k])
  BY <1>1, <1>2, <1>3, MovedFrames
<1>4. CASE Still
  BY <1>1, <1>2, <1>4 DEF Still
<1>5. CASE Ended
  <2>1. Len(stack') = 0
    BY <1>5, EmptySeq DEF Ended
  <2> QED
    BY <1>2, <2>1
<1>6. ASSUME NEW c \in Frames, Shape(c), c.mode = "loop", NEW d,
             c.next \in DOMAIN plan.deps[c.stage], d = plan.deps[c.stage][c.next]
      PROVE  Shape(Called(c, d))
  <2>1. c.wait \subseteq Seen(plan, c)
    BY <1>6 DEF Shape
  <2>2. /\ Called(c, d).mode = "loop" /\ Called(c, d).wait \subseteq c.wait \cup {d}
        /\ Seen(plan, Called(c, d)) = Seen(plan, c) \cup {d}
    BY <1>6, CalledSeen
  <2> QED
    BY <2>1, <2>2 DEF Shape
<1>7. ASSUME NEW d \in Stages, CallsBack(d) PROVE Shape(stack'[k])
  <2>1. AtCall(d) /\ stack # <<>> /\ Moved(Len(stack), Called(Top, d))
    BY <1>7 DEF CallsBack, AtCall
  <2>2. Shape(Top)
    BY <1>1, <2>1, StackFrames
  <2>3. Shape(Called(Top, d))
    BY <1>6, <2>1, <2>2, NextOf
  <2> QED
    BY <1>3, <2>1, <2>3
<1>8. ASSUME NEW d \in Stages, CallsNew(d) PROVE Shape(stack'[k])
  <2>1. Moved(Len(stack) + 1, Frame(d))
    BY <1>8 DEF CallsNew
  <2>2. Shape(Frame(d))
    BY DEF Shape, Frame
  <2> QED
    BY <1>3, <2>1, <2>2
<1>9. ASSUME NEW d \in Stages, NEW f \in Frames, CallsOld(d, f) PROVE Shape(stack'[k])
  <2>1. Moved(Len(stack) + 1, f) /\ (f.mode = "again" \/ (f.mode = "leave" /\ f.wait = {}))
    BY <1>9 DEF CallsOld
  <2>2. Shape(f)
    BY <2>1 DEF Shape
  <2> QED
    BY <1>3, <2>1, <2>2
<1>10. ASSUME NEW f \in Frames, GoesOn(f) PROVE Shape(stack'[k])
  <2>1. /\ stack # <<>> /\ Moved(Len(stack), f) /\ f.stage = Top.stage /\ f.mode # "loop"
        /\ f.mode = "mark" => Top.stage = Dump
        /\ f.mode \in {"leave", "mark"} /\ ~stopped' =>
             f.wait = {} \/ (f.wait = Top.wait /\ Top.mode = "leave")
    BY <1>10 DEF GoesOn
  <2>2. Shape(Top)
    BY <1>1, <2>1, StackFrames
  <2>3. Shape(f)
    BY <2>1, <2>2 DEF Shape
  <2> QED
    BY <1>3, <2>1, <2>3
<1>11. CASE Returns
  <2> DEFINE n == Len(stack) - 1
  <2>1. Shape(Called(stack[n], Top.stage))
    BY <1>1, <1>6, <1>11, CallerOf
  <2> QED
    BY <1>3, <1>11, <2>1, CallerOf
<1> QED
  BY <1>4, <1>5, <1>7, <1>8, <1>9, <1>10, <1>11 DEF KindOfStep

LEMMA OnTop == ASSUME OrderInv, stack # <<>> PROVE OnStack(Top.stage)
BY StackFrames DEF OnStack

\* What the threads of started stages are like.
LEMMA GroundThreads ==
  ASSUME OrderInv, Ground, Later, [Next]_vars
  PROVE  Fresh' /\ DoneStarted' /\ CleanOK' /\ CleanDeps'
<1>1. /\ plan' = plan /\ started \subseteq started' /\ done \subseteq done'
      /\ clean \subseteq clean' /\ (stopped => stopped') /\ clean \subseteq Threaded
      /\ \A s : Enabled(s)' <=> Enabled(s)
      /\ \A s \in Threaded :
           /\ thread[s] = "new" => thread'[s] = "new" \/ (StartThread /\ s = Top.stage)
           /\ thread[s] # "new" => thread'[s] # "new"
           /\ s \in done' \ done => thread[s] = "alive" \/ ~Enabled(s)
  BY DEF Later, Enabled, OrderInv, TypeOK, ThreadsTyped
<1>2. ASSUME StartThread
      PROVE  /\ Top.stage \in started /\ Top.stage \in Threaded /\ Enabled(Top.stage)
             /\ thread'[Top.stage] # "new" /\ UNCHANGED stopped
             /\ clean' = IF stopped THEN clean ELSE clean \cup {Top.stage}
  <2>1. /\ stack # <<>> /\ Top.stage \in Threaded /\ Enabled(Top.stage) /\ UNCHANGED stopped
        /\ thread' = [thread EXCEPT ![Top.stage] = "alive"]
        /\ clean' = IF stopped THEN clean ELSE clean \cup {Top.stage}
    BY <1>2 DEF StartThread, At
  <2>2. Top.stage \in started
    BY <2>1, OnTop DEF Ground, Geometry
  <2> QED
    BY <2>1, <2>2 DEF OrderInv, TypeOK, ThreadsTyped
<1>3. Fresh'
  BY <1>1, <1>2 DEF Ground, Fresh
<1>4. DoneStarted'
  <2>1. done' \subseteq Threaded
    BY TypeNext DEF OrderInv, TypeOK, ThreadsTyped
  <2> QED
    BY <1>1, <2>1 DEF Ground, DoneStarted
<1>5. CleanOK'
  BY <1>1, <1>2 DEF Ground, CleanOK
<1>6. CleanDeps'
  <2>1. \A s \in Stages : DepSet(s)' = DepSet(s)
    BY <1>1 DEF DepSet, Deps
  <2>2. ASSUME NEW s \in clean
        PROVE  /\ Enabled(s) /\ thread'[s] # "new"
               /\ \A d \in DepSet(s) : d \in Threaded \ {Dump} /\ Enabled(d) => d \in done'
    BY <1>1, <2>2 DEF Ground, CleanDeps
  <2>3. ASSUME NEW s \in clean', s \notin clean
        PROVE  /\ Enabled(s) /\ thread'[s] # "new" /\ s \in Threaded
               /\ \A d \in DepSet(s) : d \in Threaded \ {Dump} /\ Enabled(d) => d \in done'
    <3>1. StartThread
      BY <2>3, CleanByStart
    <3>2. s = Top.stage
      BY <1>2, <2>3, <3>1
    <3>3. \A d \in DepSet(s) : WorkIsOver(d)
      BY <2>3, StartsInOrder
    <3>4. \A d \in DepSet(s) : d \in Threaded \ {Dump} /\ Enabled(d) => d \in done'
      BY <1>1, <3>3 DEF WorkIsOver
    <3> QED
      BY <1>2, <3>1, <3>2, <3>4
  <2>4. clean' \subseteq Stages
    BY <1>1, <2>3, Distinct
  <2> QED
    BY <1>1, <2>1, <2>2, <2>3, <2>4 DEF CleanDeps
<1> QED
  BY <1>3, <1>4, <1>5, <1>6

\* What StepKinds needs of the state is part of the invariant.
LEMMA GroundKinds ==
  ASSUME OrderInv, Ground, [Next]_vars
  PROVE  KindOfStep
<1>1. stack # <<>> /\ Top.mode = "mark" => Top.stage = Dump
  BY StackFrames DEF Ground, Shapely, FrameShape
<1> QED
  BY <1>1, StepKinds DEF Ground, Geometry, DoneStarted

LEMMA GroundNext ==
  ASSUME OrderInv, Ground, [Next]_vars
  PROVE  Ground' /\ Later /\ KindOfStep
<1>1. Later /\ KindOfStep
  BY LaterNext, GroundKinds
<1>2. Geometry' /\ Shapely'
  BY <1>1, GeometryNext, GroundFrames DEF Ground
<1> QED
  BY <1>1, <1>2, GroundThreads DEF Ground

LEMMA GroundInit == ASSUME Init PROVE Ground
<1>1. /\ stack = <<Frame(Root)>> /\ started = {Root} /\ done = {} /\ clean = {}
      /\ thread = [s \in Threaded |-> "new"]
  BY Zenon DEF Init
<1>2. /\ stack # <<>> /\ Len(stack) = 1 /\ stack[1].stage = Root /\ stack[1].mode = "loop"
      /\ stack[1].wait = {}
  BY <1>1 DEF Frame
<1>3. \A k \in 1 .. Len(stack) : k = 1 /\ \A i \in 1 .. k : i = 1
  BY <1>2
<1>4. Geometry
  BY <1>1, <1>2, <1>3, ReachesSelf DEF Geometry, Rooted, Nested, OnStack
<1>5. Shapely
  BY <1>2, <1>3 DEF Shapely, FrameShape
<1> QED
  BY <1>1, <1>4, <1>5 DEF Ground, Fresh, DoneStarted, CleanOK, CleanDeps
-----------------------------------------------------------------------------
(* Unless a stop is requested, a call of start that returned has started all *)
(* that it reaches, and waited for the load if its stage is behind it.       *)

ReachesStarted(s) == \A x \in Stages : Reaches(plan, s, x) => x \in started

\* A call of start of s returned.
Settled(s) ==
  /\ ReachesStarted(s)
  /\ s \in Behind => Load \in done
  /\ s \in Threaded /\ Enabled(s) => thread[s] # "new"

\* A call of start of s has made all its calls.
Through(s) ==
  /\ ReachesStarted(s)
  /\ s \in Behind /\ ~Gate(s) => Load \in done

FrameSound(f) ==
  /\ f.mode = "loop" => \A d \in Seen(plan, f) : Settled(d)
  /\ f.mode # "loop" => Through(f.stage)

InCalls(f) == \E k \in 1 .. Len(stack) : stack[k] = f

Sound == ~stopped => \A f : InCalls(f) => FrameSound(f)

\* A stage whose start was called is in a call, or returned.
Returned == ~stopped /\ stack # <<>> => \A s \in started : OnStack(s) \/ Settled(s)

\* A stage behind the load starts its thread after the load.
CleanBehind == \A s \in clean : s \in Behind => Load \in done

CongratsLast ==
  /\ Congrats \in started =>
       Load \in done /\ (plan.hot => \A s \in DepSet(Congrats) : s \in done)
  /\ status = "ready" => Congrats \in started

LoadInv == Sound /\ Returned /\ CleanBehind /\ CongratsLast

LEMMA TopInCalls == ASSUME OrderInv, stack # <<>> PROVE InCalls(Top)
BY StackFrames DEF InCalls

\* What settled, and what made its calls, stays so.
LEMMA SettledStays ==
  ASSUME OrderInv, Later, NEW s
  PROVE  /\ Settled(s) => Settled(s)'
         /\ Through(s) => Through(s)'
<1>1. /\ plan' = plan /\ started \subseteq started' /\ done \subseteq done'
      /\ \A x \in Threaded : thread[x] # "new" => thread'[x] # "new"
  BY DEF Later
<1>2. Behind' = Behind
  BY <1>1 DEF Behind
<1>3. (Gate(s)' <=> Gate(s)) /\ (Enabled(s)' <=> Enabled(s))
  BY <1>1 DEF Gate, Enabled, DepSet, Deps
<1>4. ReachesStarted(s) => ReachesStarted(s)'
  BY <1>1 DEF ReachesStarted
<1> QED
  BY <1>1, <1>2, <1>3, <1>4 DEF Settled, Through

\* A stage whose dependencies were all called has made all its calls.
LEMMA ThroughAll ==
  ASSUME OrderInv, NEW s \in Stages, s \in started, \A d \in DepSet(s) : Settled(d)
  PROVE  Through(s)
<1>1. plan \in Plans
  BY DEF OrderInv, TypeOK
<1>2. ReachesStarted(s)
  <2> SUFFICES ASSUME NEW x \in Stages, Reaches(plan, s, x), x # s PROVE x \in started
    BY DEF ReachesStarted
  <2>1. PICK d \in DepSet(s) : Reaches(plan, d, x)
    BY <1>1, ReachesSplit
  <2> QED
    BY <2>1 DEF Settled, ReachesStarted
<1>3. s \in Behind /\ ~Gate(s) => Load \in done
  BY <1>1, BehindFacts DEF Settled
<1> QED
  BY <1>2, <1>3 DEF Through

\* A gate that started its thread before a stop did so after the load.
LEMMA GateLoaded ==
  ASSUME OrderInv, Ground', Later, NEW s \in clean', Gate(s)
  PROVE  Load \in done'
<1>1. /\ plan \in Plans /\ DepSet(s)' = DepSet(s) /\ (Enabled(Load)' <=> Enabled(Load))
  BY DEF Later, Enabled, DepSet, Deps, OrderInv, TypeOK
<1>2. Load \in DepSet(s) /\ Enabled(Load) /\ Load \in Threaded \ {Dump}
  BY <1>1, BehindFacts, StageAssumption DEF Gate
<1> QED
  BY <1>1, <1>2 DEF Ground, CleanDeps

LEMMA GateReturns ==
  ASSUME OrderInv, Ground', Later, ~stopped', NEW s \in Stages, Through(s)',
         s \in Threaded /\ Enabled(s) => thread'[s] # "new"
  PROVE  Settled(s)'
<1>1. /\ Behind' = Behind /\ (Gate(s)' <=> Gate(s)) /\ (Enabled(s)' <=> Enabled(s))
  BY DEF Later, Behind, Gate, Enabled, DepSet, Deps
<1>2. CASE Gate(s)
  <2>1. s \in clean'
    BY <1>2 DEF Gate, Ground, CleanOK
  <2> QED
    BY <1>1, <1>2, <2>1, GateLoaded DEF Through, Settled
<1>3. CASE ~Gate(s)
  BY <1>1, <1>3 DEF Through, Settled
<1> QED
  BY <1>2, <1>3

\* What is called again has settled.
LEMMA CalledSettled ==
  ASSUME OrderInv, Ground, LoadInv, NEW d \in started, AtCall(d)
  PROVE  Settled(d)
<1>1. /\ stack # <<>> /\ Top.mode = "loop" /\ ~stopped
      /\ Top.next \in DOMAIN Deps(Top.stage) /\ d = Deps(Top.stage)[Top.next]
  BY DEF AtCall
<1>2. WaitsForSeen /\ Nested
  BY DEF Ground, Geometry, Shapely, FrameShape, WaitsForSeen
<1>3. ~OnStack(d)
  BY <1>1, <1>2, NextIsElsewhere
<1> QED
  BY <1>1, <1>3 DEF LoadInv, Returned

\* What returns has settled after the step.
LEMMA ReturnSettles ==
  ASSUME OrderInv, Ground', LoadInv, Later, Returns, ~stopped', NEW s, s = Top.stage
  PROVE  Settled(s)'
<1>1. /\ stack # <<>> /\ Top.mode # "loop" /\ ~stopped
      /\ (s \in Threaded /\ Enabled(s) => thread'[s] # "new")
  BY DEF Returns, Later
<1>2. Through(s) /\ s \in Stages
  BY <1>1, TopInCalls, StackFrames DEF LoadInv, Sound, FrameSound
<1>3. Through(s)'
  BY <1>2, SettledStays
<1> QED
  BY <1>1, <1>2, <1>3, GateReturns

LEMMA MovedInCalls ==
  ASSUME OrderInv, NEW m, NEW g, Moved(m, g), NEW f, InCalls(f)'
  PROVE  f = g \/ InCalls(f)
<1>1. PICK k \in 1 .. Len(stack') : stack'[k] = f
  BY DEF InCalls
<1> QED
  BY <1>1, MovedFrames DEF InCalls

LEMMA SoundStays ==
  ASSUME OrderInv, Later, NEW f, FrameSound(f)
  PROVE  FrameSound(f)'
<1>1. plan' = plan
  BY DEF Later
<1>2. \A d : Settled(d) => Settled(d)'
  BY SettledStays
<1>3. Through(f.stage) => Through(f.stage)'
  BY SettledStays
<1> QED
  BY <1>1, <1>2, <1>3 DEF FrameSound

LEMMA SoundNext ==
  ASSUME OrderInv, Ground, Ground', LoadInv, Later, KindOfStep
  PROVE  Sound'
<1> SUFFICES ASSUME ~stopped', NEW g, InCalls(g)' PROVE FrameSound(g)'
  BY DEF Sound
<1>1. /\ ~stopped /\ plan' = plan /\ plan \in Plans
      /\ \A f : InCalls(f) => FrameSound(f)
      /\ \A s : OnStack(s) => s \in started
  BY DEF Later, LoadInv, Sound, Ground, Geometry, OrderInv, TypeOK
<1>2. CASE InCalls(g)
  BY <1>1, <1>2, SoundStays
<1>3. ASSUME NEW m, NEW f, Moved(m, f), FrameSound(f)' PROVE FrameSound(g)'
  BY <1>2, <1>3, MovedInCalls
<1>4. ASSUME NEW m, NEW c \in Frames, c.mode = "loop", InCalls(c),
             c.next \in DOMAIN plan.deps[c.stage],
             NEW d, d = plan.deps[c.stage][c.next], Settled(d)', Moved(m, Called(c, d))
      PROVE  FrameSound(g)'
  <2>1. FrameSound(c)'
    BY <1>1, <1>4, SoundStays
  <2>2. CASE g = Called(c, d)
    <3>1. g.mode = "loop" /\ Seen(plan, g) = Seen(plan, c) \cup {d}
      BY <1>4, <2>2, CalledSeen
    <3>2. \A x \in Seen(plan, c) : Settled(x)'
      BY <1>1, <1>4, <2>1 DEF FrameSound
    <3> QED
      BY <1>1, <1>4, <3>1, <3>2 DEF FrameSound
  <2> QED
    BY <1>2, <1>4, <2>2, MovedInCalls
<1>5. CASE Still
  BY <1>2, <1>5 DEF Still, InCalls
<1>6. CASE Ended
  <2>1. Len(stack') = 0
    BY <1>6, EmptySeq DEF Ended
  <2> QED
    BY <2>1 DEF InCalls
<1>7. ASSUME NEW d \in Stages, CallsBack(d) PROVE FrameSound(g)'
  <2>1. /\ AtCall(d) /\ d \in started /\ stack # <<>> /\ Moved(Len(stack), Called(Top, d))
    BY <1>7 DEF CallsBack, AtCall
  <2>2. Settled(d)'
    BY <2>1, CalledSettled, SettledStays
  <2> QED
    BY <1>4, <2>1, <2>2, NextOf, TopInCalls
<1>8. ASSUME NEW d \in Stages, CallsNew(d) PROVE FrameSound(g)'
  <2>1. Moved(Len(stack) + 1, Frame(d))
    BY <1>8 DEF CallsNew
  <2>2. Seen(plan, Frame(d)) = {}
    <3>1. plan.deps[d] \in Seq(Stages)
      BY <1>1, PlanType DEF Deps
    <3> QED
      BY <3>1, LenProperties DEF Seen, Frame
  <2>3. CASE g = Frame(d)
    BY <1>1, <2>2, <2>3 DEF FrameSound, Frame
  <2> QED
    BY <1>2, <2>1, <2>3, MovedInCalls
<1>9. ASSUME NEW d \in Stages, NEW f \in Frames, CallsOld(d, f) PROVE FrameSound(g)'
  <2>1. /\ AtCall(d) /\ d \in started /\ Moved(Len(stack) + 1, f)
        /\ f.stage = d /\ f.mode # "loop"
    BY <1>9 DEF CallsOld
  <2>2. Through(d)
    BY <2>1, CalledSettled DEF Settled, Through
  <2>3. FrameSound(f)
    BY <2>1, <2>2 DEF FrameSound
  <2> QED
    BY <1>3, <2>1, <2>3, SoundStays
<1>10. ASSUME NEW f \in Frames, GoesOn(f) PROVE FrameSound(g)'
  <2>1. /\ stack # <<>> /\ Moved(Len(stack), f) /\ f.stage = Top.stage /\ f.mode # "loop"
        /\ Top.mode = "loop" => Seen(plan, Top) = DepSet(Top.stage)
    BY <1>10 DEF GoesOn
  <2>2. FrameSound(Top) /\ Top.stage \in Stages /\ Top.stage \in started
    BY <1>1, <2>1, TopInCalls, OnTop, StackFrames
  <2>3. Through(f.stage)
    BY <2>1, <2>2, ThroughAll DEF FrameSound
  <2>4. FrameSound(f)
    BY <2>1, <2>3 DEF FrameSound
  <2> QED
    BY <1>3, <2>1, <2>4, SoundStays
<1>11. CASE Returns
  <2> DEFINE n == Len(stack) - 1
  <2>1. InCalls(stack[n])
    BY <1>11, CallerOf DEF InCalls
  <2>2. \A s : s = Top.stage => Settled(s)'
    BY <1>11, ReturnSettles
  <2> HIDE DEF n
  <2>3. \A s, c : s = Top.stage /\ c = stack[n] => FrameSound(g)'
    BY <1>4, <1>11, <2>1, <2>2, CallerOf DEF n
  <2> QED
    BY <2>3
<1> QED
  BY <1>5, <1>6, <1>7, <1>8, <1>9, <1>10, <1>11 DEF KindOfStep

\* A stage whose start is called is in a call, and leaves it when it returns.
LEMMA CallsAfter ==
  ASSUME OrderInv, Ground, Later, KindOfStep, stack' # <<>>, NEW s \in started'
  PROVE  /\ stack # <<>>
         /\ s \notin started => OnStack(s)'
         /\ OnStack(s) => OnStack(s)' \/ (Returns /\ s = Top.stage)
<1>1. plan' = plan /\ started \subseteq started' /\ Geometry
  BY DEF Later, Ground
<1> DEFINE P == /\ stack # <<>>
                /\ s \notin started => OnStack(s)'
                /\ OnStack(s) => OnStack(s)' \/ (Returns /\ s = Top.stage)
<1>2. CASE Still
  BY <1>2 DEF Still, OnStack
<1>3. CASE Ended
  BY <1>3 DEF Ended
<1>4. ASSUME NEW d \in Stages, CallsBack(d) PROVE P
  <2>1. /\ AtCall(d) /\ stack # <<>> /\ Moved(Len(stack), Called(Top, d))
        /\ started' = started
    BY <1>4 DEF CallsBack, AtCall
  <2>2. Called(Top, d).stage = Top.stage
    BY <2>1, NextOf, CalledSeen
  <2> QED
    BY <1>1, <2>1, <2>2, StaysGeometry
<1>5. ASSUME NEW d \in Stages, CallsNew(d) PROVE P
  <2>1. /\ AtCall(d) /\ stack # <<>> /\ Moved(Len(stack) + 1, Frame(d))
        /\ started' = started \cup {d} /\ Frame(d).stage = d
    BY <1>5 DEF CallsNew, AtCall, Frame
  <2>2. OnStack(s)' <=> OnStack(s) \/ s = d
    BY <1>1, <2>1, NextOf, PushGeometry
  <2> QED
    BY <1>1, <2>1, <2>2
<1>6. ASSUME NEW d \in Stages, NEW f \in Frames, CallsOld(d, f) PROVE P
  <2>1. /\ AtCall(d) /\ stack # <<>> /\ Moved(Len(stack) + 1, f)
        /\ started' = started /\ f.stage = d /\ d \in started'
    BY <1>6 DEF CallsOld, AtCall
  <2>2. OnStack(s)' <=> OnStack(s) \/ s = d
    BY <1>1, <2>1, NextOf, PushGeometry
  <2> QED
    BY <1>1, <2>1, <2>2
<1>7. ASSUME NEW f \in Frames, GoesOn(f) PROVE P
  <2>1. stack # <<>> /\ Moved(Len(stack), f) /\ started' = started /\ f.stage = Top.stage
    BY <1>7 DEF GoesOn
  <2> QED
    BY <1>1, <2>1, StaysGeometry
<1>8. CASE Returns
  <2>1. /\ stack # <<>> /\ Len(stack) # 1 /\ started' = started
        /\ Moved(Len(stack) - 1, Called(stack[Len(stack) - 1], Top.stage))
    BY <1>8 DEF Returns
  <2>2. Called(stack[Len(stack) - 1], Top.stage).stage = stack[Len(stack) - 1].stage
    BY <1>8, CallerOf, CalledSeen
  <2>3. OnStack(s) => OnStack(s)' \/ s = Top.stage
    BY <1>1, <2>1, <2>2, ReturnGeometry
  <2> QED
    BY <1>8, <2>1, <2>3
<1> QED
  BY <1>2, <1>3, <1>4, <1>5, <1>6, <1>7, <1>8 DEF KindOfStep

LEMMA ReturnedNext ==
  ASSUME OrderInv, Ground, Ground', LoadInv, Later, KindOfStep
  PROVE  Returned'
<1> SUFFICES ASSUME ~stopped', stack' # <<>>, NEW s \in started'
             PROVE  OnStack(s)' \/ Settled(s)'
  BY DEF Returned
<1>1. /\ stack # <<>>
      /\ s \notin started => OnStack(s)'
      /\ OnStack(s) => OnStack(s)' \/ (Returns /\ s = Top.stage)
  BY CallsAfter
<1>2. ~stopped /\ (s \in started => OnStack(s) \/ Settled(s))
  BY <1>1 DEF Later, LoadInv, Returned
<1>3. Returns /\ s = Top.stage => Settled(s)'
  BY ReturnSettles
<1>4. Settled(s) => Settled(s)'
  BY SettledStays
<1> QED
  BY <1>1, <1>2, <1>3, <1>4

LEMMA CleanBehindNext ==
  ASSUME OrderInv, Ground', LoadInv, Later, [Next]_vars
  PROVE  CleanBehind'
<1>1. Behind' = Behind /\ done \subseteq done' /\ CleanBehind
  BY DEF Later, Behind, LoadInv
<1>2. ASSUME NEW s \in clean', s \notin clean, s \in Behind
      PROVE  Load \in done'
  <2>1. StartThread
    BY <1>2, CleanByStart
  <2>2. /\ stack # <<>> /\ Top.mode = "leave" /\ s = Top.stage /\ ~stopped
    BY <1>2, <2>1 DEF StartThread, At
  <2>3. Through(s)
    BY <2>2, TopInCalls DEF LoadInv, Sound, FrameSound
  <2> QED
    BY <1>1, <1>2, <2>3, GateLoaded DEF Through
<1> QED
  BY <1>1, <1>2 DEF CleanBehind

\* The word that the migration is ready is Congratulations's.
LEMMA ReadyByCongrats ==
  ASSUME OrderInv, [Next]_vars, status' = "ready", status # "ready"
  PROVE  stack # <<>> /\ Top.stage = Congrats
<1>1. CASE CallDependency \/ CallAgain \/ Cancel \/ LoopOver \/ PollAborted \/ WaitOver
  BY <1>1 DEF CallDependency, CallAgain, Cancel, LoopOver, PollAborted, WaitOver, Raise
<1>2. CASE PollFailed \/ LeaveRoot \/ TunnelFails \/ StartFails \/ MarkStarting \/ Skip \/ StartThread
  BY <1>2 DEF PollFailed, LeaveRoot, TunnelFails, StartFails, MarkStarting, Skip, StartThread, Raise
<1>3. CASE Poll \/ TunnelWorks
  BY <1>3 DEF Poll, TunnelWorks, Finish
<1>4. CASE LeavePlain
  BY <1>4 DEF LeavePlain, At
<1>5. CASE Abort \/ AbortReturns \/ UNCHANGED vars
  BY <1>5 DEF Abort, AbortReturns, vars, calls
<1>6. ASSUME NEW s \in Threaded, Work(s) PROVE UNCHANGED status
  BY <1>6 DEF Work, WorkDone, WorkFails, WorkAborts, ThreadExits, DumpWork, FindDump,
       DumpData, RetryDump, DumpSucceeds, DumpErrs, DumpEnds, DumpDies, LoadWork,
       LoadChecks, LoadBegins, LoadEnds, Ends, calls
<1> QED
  BY <1>1, <1>2, <1>3, <1>4, <1>5, <1>6 DEF Next, Orchestrate

\* Congratulations is called when the monitor has settled.
LEMMA CongratsCalled ==
  ASSUME OrderInv, Ground, LoadInv, AtCall(Congrats)
  PROVE  Load \in done /\ (plan.hot => \A s \in DepSet(Congrats) : s \in done)
<1>1. /\ plan \in Plans /\ stack # <<>> /\ ~stopped /\ Top.mode = "loop" /\ Top.stage \in Stages
      /\ Top.next \in DOMAIN plan.deps[Top.stage]
      /\ plan.deps[Top.stage][Top.next] = Congrats
      /\ plan.deps[Top.stage] \in Seq(Stages)
  BY NextOf, TopDeps DEF AtCall, OrderInv, TypeOK
<1>2. PICK j \in 1 .. Top.next - 1 : plan.deps[Top.stage][j] = Watch
  BY <1>1, PlanShape DEF BehindWatch
<1>3. j \in DOMAIN plan.deps[Top.stage] /\ j < Top.next
  <2>1. DOMAIN plan.deps[Top.stage] = 1 .. Len(plan.deps[Top.stage])
    BY <1>1, LenProperties
  <2>2. Len(plan.deps[Top.stage]) \in Nat
    BY <1>1, LenProperties
  <2> QED
    BY <1>1, <1>2, <2>1, <2>2
<1>4. Settled(Watch)
  BY <1>1, <1>2, <1>3, TopInCalls DEF LoadInv, Sound, FrameSound, Seen
<1>5. Load \in done
  BY <1>1, <1>4, BehindFacts DEF Settled
<1>6. ASSUME plan.hot, NEW s \in DepSet(Congrats) PROVE s \in done
  <2>1. /\ Watch \in plan.enabled
        /\ \A i \in DOMAIN plan.deps[Congrats] :
             /\ plan.deps[Congrats][i] \in (Threaded \ {Dump}) \cap plan.enabled
             /\ \E k \in DOMAIN plan.deps[Watch] : plan.deps[Watch][k] = plan.deps[Congrats][i]
    BY <1>1, <1>6, PlanShape DEF BehindWatch
  <2>2. s \in Threaded \ {Dump} /\ Enabled(s) /\ s \in DepSet(Watch)
    BY <1>6, <2>1 DEF DepSet, Deps, Enabled
  <2>3. Watch \in clean
    BY <1>1, <1>4, <2>1, Distinct DEF Settled, Enabled, Ground, CleanOK
  <2> QED
    BY <2>2, <2>3 DEF Ground, CleanDeps
<1> QED
  BY <1>5, <1>6

LEMMA CongratsNext ==
  ASSUME OrderInv, Ground, LoadInv, Later, KindOfStep, [Next]_vars
  PROVE  CongratsLast'
<1>1. /\ plan' = plan /\ done \subseteq done' /\ started \subseteq started'
      /\ DepSet(Congrats)' = DepSet(Congrats) /\ CongratsLast
  BY DEF Later, DepSet, Deps, LoadInv
<1>2. ASSUME Congrats \in started', Congrats \notin started
      PROVE  Load \in done /\ (plan.hot => \A s \in DepSet(Congrats) : s \in done)
  <2>1. \E d \in Stages : CallsNew(d)
    BY <1>2 DEF KindOfStep, Still, Ended, CallsBack, CallsOld, GoesOn, Returns
  <2>2. AtCall(Congrats)
    BY <1>2, <2>1 DEF CallsNew
  <2> QED
    BY <2>2, CongratsCalled
<1>3. ASSUME status' = "ready", status # "ready" PROVE Congrats \in started
  BY <1>3, ReadyByCongrats, OnTop DEF Ground, Geometry
<1> QED
  BY <1>1, <1>2, <1>3 DEF CongratsLast

LEMMA LoadInit == ASSUME Init PROVE LoadInv
<1>1. /\ stack = <<Frame(Root)>> /\ started = {Root} /\ clean = {} /\ status # "ready"
      /\ plan \in Plans
  BY Zenon DEF Init
<1>2. Len(stack) = 1 /\ stack[1] = Frame(Root)
  BY <1>1
<1>3. Frame(Root).stage = Root /\ Frame(Root).mode = "loop" /\ Frame(Root).next = 1
  BY DEF Frame
<1>4. Seen(plan, Frame(Root)) = {}
  <2>1. plan.deps[Root] \in Seq(Stages)
    BY <1>1, PlanType, Distinct DEF Deps
  <2> QED
    BY <1>3, <2>1, LenProperties DEF Seen
<1>5. Sound
  BY <1>2, <1>3, <1>4 DEF Sound, InCalls, FrameSound
<1>6. Returned
  BY <1>1, <1>2, <1>3 DEF Returned, OnStack
<1> QED
  BY <1>1, <1>5, <1>6, StageAssumption DEF LoadInv, CleanBehind, CongratsLast

LEMMA LoadNext ==
  ASSUME OrderInv, Ground, LoadInv, [Next]_vars
  PROVE  OrderInv' /\ Ground' /\ LoadInv'
<1>1. OrderInv' /\ Ground' /\ Later /\ KindOfStep
  BY OrderNext, GroundNext
<1> QED
  BY <1>1, SoundNext, ReturnedNext, CleanBehindNext, CongratsNext DEF LoadInv

LEMMA LoadedFrom == ASSUME OrderInv, Ground, LoadInv PROVE LoadedFirst /\ ReadyIsReady
<1>1. LoadedFirst
  <2> SUFFICES ASSUME NEW s \in clean, s \in Updates \cup {Watch} PROVE Load \in done
    BY DEF LoadedFirst
  <2>1. Enabled(s)
    BY DEF Ground, CleanDeps
  <2>2. s \in Behind
    BY <2>1, BehindFacts DEF OrderInv, TypeOK
  <2> QED
    BY <2>2 DEF LoadInv, CleanBehind
<1>2. ReadyIsReady
  BY DEF ReadyIsReady, LoadInv, CongratsLast
<1> QED
  BY <1>1, <1>2

LEMMA LoadInvariant == SafeSpec => [](OrderInv /\ Ground /\ LoadInv)
<1>1. Init => OrderInv /\ Ground /\ LoadInv
  BY OrderInit, GroundInit, LoadInit
<1>2. OrderInv /\ Ground /\ LoadInv /\ [Next]_vars => (OrderInv /\ Ground /\ LoadInv)'
  BY LoadNext
<1> QED
  BY <1>1, <1>2, PTL DEF SafeSpec

\* In every plan whose updates are behind the load, none of them starts before the
\* data is loaded, although no disabled stage in between waits for anything.
THEOREM LoadedBeforeUpdates == SafeSpec => []LoadedFirst
<1>1. OrderInv /\ Ground /\ LoadInv => LoadedFirst
  BY LoadedFrom
<1> QED
  BY <1>1, LoadInvariant, PTL

\* The migration is reported ready only after the load and, if it is hot, after
\* the stages that Congratulations waits for, also when calls return early.
THEOREM ReadyOnlyWhenReady == SafeSpec => []ReadyIsReady
<1>1. OrderInv /\ Ground /\ LoadInv => ReadyIsReady
  BY LoadedFrom
<1> QED
  BY <1>1, LoadInvariant, PTL
-----------------------------------------------------------------------------
(* Nothing starts a Thread again: unless its work is over, a stage that is   *)
(* called more than once is in a call, or one that is in progress waits for  *)
(* it.                                                                       *)

\* The thread of a stage was started and is over, or forgotten.
Began(s) == s \in done \/ thread[s] = "joined"

\* A stage that may be called again and is polled then.
Again(s) == s \in Threaded \ {Dump, Load} /\ Enabled(s) /\ ~CalledOnce(plan, s)

InWait(s) == \E f : InCalls(f) /\ s \in f.wait

\* No call of start of c is at its dependency j, or before it.
Passed(c, j) == \A f : InCalls(f) /\ f.stage = c /\ f.mode = "loop" => j < f.next

\* What was started is in a call, or one of its callers has called it.
Used ==
  stack # <<>> =>
    \A s \in started \ {Root} :
      OnStack(s) \/ \E c \in started : \E j \in DOMAIN Deps(c) : Deps(c)[j] = s /\ Passed(c, j)

FrameOnce(f) ==
  f.stage \in Threaded /\ Enabled(f.stage) /\ f.mode # "mark" =>
    thread[f.stage] = "new" \/ Began(f.stage)

Once == \A f : InCalls(f) => FrameOnce(f)

\* A disabled caller does not wait: there is nothing left to wait for.
Loose ==
  ~stopped =>
    \A k \in 1 .. Len(stack) - 1 : \A c, s \in Stages :
      c = stack[k].stage /\ s = stack[k + 1].stage /\ ~Enabled(c) /\ Again(s) => Began(s)

Waited ==
  ~stopped /\ stack # <<>> =>
    \A s \in started : Again(s) => Began(s) \/ OnStack(s) \/ InWait(s)

OnceInv == Used /\ Once /\ Loose /\ Waited

LEMMA BeganStays ==
  ASSUME Later, NEW s
  PROVE  /\ (Again(s)' <=> Again(s)) /\ (Enabled(s)' <=> Enabled(s))
         /\ s \in Threaded /\ Began(s) => Began(s)'
BY DEF Later, Again, Enabled, Began

\* Calling a stage again finds its work over.
LEMMA AgainBegan ==
  ASSUME OrderInv, Ground, LoadInv, OnceInv, NEW d \in started, AtCall(d),
         d \in Threaded \ {Dump, Load}, Enabled(d)
  PROVE  Began(d)
<1>1. /\ stack # <<>> /\ Top.mode = "loop" /\ ~stopped
      /\ Top.next \in DOMAIN Deps(Top.stage) /\ d = Deps(Top.stage)[Top.next]
  BY DEF AtCall
<1>2. WaitsForSeen /\ Nested
  BY DEF Ground, Geometry, Shapely, FrameShape, WaitsForSeen
<1>3. ~OnStack(d) /\ ~InWait(d)
  BY <1>1, <1>2, NextIsElsewhere DEF InWait, InCalls
<1>4. CASE Again(d)
  BY <1>1, <1>3, <1>4 DEF OnceInv, Waited
<1>5. CASE CalledOnce(plan, d)
  <2> DEFINE CallsIt(c) == \E j \in DOMAIN Deps(c) : Deps(c)[j] = d /\ Passed(c, j)
  <2>6. \E c \in started : CallsIt(c)
    BY <1>1, <1>3, Distinct DEF OnceInv, Used
  <2>7. PICK c \in started : CallsIt(c)
    BY <2>6
  <2>1. PICK j \in DOMAIN Deps(c) : Deps(c)[j] = d /\ Passed(c, j)
    BY <2>7
  <2>2. c \in Stages /\ Top.stage \in Stages
    BY <1>1, TopDeps DEF OrderInv, TypeOK, CallsTyped
  <2>3. c = Top.stage /\ j = Top.next
    BY <1>1, <1>5, <2>1, <2>2 DEF CalledOnce, Deps
  <2>4. Top.next < Top.next
    BY <1>1, <2>1, <2>3, TopInCalls DEF Passed
  <2>5. Top.next \in Nat
    BY <1>1, TopDeps
  <2> QED
    BY <2>4, <2>5
<1> QED
  BY <1>4, <1>5 DEF Again

\* Other calls than the innermost one are of other stages.
LEMMA Below ==
  ASSUME OrderInv, Ground, NEW k \in 1 .. Len(stack), k # Len(stack)
  PROVE  stack[k].stage # Top.stage
<1>1. stack # <<>> /\ Len(stack) \in 1 .. Len(stack) /\ k < Len(stack) /\ Top = stack[Len(stack)]
  <2>1. Len(stack) \in Nat
    BY StackFrames
  <2>2. Len(stack) \in 1 .. Len(stack) /\ k < Len(stack)
    BY <2>1
  <2>3. stack # <<>>
    BY <2>2, EmptySeq
  <2> QED
    BY <2>2, <2>3 DEF Top
<1> QED
  BY <1>1, StagesDiffer DEF Ground, Geometry

LEMMA StartMoves ==
  ASSUME OrderInv, StartThread
  PROVE  stack' # stack
<1>1. /\ stack # <<>> /\ stack \in Seq(Frames) /\ Top \in Frames /\ Top.mode = "leave"
      /\ Become([Top EXCEPT !.mode = "mark"]) \/ Return
  BY TopDeps, StackFrames DEF StartThread, At
<1>2. CASE Return
  BY <1>1, <1>2, ReturnShape
<1>3. CASE Become([Top EXCEPT !.mode = "mark"])
  <2> DEFINE f == [Top EXCEPT !.mode = "mark"]
  <2>1. f \in Frames /\ f.mode = "mark"
    BY <1>1 DEF Modes, Frames
  <2>2. Top' = f
    BY <1>1, <1>3, <2>1, BecomeShape
  <2> QED
    BY <1>1, <2>1, <2>2 DEF Top
<1> QED
  BY <1>1, <1>2, <1>3

LEMMA OnceStays ==
  ASSUME OrderInv, Later, NEW f, FrameOnce(f), NEW g, g.stage = f.stage,
         g.mode = "mark" \/ f.mode # "mark", ~(StartThread /\ f.stage = Top.stage)
  PROVE  FrameOnce(g)'
<1>1. /\ \A s \in Threaded : /\ thread[s] = "new" => thread'[s] = "new" \/ (StartThread /\ s = Top.stage)
                             /\ Began(s) => Began(s)'
      /\ (Enabled(g.stage)' <=> Enabled(g.stage))
  BY BeganStays DEF Later
<1> QED
  BY <1>1 DEF FrameOnce

LEMMA OnceNext ==
  ASSUME OrderInv, Ground, LoadInv, OnceInv, Later, KindOfStep
  PROVE  Once'
<1> SUFFICES ASSUME NEW g, InCalls(g)' PROVE FrameOnce(g)'
  BY DEF Once
<1>1. /\ \A f : InCalls(f) => FrameOnce(f)
      /\ StartThread => stack # <<>> /\ Top.mode = "leave"
  BY DEF OnceInv, Once, StartThread, At
<1>2. ASSUME InCalls(g), ~StartThread PROVE FrameOnce(g)'
  BY <1>1, <1>2, OnceStays
<1>3. CASE Still
  BY <1>2, <1>3, StartMoves DEF Still, InCalls
<1>4. CASE Ended
  <2>1. Len(stack') = 0
    BY <1>4, EmptySeq DEF Ended
  <2> QED
    BY <2>1 DEF InCalls
<1>5. ASSUME NEW d \in Stages, CallsBack(d) PROVE FrameOnce(g)'
  <2>1. AtCall(d) /\ stack # <<>> /\ Moved(Len(stack), Called(Top, d)) /\ Top.mode = "loop"
    BY <1>5 DEF CallsBack, AtCall
  <2>2. /\ Called(Top, d).stage = Top.stage
    BY <2>1, NextOf, CalledSeen
  <2>3. CASE g = Called(Top, d)
    BY <1>1, <2>1, <2>2, <2>3, TopInCalls, OnceStays
  <2> QED
    BY <1>1, <1>2, <2>1, <2>3, MovedInCalls
<1>6. ASSUME NEW d \in Stages, CallsNew(d) PROVE FrameOnce(g)'
  <2>1. /\ AtCall(d) /\ Moved(Len(stack) + 1, Frame(d)) /\ Top.mode = "loop" /\ d \notin started
        /\ thread' = thread /\ Frame(d).stage = d
    BY <1>6 DEF CallsNew, AtCall, work, Frame
  <2>2. CASE g = Frame(d)
    BY <2>1, <2>2 DEF FrameOnce, Ground, Fresh
  <2> QED
    BY <1>1, <1>2, <2>1, <2>2, MovedInCalls
<1>7. ASSUME NEW d \in Stages, NEW f \in Frames, CallsOld(d, f) PROVE FrameOnce(g)'
  <2>1. /\ AtCall(d) /\ Moved(Len(stack) + 1, f) /\ Top.mode = "loop"
        /\ d \in started \ {Dump, Load} /\ f.stage = d
    BY <1>7 DEF CallsOld, AtCall
  <2>2. d \in Threaded /\ Enabled(d) => Began(d)'
    BY <2>1, AgainBegan, BeganStays
  <2>3. CASE g = f
    BY <2>1, <2>2, <2>3, BeganStays DEF FrameOnce
  <2> QED
    BY <1>1, <1>2, <2>1, <2>3, MovedInCalls
<1>8. ASSUME NEW f \in Frames, GoesOn(f) PROVE FrameOnce(g)'
  <2>1. /\ stack # <<>> /\ Moved(Len(stack), f) /\ f.stage = Top.stage /\ Top.mode # "mark"
        /\ StartThread => f.mode = "mark"
    BY <1>8 DEF GoesOn
  <2>2. FrameOnce(f)'
    <3>1. CASE f.mode = "mark"
      BY <3>1 DEF FrameOnce
    <3>2. CASE f.mode # "mark"
      BY <1>1, <2>1, <3>2, TopInCalls, OnceStays
    <3> QED
      BY <3>1, <3>2
  <2>3. PICK k \in 1 .. Len(stack') : stack'[k] = g
    BY DEF InCalls
  <2>4. CASE k = Len(stack)
    BY <2>1, <2>2, <2>3, <2>4, MovedFrames
  <2>5. CASE k # Len(stack)
    <3>1. k \in 1 .. Len(stack) /\ g = stack[k]
      BY <2>1, <2>3, <2>5, MovedFrames
    <3> QED
      BY <1>1, <2>5, <3>1, Below, OnceStays DEF InCalls
  <2> QED
    BY <2>4, <2>5
<1>9. CASE Returns
  <2> DEFINE n == Len(stack) - 1
             h == Called(stack[n], Top.stage)
  <2>1. /\ n \in 1 .. Len(stack) /\ n \in Nat /\ Len(stack) = n + 1 /\ Moved(n, h)
        /\ h.stage = stack[n].stage /\ stack[n].mode = "loop"
    BY <1>9, CallerOf, CalledSeen
  <2>2. PICK k \in 1 .. Len(stack') : stack'[k] = g
    BY DEF InCalls
  <2>3. k \in 1 .. Len(stack) /\ k # Len(stack) /\ (g = stack[k] \/ (k = n /\ g = h))
    <3> HIDE DEF n, h
    <3>1. k \in 1 .. n /\ (g = stack[k] \/ (k = n /\ g = h))
      BY <2>1, <2>2, MovedFrames
    <3> QED
      BY <2>1, <3>1
  <2>4. stack[k].stage # Top.stage /\ g.stage = stack[k].stage /\ FrameOnce(stack[k])
    BY <1>1, <2>1, <2>3, Below DEF InCalls
  <2>5. g.mode = "mark" \/ stack[k].mode # "mark"
    BY <2>1, <2>3
  <2> QED
    BY <2>4, <2>5, OnceStays
<1> QED
  BY <1>3, <1>4, <1>5, <1>6, <1>7, <1>8, <1>9 DEF KindOfStep

\* A call of start goes past its dependencies only.
LEMMA PassedNext ==
  ASSUME OrderInv, Ground, Later, KindOfStep, NEW c \in started, NEW j \in Nat, Passed(c, j)
  PROVE  Passed(c, j)'
<1> SUFFICES ASSUME NEW g, InCalls(g)', g.stage = c, g.mode = "loop" PROVE j < g.next
  BY DEF Passed
<1>1. InCalls(g) => j < g.next
  BY DEF Passed
<1>2. ASSUME NEW f, InCalls(f), f \in Frames, f.mode = "loop", f.next \in DOMAIN plan.deps[f.stage],
             g = Called(f, plan.deps[f.stage][f.next])
      PROVE  j < g.next
  <2>1. g.stage = f.stage /\ g.next = f.next + 1
    BY <1>2, CalledSeen
  <2>2. j < f.next /\ f.next \in Nat
    BY <1>2, <2>1 DEF Passed, Frames
  <2> QED
    BY <2>1, <2>2
<1>3. CASE Still
  BY <1>1, <1>3 DEF Still, InCalls
<1>4. CASE Ended
  <2>1. Len(stack') = 0
    BY <1>4, EmptySeq DEF Ended
  <2> QED
    BY <2>1 DEF InCalls
<1>5. ASSUME NEW d \in Stages, CallsBack(d) PROVE j < g.next
  <2>1. AtCall(d) /\ stack # <<>> /\ Moved(Len(stack), Called(Top, d))
    BY <1>5 DEF CallsBack, AtCall
  <2> QED
    BY <1>1, <1>2, <2>1, NextOf, TopInCalls, MovedInCalls
<1>6. ASSUME NEW d \in Stages, CallsNew(d) PROVE j < g.next
  <2>1. Moved(Len(stack) + 1, Frame(d)) /\ Frame(d).stage # c
    BY <1>6 DEF CallsNew, Frame
  <2> QED
    BY <1>1, <2>1, MovedInCalls
<1>7. ASSUME NEW d \in Stages, NEW f \in Frames, CallsOld(d, f) PROVE j < g.next
  <2>1. Moved(Len(stack) + 1, f) /\ f.mode # "loop"
    BY <1>7 DEF CallsOld
  <2> QED
    BY <1>1, <2>1, MovedInCalls
<1>8. ASSUME NEW f \in Frames, GoesOn(f) PROVE j < g.next
  <2>1. Moved(Len(stack), f) /\ f.mode # "loop"
    BY <1>8 DEF GoesOn
  <2> QED
    BY <1>1, <2>1, MovedInCalls
<1>9. CASE Returns
  <2> DEFINE n == Len(stack) - 1
  <2>1. /\ n \in 1 .. Len(stack) /\ stack[n] \in Frames /\ stack[n].mode = "loop"
        /\ stack[n].next \in DOMAIN plan.deps[stack[n].stage]
        /\ plan.deps[stack[n].stage][stack[n].next] = Top.stage
        /\ Moved(n, Called(stack[n], Top.stage))
    BY <1>9, CallerOf
  <2> HIDE DEF n
  <2>2. InCalls(stack[n])
    BY <2>1 DEF InCalls
  <2> QED
    BY <1>1, <1>2, <2>1, <2>2, MovedInCalls
<1> QED
  BY <1>3, <1>4, <1>5, <1>6, <1>7, <1>8, <1>9 DEF KindOfStep

\* What returned was called by its caller.
LEMMA ReturnPassed ==
  ASSUME OrderInv, Ground, Later, Returns, NEW c, NEW j,
         c = stack[Len(stack) - 1].stage, j = stack[Len(stack) - 1].next
  PROVE  c \in started /\ j \in DOMAIN Deps(c) /\ Deps(c)[j] = Top.stage /\ Passed(c, j)'
<1> DEFINE n == Len(stack) - 1
           h == Called(stack[n], Top.stage)
<1>1. /\ n \in 1 .. Len(stack) /\ n \in Nat /\ Len(stack) = n + 1
      /\ stack[n].next \in DOMAIN plan.deps[stack[n].stage]
      /\ plan.deps[stack[n].stage][stack[n].next] = Top.stage
      /\ Moved(n, h) /\ h.next = stack[n].next + 1
      /\ stack[n].next \in Nat \ {0}
  BY CallerOf, CalledSeen, StackFrames
<1>2. c \in started
  BY <1>1 DEF OnStack, Ground, Geometry
<1>3. Passed(c, j)'
  <2> SUFFICES ASSUME NEW g, InCalls(g)', g.stage = c, g.mode = "loop" PROVE j < g.next
    BY DEF Passed
  <2>1. PICK k \in 1 .. Len(stack') : stack'[k] = g
    BY DEF InCalls
  <2> HIDE DEF h, n
  <2>2. CASE k = n
    <3>1. g = h
      BY <1>1, <2>1, <2>2, MovedFrames
    <3>2. j < j + 1
      BY <1>1 DEF n
    <3> QED
      BY <1>1, <3>1, <3>2 DEF n
  <2>3. CASE k # n
    <3>1. k \in 1 .. Len(stack) /\ k < n /\ g = stack[k]
      BY <1>1, <2>1, <2>3, MovedFrames
    <3>2. stack[k].stage # stack[n].stage
      BY <1>1, <3>1, StagesDiffer DEF Ground, Geometry
    <3> QED
      BY <3>1, <3>2 DEF n
  <2> QED
    BY <2>2, <2>3
<1> QED
  BY <1>1, <1>2, <1>3 DEF Deps

\* The calls that the step does not touch.
LEMMA MovedKeeps ==
  ASSUME OrderInv, NEW m, NEW g, Moved(m, g)
  PROVE  /\ InCalls(g)'
         /\ \A f : InCalls(f) => InCalls(f)' \/ \E k \in m .. Len(stack) : f = stack[k]
<1>1. /\ Len(stack') = m /\ m \in 1 .. m /\ m \in Nat /\ stack'[m] = g
      /\ \A k \in 1 .. m - 1 : stack'[k] = stack[k]
      /\ Len(stack) \in Nat
  BY MovedFrames, StackFrames DEF Moved
<1>2. InCalls(g)'
  BY <1>1 DEF InCalls
<1>3. ASSUME NEW k \in 1 .. Len(stack)
      PROVE  k \in m .. Len(stack) \/ (k \in 1 .. m - 1 /\ k \in 1 .. m)
  BY <1>1
<1>4. ASSUME NEW f, InCalls(f)
      PROVE  InCalls(f)' \/ \E k \in m .. Len(stack) : f = stack[k]
  <2>1. PICK k \in 1 .. Len(stack) : stack[k] = f
    BY <1>4 DEF InCalls
  <2>2. CASE k \in m .. Len(stack)
    BY <2>1, <2>2
  <2>3. CASE k \in 1 .. m - 1 /\ k \in 1 .. m
    BY <1>1, <2>1, <2>3 DEF InCalls
  <2> QED
    BY <1>3, <2>2, <2>3
<1> QED
  BY <1>2, <1>4

LEMMA UsedNext ==
  ASSUME OrderInv, Ground, OnceInv, Later, KindOfStep
  PROVE  Used'
<1> DEFINE After(s) == \E c \in started' : \E j \in DOMAIN Deps(c) : Deps(c)[j] = s /\ Passed(c, j)'
<1>1. /\ plan' = plan /\ started \subseteq started' /\ started \subseteq Stages /\ plan \in Plans
      /\ \A s : Deps(s)' = Deps(s)
  BY DEF Later, Deps, OrderInv, TypeOK, CallsTyped
<1>2. SUFFICES ASSUME stack' # <<>>, NEW s \in started' \ {Root}, ~OnStack(s)' PROVE After(s)
  BY <1>1 DEF Used
<1>3. s \in started /\ stack # <<>> /\ (OnStack(s) => Returns /\ s = Top.stage)
  BY <1>2, CallsAfter
<1>4. CASE OnStack(s)
  <2> DEFINE c == stack[Len(stack) - 1].stage
             j == stack[Len(stack) - 1].next
  <2>1. \A x, i : x = c /\ i = j =>
          x \in started /\ i \in DOMAIN Deps(x) /\ Deps(x)[i] = Top.stage /\ Passed(x, i)'
    BY <1>3, <1>4, ReturnPassed
  <2> HIDE DEF c, j
  <2> QED
    BY <1>1, <1>3, <1>4, <2>1
<1>5. CASE ~OnStack(s)
  <2> DEFINE CallsIt(c) == \E j \in DOMAIN Deps(c) : Deps(c)[j] = s /\ Passed(c, j)
  <2>1. \E c \in started : CallsIt(c)
    BY <1>2, <1>3, <1>5 DEF OnceInv, Used
  <2>2. PICK c \in started : CallsIt(c)
    BY <2>1
  <2>3. PICK j \in DOMAIN Deps(c) : Deps(c)[j] = s /\ Passed(c, j)
    BY <2>2
  <2>4. j \in Nat
    <3>1. Deps(c) \in Seq(Stages)
      BY <1>1, PlanType
    <3> QED
      BY <3>1, LenProperties
  <2>5. Passed(c, j)'
    BY <2>3, <2>4, PassedNext
  <2> QED
    BY <1>1, <2>3, <2>5
<1> QED
  BY <1>4, <1>5

LEMMA WaitedNext ==
  ASSUME OrderInv, Ground, OnceInv, Later, KindOfStep
  PROVE  Waited'
<1> SUFFICES ASSUME ~stopped', stack' # <<>>, NEW s \in started', Again(s)'
             PROVE  Began(s)' \/ OnStack(s)' \/ InWait(s)'
  BY DEF Waited
<1>1. /\ ~stopped /\ stack # <<>> /\ Again(s) /\ s \in Threaded \ {Dump, Load} /\ s # Watch
      /\ s \notin started => OnStack(s)'
      /\ OnStack(s) => OnStack(s)' \/ (Returns /\ s = Top.stage)
      /\ s \in started => Began(s) \/ OnStack(s) \/ InWait(s)
      /\ Began(s) => Began(s)'
  <2>1. ~stopped /\ stack # <<>>
    BY CallsAfter DEF Later
  <2>2. Again(s) /\ s \in Threaded
    BY BeganStays DEF Again
  <2>3. s # Watch
    BY <2>2, PlanShape DEF CallersWait, Again, OrderInv, TypeOK
  <2> QED
    BY <2>1, <2>2, <2>3, CallsAfter, BeganStays DEF OnceInv, Waited, Again
<1>2. \A f : InCalls(f)' /\ s \in f.wait => InWait(s)'
  BY DEF InWait
<1>3. \A k \in 1 .. Len(stack) :
        stack[k].mode \in {"leave", "mark"} => stack[k].wait = {}
  BY <1>1 DEF Ground, Shapely, FrameShape
<1>4. CASE s \in started /\ Returns /\ s = Top.stage
  <2> DEFINE n == Len(stack) - 1
             h == Called(stack[n], Top.stage)
  <2>1. /\ n \in 1 .. Len(stack) /\ Len(stack) = n + 1 /\ n \in Nat /\ Moved(n, h)
        /\ h.wait = IF s \notin finished /\ Enabled(stack[n].stage)
                    THEN stack[n].wait \cup {s} ELSE stack[n].wait
        /\ stack[n].stage \in Stages
    BY <1>4, CallerOf, CalledSeen, StackFrames
  <2>2. CASE s \in finished
    BY <1>1, <2>2 DEF OrderInv, Order, FinishedOK, Began
  <2>3. CASE ~Enabled(stack[n].stage)
    <3>1. /\ n \in 1 .. Len(stack) - 1 /\ s \in Stages
          /\ stack[n + 1].stage = s
      BY <1>1, <1>4, <2>1, Distinct DEF Top
    <3>2. Began(s)
      BY <1>1, <2>1, <2>3, <3>1 DEF OnceInv, Loose
    <3> QED
      BY <1>1, <3>2
  <2>4. CASE s \notin finished /\ Enabled(stack[n].stage)
    <3>1. s \in h.wait
      BY <2>1, <2>4
    <3> QED
      BY <1>2, <2>1, <3>1, MovedKeeps
  <2> QED
    BY <2>2, <2>3, <2>4
<1>5. ASSUME NEW f, InCalls(f), s \in f.wait
      PROVE  Began(s)' \/ OnStack(s)' \/ InWait(s)'
  <2>1. CASE InCalls(f)'
    BY <1>2, <1>5, <2>1
  <2>2. CASE Still
    BY <1>2, <1>5, <2>2 DEF Still, InCalls
  <2>3. CASE Ended
    BY <2>3 DEF Ended
  <2>4. ASSUME NEW g, Moved(Len(stack), g),
               s \in Top.wait => s \in g.wait \/ Began(s)'
        PROVE  Began(s)' \/ OnStack(s)' \/ InWait(s)'
    <3>1. InCalls(g)' /\ (InCalls(f)' \/ \E k \in Len(stack) .. Len(stack) : f = stack[k])
      BY <1>5, <2>4, MovedKeeps
    <3>2. InCalls(f)' \/ f = Top
      BY <3>1, StackFrames DEF Top
    <3> QED
      BY <1>2, <1>5, <2>1, <2>4, <3>1, <3>2
  <2>5. ASSUME NEW d \in Stages, CallsBack(d) PROVE Began(s)' \/ OnStack(s)' \/ InWait(s)'
    <3>1. AtCall(d) /\ Moved(Len(stack), Called(Top, d))
      BY <2>5 DEF CallsBack
    <3>2. Top.wait \subseteq Called(Top, d).wait
      BY <3>1, NextOf, CalledSeen
    <3> QED
      BY <2>4, <3>1, <3>2
  <2>6. ASSUME NEW m, NEW g, Moved(m, g), m = Len(stack) + 1
        PROVE  Began(s)' \/ OnStack(s)' \/ InWait(s)'
    <3>1. InCalls(f)' \/ \E k \in Len(stack) + 1 .. Len(stack) : f = stack[k]
      BY <1>5, <2>6, MovedKeeps
    <3>2. Len(stack) + 1 .. Len(stack) = {}
      BY StackFrames
    <3> QED
      BY <2>1, <3>1, <3>2
  <2>7. ASSUME NEW g \in Frames, GoesOn(g) PROVE Began(s)' \/ OnStack(s)' \/ InWait(s)'
    <3>1. /\ Moved(Len(stack), g)
          /\ s \in Top.wait =>
               s \in g.wait \/ s \in done' \/ Top.mode = "leave" \/ s \notin Threaded \ {Dump, Watch}
      BY <2>7 DEF GoesOn
    <3>2. Top.mode = "leave" => Top.wait = {}
      BY <1>1, <1>3, StackFrames
    <3>3. s \in done' => Began(s)'
      BY DEF Began
    <3> QED
      BY <1>1, <2>4, <3>1, <3>2, <3>3
  <2>8. CASE Returns
    <3> DEFINE n == Len(stack) - 1
    <3>5. PICK h : h = Called(stack[n], Top.stage)
      OBVIOUS
    <3>1. /\ n \in 1 .. Len(stack) /\ Len(stack) = n + 1 /\ n \in Nat /\ Moved(n, h)
          /\ stack[n].wait \subseteq h.wait /\ stack # <<>> /\ Top.mode \in {"leave", "mark"}
      BY <2>8, <3>5, CallerOf, CalledSeen DEF Returns
    <3> HIDE DEF n
    <3>2. InCalls(h)' /\ (InCalls(f)' \/ \E k \in n .. Len(stack) : f = stack[k])
      BY <1>5, <3>1, MovedKeeps
    <3>3. InCalls(f)' \/ f = stack[n] \/ f = Top
      <4>1. \A k \in n .. Len(stack) : k = n \/ k = Len(stack)
        BY <3>1
      <4> QED
        BY <3>2, <4>1 DEF Top
    <3>4. Top.wait = {}
      BY <1>3, <3>1, StackFrames
    <3> QED
      BY <1>2, <1>5, <2>1, <3>1, <3>2, <3>3, <3>4
  <2> QED
    BY <2>2, <2>3, <2>5, <2>6, <2>7, <2>8 DEF KindOfStep, CallsNew, CallsOld
<1> QED
  BY <1>1, <1>4, <1>5 DEF InWait

\* A disabled stage that calls what is called elsewhere as well.
LEMMA LooseCall ==
  ASSUME OrderInv, Ground, LoadInv, NEW d \in Stages, AtCall(d), ~Enabled(Top.stage), Again(d)
  PROVE  d \in started
<1> DEFINE c == Top.stage
           n == Len(stack) - 1
           b == stack[n].stage
           i == stack[n].next
<1>1. /\ plan \in Plans /\ stack # <<>> /\ ~stopped /\ c \in Stages \ plan.enabled
      /\ Top.next \in DOMAIN plan.deps[c] /\ plan.deps[c][Top.next] = d
      /\ d \in (Threaded \cap plan.enabled) \ {Dump, Load} /\ ~CalledOnce(plan, d)
      /\ Root \in plan.enabled
  BY NextOf, TopDeps, PlanShape DEF AtCall, OrderInv, TypeOK, Enabled, Again, CallersWait
<1>2. Len(stack) # 1
  BY <1>1, RootStays DEF Ground, Geometry
<1>3. n \in 1 .. Len(stack) - 1 /\ n + 1 = Len(stack)
  <2>1. Len(stack) \in Nat /\ Len(stack) \in 1 .. Len(stack)
    BY <1>1, StackFrames
  <2>2. \A l \in Nat : l \in 1 .. l /\ l # 1 => l - 1 \in 1 .. l - 1 /\ l - 1 + 1 = l
    OBVIOUS
  <2> QED
    BY <1>2, <2>1, <2>2
<1> HIDE DEF n
<1>4. /\ n \in 1 .. Len(stack) /\ stack[n].mode = "loop" /\ b \in Stages
      /\ i \in DOMAIN plan.deps[b] /\ plan.deps[b][i] = c /\ plan.deps[b] \in Seq(Stages)
  BY <1>3, NextCall, StackFrames DEF Top
<1>5. PICK j \in 1 .. i - 1 : Reaches(plan, plan.deps[b][j], d)
  <2> HIDE DEF b, c, i
  <2>1. \A x \in Stages \ plan.enabled : \A y \in DOMAIN plan.deps[x] :
          plan.deps[x][y] \in (Threaded \cap plan.enabled) \ {Dump, Load} =>
            \/ CalledOnce(plan, plan.deps[x][y])
            \/ \A z \in Stages : \A k \in DOMAIN plan.deps[z] :
                 plan.deps[z][k] = x =>
                   \E j \in 1 .. k - 1 : Reaches(plan, plan.deps[z][j], plan.deps[x][y])
    BY <1>1, PlanShape DEF CallersWait
  <2>2. \A z \in Stages : \A k \in DOMAIN plan.deps[z] :
          plan.deps[z][k] = c => \E j \in 1 .. k - 1 : Reaches(plan, plan.deps[z][j], d)
    BY <1>1, <2>1
  <2> QED
    BY <1>4, <2>2
<1>6. j \in DOMAIN plan.deps[b] /\ j < i
  <2> HIDE DEF b, i
  <2>1. DOMAIN plan.deps[b] = 1 .. Len(plan.deps[b]) /\ Len(plan.deps[b]) \in Nat
    BY <1>4, LenProperties
  <2> QED
    BY <1>4, <1>5, <2>1
<1>7. Settled(plan.deps[b][j])
  BY <1>1, <1>4, <1>6 DEF LoadInv, Sound, InCalls, FrameSound, Seen
<1> QED
  BY <1>5, <1>7 DEF Settled, ReachesStarted

LEMMA LooseNext ==
  ASSUME OrderInv, Ground, LoadInv, OnceInv, Later, KindOfStep
  PROVE  Loose'
<1> SUFFICES ASSUME ~stopped', NEW k \in 1 .. Len(stack') - 1, NEW c \in Stages, NEW s \in Stages,
                    c = stack'[k].stage, s = stack'[k + 1].stage, ~Enabled(c)', Again(s)'
             PROVE  Began(s)'
  BY DEF Loose
<1>1. /\ ~stopped /\ ~Enabled(c) /\ Again(s) /\ s \in Threaded \ {Dump, Load} /\ Enabled(s)
      /\ Began(s) => Began(s)'
  BY BeganStays DEF Later, Again
<1>2. ASSUME k \in 1 .. Len(stack) - 1, c = stack[k].stage, s = stack[k + 1].stage
      PROVE  Began(s)'
  BY <1>1, <1>2 DEF OnceInv, Loose
<1>3. CASE Still
  BY <1>2, <1>3 DEF Still
<1>4. CASE Ended
  <2>1. Len(stack') = 0
    BY <1>4, EmptySeq DEF Ended
  <2> QED
    BY <2>1
<1>5. ASSUME NEW m, NEW g, Moved(m, g), m \in 1 .. Len(stack), g.stage = stack[m].stage
      PROVE  Began(s)'
  <2>1. Len(stack') = m /\ m \in Nat /\ Len(stack) \in Nat
    BY <1>5, MovedFrames, StackFrames
  <2>2. k \in 1 .. Len(stack) - 1 /\ k \in 1 .. m /\ k + 1 \in 1 .. m
    BY <1>5, <2>1
  <2>3. \A i \in 1 .. m : stack'[i].stage = stack[i].stage
    BY <1>5, MovedFrames
  <2> QED
    BY <1>2, <2>2, <2>3
<1>6. ASSUME NEW d \in Stages, NEW g, Moved(Len(stack) + 1, g), g.stage = d, AtCall(d),
             d \in started => d \in started \ {Dump, Load}
      PROVE  Began(s)'
  <2>1. /\ Len(stack') = Len(stack) + 1 /\ Len(stack) \in Nat
        /\ \A i \in 1 .. Len(stack) : stack'[i] = stack[i]
        /\ stack'[Len(stack) + 1] = g /\ stack # <<>>
    BY <1>6, StackFrames DEF Moved, AtCall
  <2>2. k \in 1 .. Len(stack) /\ (k = Len(stack) \/ (k \in 1 .. Len(stack) - 1 /\ k + 1 \in 1 .. Len(stack)))
    BY <2>1
  <2>3. CASE k # Len(stack)
    BY <1>2, <2>1, <2>2, <2>3
  <2>4. CASE k = Len(stack)
    <3>1. c = Top.stage /\ s = d
      BY <1>6, <2>1, <2>2, <2>4 DEF Top
    <3>2. d \in started
      BY <1>1, <1>6, <3>1, LooseCall
    <3> QED
      BY <1>1, <1>6, <3>1, <3>2, AgainBegan
  <2> QED
    BY <2>3, <2>4
<1>7. ASSUME NEW d \in Stages, CallsBack(d) PROVE Began(s)'
  <2>1. AtCall(d) /\ stack # <<>> /\ Moved(Len(stack), Called(Top, d))
    BY <1>7 DEF CallsBack, AtCall
  <2>2. Called(Top, d).stage = Top.stage
    BY <2>1, NextOf, CalledSeen
  <2> QED
    BY <1>5, <2>1, <2>2, StackFrames
<1>8. ASSUME NEW d \in Stages, CallsNew(d) PROVE Began(s)'
  <2>1. AtCall(d) /\ Moved(Len(stack) + 1, Frame(d)) /\ Frame(d).stage = d /\ d \notin started
    BY <1>8 DEF CallsNew, Frame
  <2> QED
    BY <1>6, <2>1
<1>9. ASSUME NEW d \in Stages, NEW f \in Frames, CallsOld(d, f) PROVE Began(s)'
  <2>1. AtCall(d) /\ Moved(Len(stack) + 1, f) /\ f.stage = d /\ d \in started \ {Dump, Load}
    BY <1>9 DEF CallsOld
  <2> QED
    BY <1>6, <2>1
<1>10. ASSUME NEW f \in Frames, GoesOn(f) PROVE Began(s)'
  <2>1. stack # <<>> /\ Moved(Len(stack), f) /\ f.stage = Top.stage
    BY <1>10 DEF GoesOn
  <2> QED
    BY <1>5, <2>1, StackFrames
<1>11. CASE Returns
  <2> DEFINE n == Len(stack) - 1
  <2>1. /\ n \in 1 .. Len(stack) /\ Moved(n, Called(stack[n], Top.stage))
        /\ Called(stack[n], Top.stage).stage = stack[n].stage
    BY <1>11, CallerOf, CalledSeen
  <2> QED
    BY <1>5, <2>1
<1> QED
  BY <1>3, <1>4, <1>7, <1>8, <1>9, <1>10, <1>11 DEF KindOfStep

LEMMA OnceInit == ASSUME Init PROVE OnceInv
<1>1. /\ stack = <<Frame(Root)>> /\ started = {Root} /\ thread = [s \in Threaded |-> "new"]
  BY Zenon DEF Init
<1>2. Len(stack) = 1 /\ stack[1] = Frame(Root) /\ Frame(Root).stage = Root
  BY <1>1 DEF Frame
<1>3. Used /\ Loose
  BY <1>1, <1>2 DEF Used, Loose
<1>4. Once
  BY <1>2, Distinct DEF Once, InCalls, FrameOnce
<1>5. Waited
  BY <1>1, Distinct DEF Waited, Again
<1> QED
  BY <1>3, <1>4, <1>5 DEF OnceInv

LEMMA OnceInvNext ==
  ASSUME OrderInv, Ground, LoadInv, OnceInv, [Next]_vars
  PROVE  OnceInv'
<1>1. Later /\ KindOfStep
  BY GroundNext
<1> QED
  BY <1>1, UsedNext, OnceNext, LooseNext, WaitedNext DEF OnceInv

LEMMA OnceFrom == ASSUME OrderInv, Ground, OnceInv PROVE StartedOnce
<1> SUFFICES ASSUME stack # <<>>, Top.mode = "leave", Top.stage \in Threaded,
                    thread[Top.stage] # "joined"
             PROVE  ~CannotStart(Top.stage)
  BY DEF StartedOnce, At
<1>1. FrameOnce(Top)
  BY TopInCalls DEF OnceInv, Once
<1> QED
  BY <1>1 DEF FrameOnce, CannotStart, Began

\* In every plan in which a disabled stage calls nothing that is left to be waited
\* for, no path through the calls of start starts a Thread again.
THEOREM ThreadsStartOnce == SafeSpec => []StartedOnce
<1>1. Init => OnceInv
  BY OnceInit
<1>2. OrderInv /\ Ground /\ LoadInv /\ OnceInv /\ [Next]_vars => OnceInv'
  BY OnceInvNext
<1>3. OrderInv /\ Ground /\ LoadInv /\ OnceInv => StartedOnce
  BY OnceFrom
<1> QED
  BY <1>1, <1>2, <1>3, LoadInvariant, PTL DEF SafeSpec
=============================================================================
