-------------------------- MODULE RequestLifecycle --------------------------
(* What a client of the backend is promised about one request it sends to a  *)
(* database session (gui_plugin/core/dbms/DbSessionTasks.py, BaseTask.py):   *)
(* the request waits, is taken by one thread and answered at most once.  Its *)
(* statement is executed once, and once more only after the connection broke *)
(* under it; a request that is cancelled while it still waits is never       *)
(* executed.  DbSession implements this specification.                       *)
EXTENDS Naturals

CONSTANT Requests

VARIABLES status, executions

lifecycleVars == <<status, executions>>

Outcomes == {"ok", "error", "killed"}

Statuses == {"new", "waiting", "withdrawn", "taken", "running", "broken",
             "cancelled"} \cup Outcomes

TypeOK ==
  /\ status \in [Requests -> Statuses]
  /\ executions \in [Requests -> Nat]

Init ==
  /\ status = [r \in Requests |-> "new"]
  /\ executions = [r \in Requests |-> 0]

Goes(r, from, to) ==
  /\ status[r] \in from
  /\ status' = [status EXCEPT ![r] = to]

Move(r, from, to) == Goes(r, from, to) /\ UNCHANGED executions

Submit(r) == Move(r, {"new"}, "waiting")

\* A cancellation that arrives while the request waits takes it back for good.
Withdraw(r) == Move(r, {"waiting"}, "withdrawn")

Take(r) == Move(r, {"waiting"}, "taken")

\* The only steps that execute the statement.
Execute(r) ==
  /\ Goes(r, {"taken", "broken"}, "running")
  /\ executions' = [executions EXCEPT ![r] = @ + 1]

Break(r) == Move(r, {"running"}, "broken")

Answer(r) ==
  \/ \E o \in Outcomes : Move(r, {"running"}, o)
  \/ Move(r, {"broken"}, "error")

AnswerCancelled(r) == Move(r, {"withdrawn"}, "cancelled")

Next ==
  \E r \in Requests :
    \/ Submit(r) \/ Withdraw(r) \/ Take(r) \/ Execute(r) \/ Break(r)
    \/ Answer(r) \/ AnswerCancelled(r)

Spec == Init /\ [][Next]_lifecycleVars
=============================================================================
