---------------------------- MODULE MCWorkerPool ----------------------------
(* Instances of WorkerPool for TLC. *)
EXTENDS WorkerPool

Setting(min, max, waiting) == [min |-> min, max |-> max, waiting |-> waiting]

(* One worker for two blocks; the user allows a second one, or more idle   *)
(* ones than there may be.                                                 *)
OneWorker == Setting(0, 0, 1)
MoreWorkers == { Setting(1, 2, 1), Setting(3, 1, 0) }

(* Only the number of waiting tasks is changed.                            *)
LongerQueue == { Setting(0, 0, 2) }
=============================================================================
