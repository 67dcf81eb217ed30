--------------------------- MODULE MigrationPlan ----------------------------
(* The plan of a database migration: the stages the constructor of the       *)
(* Orchestrator creates (migration_plugin/lib/backend/orchestration.py), the *)
(* order in which each calls its dependencies, and the stages that the       *)
(* options of the project enable.                                            *)
EXTENDS Naturals, Sequences

Options == [hot : BOOLEAN, ha : BOOLEAN, heatwave : BOOLEAN,
            connect : {"local tunnel", "ssh tunnel", "site to site"}]

PlainStages == {"root", "tunnel", "connectivity", "congrats"}

ThreadedStages ==
  {"compartment", "bucket", "vcn", "compute", "jumphost", "dbsystem", "target",
   "dump", "load", "crashRecovery", "ha", "heatwave", "channel", "watch"}

StageIds == PlainStages \cup ThreadedStages

\* The stages that update the DB System once it runs.
UpdateStages == {"crashRecovery", "ha", "heatwave", "channel"}

DependenciesOf(o) ==
  [compartment   |-> <<>>,
   vcn           |-> <<>>,
   bucket        |-> <<"compartment">>,
   compute       |-> <<"compartment", "vcn">>,
   jumphost      |-> <<"compute">>,
   dbsystem      |-> <<"compartment", "vcn">>,
   target        |-> <<"dbsystem", "jumphost">>,
   dump          |-> <<"bucket", "jumphost">>,
   load          |-> <<"target">>,
   crashRecovery |-> <<"dump", "load">>,
   ha            |-> IF o.ha THEN <<"crashRecovery">> ELSE <<>>,
   heatwave      |-> IF o.ha THEN <<"ha">> ELSE <<"crashRecovery">>,
   connectivity  |-> <<"dbsystem">>,
   tunnel        |-> <<"heatwave">>,
   channel       |-> <<"tunnel", "connectivity">>,
   watch         |-> <<"channel">>,
   congrats      |-> <<"channel">>,
   root          |-> <<"watch", "congrats">>]

\* The overrides of Stage._enabled.
EnabledBy(o) ==
  {s \in StageIds :
     CASE s = "heatwave" -> o.heatwave
       [] s = "ha" -> o.ha
       [] s = "tunnel" -> o.hot /\ o.connect \in {"local tunnel", "ssh tunnel"}
       [] s = "connectivity" -> o.hot /\ o.connect = "site to site"
       [] s \in {"channel", "watch"} -> o.hot
       [] OTHER -> TRUE}

PlanOf(o) == [deps |-> DependenciesOf(o), enabled |-> EnabledBy(o),
              hot |-> o.hot, local |-> o.connect = "local tunnel"]
=============================================================================
