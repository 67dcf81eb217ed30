----------------------------- MODULE MCMigration ----------------------------
(* Plans of the Orchestrator, for Migration: each option is on and off, with *)
(* every kind of connection and in cold migrations.                          *)
EXTENDS Migration, MigrationPlan

Cold(ha, heatwave) ==
  [hot |-> FALSE, ha |-> ha, heatwave |-> heatwave, connect |-> "site to site"]

Hot(connect, ha, heatwave) ==
  [hot |-> TRUE, ha |-> ha, heatwave |-> heatwave, connect |-> connect]

MCOptions ==
  {Cold(FALSE, TRUE), Hot("local tunnel", FALSE, FALSE), Hot("site to site", TRUE, TRUE)}

MCPlans == {PlanOf(o) : o \in MCOptions}

\* What the proofs assume of the plans holds of those of every project.
ASSUME AllPlansAssumption ==
  \A o \in Options :
    LET p == PlanOf(o)
    IN InDepthOnce(p) /\ BehindLoad(p) /\ BehindWatch(p) /\ CallersWait(p)

MCDirectPlan == {PlanOf(Hot("site to site", TRUE, TRUE))}
=============================================================================
