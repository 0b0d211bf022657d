----------------------------- MODULE MCDashboard -----------------------------
(* TLC instances of Dashboard.  Jobs are not symmetric: the runs check action  *)
(* properties and liveness, or have a single job.                              *)
EXTENDS Dashboard

\* The setting is never raised: RecoveryRacesSupervisor by the other route.
LoweringSpec == DashInit /\ [][DashNext /\ capacity' <= capacity]_allVars

=============================================================================
