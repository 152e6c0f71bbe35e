---------------------------- MODULE MCJobLifecycle ----------------------------
(* An instance of JobLifecycle for TLC: two goroutines that start and stop *)
(* the manager of one job, and two runs.                                   *)
EXTENDS JobLifecycle

CONSTANTS login, logout, r1, r2
TwoCallers == {login, logout}
TwoRuns == {r1, r2}
=============================================================================
