------------------------------- MODULE MCJobRun -------------------------------
(* Model checking of JobRun on a few interchangeable runs.                 *)
EXTENDS JobRun, TLC

RunSymmetry == Permutations(Runs)
=============================================================================
