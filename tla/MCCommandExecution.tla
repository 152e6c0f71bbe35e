-------------------------- MODULE MCCommandExecution --------------------------
(* Two invocations, one that asks for a decision and one that owns its     *)
(* commit, called by two operations in two processes.                      *)
EXTENDS CommandExecution, TLC
CONSTANTS o1, o2
TwoOperations == {o1, o2}
OperationSymmetry == Permutations(TwoOperations)
=============================================================================
