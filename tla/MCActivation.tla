---------------------------- MODULE MCActivation ----------------------------
(* Instances of Activation: rules of no workspace and of one of two.       *)
EXTENDS Activation

HomeOf == [r \in Rules |-> IF r = "r2" THEN "w2" ELSE Global]
=============================================================================
