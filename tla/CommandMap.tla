------------------------------ MODULE CommandMap ------------------------------
(***************************************************************************)
(* What the command runtime promises about the map of commands it offers:  *)
(* there is at most one, it is numbered anew each time, it becomes visible *)
(* in order (begun, published, its inputs enabled), it may be retired at   *)
(* any of these points by whoever resets the runtime, and a number that    *)
(* was retired is never used again.  CommandRuntime is shown to implement  *)
(* this.                                                                   *)
(***************************************************************************)
EXTENDS Naturals

VARIABLES generation,  \* maps begun so far, the number of the latest
          stage        \* how far the latest is visible, "none" once retired

Init == generation = 0 /\ stage = "none"

Begin == /\ stage = "none" /\ stage' = "begun"
         /\ generation' = generation + 1

Publish == stage = "begun" /\ stage' = "published" /\ UNCHANGED generation
Enable == stage = "published" /\ stage' = "enabled" /\ UNCHANGED generation
Retire == stage # "none" /\ stage' = "none" /\ UNCHANGED generation

Next == Begin \/ Publish \/ Enable \/ Retire

Spec == Init /\ [][Next]_<<generation, stage>>
=============================================================================
