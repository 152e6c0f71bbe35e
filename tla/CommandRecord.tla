----------------------------- MODULE CommandRecord -----------------------------
(***************************************************************************)
(* What the execution of commands promises about one invocation, whoever   *)
(* calls it, how often, and whichever process dies: a durable record that  *)
(* moves only along the legal transitions of the ledger, a handler that    *)
(* starts at most once and in the step that records it as running, a       *)
(* commit that is claimed only while the record says so and nobody gave    *)
(* the handler up, and an outcome that is what the handler did, or is      *)
(* unknown.  CommandExecution is shown to implement this.                  *)
(***************************************************************************)
CONSTANT Commands

VARIABLES record,   \* status in the ledger
          handler,  \* what the handler did
          leave     \* its leave to commit (CommitOwnership)

Become(c, status) == record' = [record EXCEPT ![c] = status]
Handle(c, state) == handler' = [handler EXCEPT ![c] = state]

Init == /\ record = [c \in Commands |-> "none"]
        /\ handler = [c \in Commands |-> "none"]
        /\ leave = [c \in Commands |-> "none"]

(* The first call records the command, the others find it.                 *)
Reserve(c) == /\ record[c] = "none"
              /\ Become(c, "evaluating") \/ Become(c, "refused")
              /\ UNCHANGED <<handler, leave>>

Queue(c) == record[c] = "evaluating" /\ Become(c, "queued") /\ UNCHANGED <<handler, leave>>

(* Before it runs, a command is refused or fails without a handler.        *)
Refuse(c) == /\ record[c] \in {"evaluating", "queued"}
             /\ Become(c, "refused") \/ Become(c, "failed")
             /\ UNCHANGED <<handler, leave>>

(* The only start of a handler; it may also not start at all.              *)
Start(c) ==
  /\ record[c] = "queued" /\ Become(c, "running")
  /\ \/ UNCHANGED <<handler, leave>>
     \/ /\ handler[c] = "none" /\ Handle(c, "running")
        /\ \E l \in {"none", "pending"} : leave' = [leave EXCEPT ![c] = l]

Commit(c) == /\ record[c] = "running" /\ handler[c] = "running" /\ leave[c] = "pending"
             /\ Handle(c, "committing") /\ leave' = [leave EXCEPT ![c] = "claimed"]
             /\ UNCHANGED record

(* The executor stops waiting for a handler that has not claimed.          *)
GiveUp(c) == /\ record[c] = "running" /\ leave[c] = "pending"
             /\ leave' = [leave EXCEPT ![c] = "aborted"]
             /\ UNCHANGED <<record, handler>>

(* A handler that needs leave to commit and has none does nothing.         *)
End(c) == /\ handler[c] \in {"running", "committing"}
          /\ \/ Handle(c, "failed")
             \/ /\ handler[c] = "committing" \/ leave[c] = "none"
                /\ Handle(c, "succeeded") \/ Handle(c, "unclear")
          /\ UNCHANGED <<record, leave>>

(* The outcome of a started command is that of its handler.                *)
Close(c) == /\ record[c] = "running" /\ handler[c] \in {"succeeded", "failed"}
            /\ Become(c, handler[c])
            /\ UNCHANGED <<handler, leave>>

(* The executor, or the recovery of a later process, cannot tell.          *)
Seal(c) == /\ record[c] \in {"evaluating", "queued", "running"}
           /\ Become(c, "outcome_unknown")
           /\ UNCHANGED <<handler, leave>>

(* A process dies with its handlers: what was committing may be done.      *)
Lose == /\ \E gone \in SUBSET Commands :
             handler' = [c \in Commands |->
                           CASE c \in gone /\ handler[c] = "running" -> "gone"
                             [] c \in gone /\ handler[c] = "committing" -> "unclear"
                             [] OTHER -> handler[c]]
        /\ UNCHANGED <<record, leave>>

Next == Lose \/ \E c \in Commands :
          \/ Reserve(c) \/ Queue(c) \/ Refuse(c) \/ Start(c) \/ Commit(c)
          \/ GiveUp(c) \/ End(c) \/ Close(c) \/ Seal(c)

Spec == Init /\ [][Next]_<<record, handler, leave>>
=============================================================================
