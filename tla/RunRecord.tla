------------------------------ MODULE RunRecord ------------------------------
(***************************************************************************)
(* What internal/jobs promises about the durable record of a run: it is    *)
(* born queued, it only ever grows by one of the legal state changes, a    *)
(* terminal state is its last word, and a record that was removed never    *)
(* comes back.  JobRun is shown to implement this.                         *)
(***************************************************************************)
EXTENDS Sequences, Naturals

CONSTANT Runs

VARIABLES history,  \* [Runs -> Seq(States)]: the states recorded for the run
          removed   \* runs whose record is gone

Follows(state) ==
  CASE state = "queued"          -> {"started", "terminal"}
    [] state = "started"         -> {"retry_scheduled", "terminal"}
    [] state = "retry_scheduled" -> {"started", "terminal"}
    [] OTHER                     -> {}

Init == history = [r \in Runs |-> <<>>] /\ removed = {}

Born(r) ==
  /\ r \notin removed
  /\ history[r] = <<>>
  /\ history' = [history EXCEPT ![r] = <<"queued">>]
  /\ UNCHANGED removed

Advance(r) ==
  /\ history[r] # <<>>
  /\ \E state \in Follows(history[r][Len(history[r])]) :
       history' = [history EXCEPT ![r] = Append(@, state)]
  /\ UNCHANGED removed

Remove(r) ==
  /\ history[r] # <<>>
  /\ history' = [history EXCEPT ![r] = <<>>]
  /\ removed' = removed \cup {r}

Next == \E r \in Runs : Born(r) \/ Advance(r) \/ Remove(r)

Spec == Init /\ [][Next]_<<history, removed>>
=============================================================================
