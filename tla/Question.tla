------------------------------- MODULE Question -------------------------------
(***************************************************************************)
(* What the backend promises whoever asks a person something, on a screen  *)
(* or in a messenger: at each place one question at a time is open to      *)
(* answers, the first reply accepted while it is open is the only one it   *)
(* can be answered with, and an outcome never changes.                     *)
(*                                                                         *)
(* A question that was replied to may still end unanswered: its asker may  *)
(* have given up in the same instant.                                      *)
(***************************************************************************)
CONSTANTS
  Questions,
  Places,    \* where one question at a time can be open
  PlaceOf,   \* [Questions -> Places]
  Replies

VARIABLES
  state,     \* [Questions -> States]
  reply      \* [Questions -> the reply that counts, as a set: none or one]

States == {"unasked", "open", "replied", "answered", "unanswered"}

Init ==
  /\ state = [q \in Questions |-> "unasked"]
  /\ reply = [q \in Questions |-> {}]

Become(q, s) == state' = [state EXCEPT ![q] = s]

Open(q) ==
  /\ state[q] = "unasked"
  /\ \A p \in Questions : PlaceOf[p] = PlaceOf[q] => state[p] # "open"
  /\ Become(q, "open")
  /\ UNCHANGED reply

Reply(q) ==
  /\ state[q] = "open"
  /\ Become(q, "replied")
  /\ \E r \in Replies : reply' = [reply EXCEPT ![q] = {r}]

Answer(q) ==
  /\ state[q] = "replied"
  /\ Become(q, "answered")
  /\ UNCHANGED reply

GiveUp(q) ==
  /\ state[q] \in {"unasked", "open", "replied"}
  /\ Become(q, "unanswered")
  /\ reply' = [reply EXCEPT ![q] = {}]

Next == \E q \in Questions : Open(q) \/ Reply(q) \/ Answer(q) \/ GiveUp(q)

Spec == Init /\ [][Next]_<<state, reply>>

=============================================================================
