----------------------------- MODULE Questionnaire -----------------------------
(***************************************************************************)
(* questionnaire.Manager and the dialog that shows its questions.  Askers  *)
(* take turns on the screen through a channel with one token; the answer   *)
(* arrives through another request of the user interface, which looks the  *)
(* question up in the map of pending questions and puts the response in    *)
(* the question's own channel after leaving the critical section.  The     *)
(* interface learns what happens from events and removes the dialog itself *)
(* when its response was accepted.                                         *)
(***************************************************************************)
EXTENDS Naturals, Sequences

CONSTANTS
  Questions,
  MaxClicks    \* bound on the responses sent to one question

ASSUME ScreenAssumption == MaxClicks \in Nat \ {0}

(* The nth response the user sends to question q.                          *)
Clicks == Questions \X (1 .. MaxClicks)
About(c) == c[1]

VARIABLES
  asker,     \* [Questions -> position in RequestQuestionnaire]
  ahead,     \* [Questions -> askers in line before this one]
  display,   \* the token is in the channel
  pending,   \* Manager.pending
  response,  \* [Questions -> the buffered response, as a set]
  outcome,   \* [Questions -> what RequestQuestionnaire returns]
  answer,    \* [Questions -> the response returned, as a set]
  call,      \* [Clicks -> position in Respond and in its caller]
  bus,       \* events on their way to the user interface
  dialog     \* the question on screen, as a set

backendVars == <<asker, ahead, display, pending, response, outcome, answer>>
vars == <<asker, ahead, display, pending, response, outcome, answer,
          call, bus, dialog>>

(* "closing" and "leaving" are the deferred calls ahead: the question is   *)
(* removed from the map, then the token is returned.                       *)
Positions == {"idle", "queued", "holding", "asking", "closing", "leaving",
              "done"}
Stages == {"unused", "sent", "found", "accepted", "refused", "settled"}

Opened(q) == [kind |-> "opened", about |-> q]
Closed(q) == [kind |-> "closed", about |-> q]

Init ==
  /\ asker = [q \in Questions |-> "idle"]
  /\ ahead = [q \in Questions |-> {}]
  /\ display = TRUE
  /\ pending = {}
  /\ response = [q \in Questions |-> {}]
  /\ outcome = [q \in Questions |-> "none"]
  /\ answer = [q \in Questions |-> {}]
  /\ call = [c \in Clicks |-> "unused"]
  /\ bus = <<>>
  /\ dialog = {}

Goto(q, position) == asker' = [asker EXCEPT ![q] = position]
Return(q, result) == outcome' = [outcome EXCEPT ![q] = result]
LeaveLine(q) ==
  ahead' = [p \in Questions |-> IF p = q THEN {} ELSE ahead[p] \ {q}]

-----------------------------------------------------------------------------
(* RequestQuestionnaire.                                                   *)

Request(q) ==
  /\ asker[q] = "idle"
  /\ Goto(q, "queued")
  /\ ahead' = [ahead EXCEPT ![q] = {p \in Questions : asker[p] = "queued"}]
  /\ UNCHANGED <<display, pending, response, outcome, answer, call, bus, dialog>>

(* The runtime serves blocked receivers in the order of their arrival.     *)
Acquire(q) ==
  /\ display
  /\ asker[q] = "queued"
  /\ ahead[q] = {}
  /\ Goto(q, "holding")
  /\ LeaveLine(q)
  /\ display' = FALSE
  /\ UNCHANGED <<pending, response, outcome, answer, call, bus, dialog>>

(* The context ends while the asker waits for the screen.                  *)
Abandon(q) ==
  /\ asker[q] = "queued"
  /\ Goto(q, "done")
  /\ LeaveLine(q)
  /\ Return(q, "unanswered")
  /\ UNCHANGED <<display, pending, response, answer, call, bus, dialog>>

Show(q) ==
  /\ asker[q] = "holding"
  /\ Goto(q, "asking")
  /\ pending' = pending \cup {q}
  /\ bus' = Append(bus, Opened(q))
  /\ UNCHANGED <<ahead, display, response, outcome, answer, call, dialog>>

Receive(q) ==
  /\ asker[q] = "asking"
  /\ response[q] # {}
  /\ Goto(q, "closing")
  /\ Return(q, "answered")
  /\ answer' = [answer EXCEPT ![q] = response[q]]
  /\ response' = [response EXCEPT ![q] = {}]
  /\ UNCHANGED <<ahead, display, pending, call, bus, dialog>>

(* Timeout or end of the asker's context; when a response arrived too, the *)
(* select may still choose this branch.                                    *)
ExpireMutant(q) ==
  /\ asker[q] = "asking"
  /\ Goto(q, "closing")
  /\ Return(q, "unanswered")
  /\ UNCHANGED <<ahead, display, pending, response, answer, call, bus, dialog>>

Expire(q) ==
  /\ asker[q] = "asking"
  /\ Goto(q, "closing")
  /\ Return(q, "unanswered")
  /\ bus' = Append(bus, Closed(q))
  /\ UNCHANGED <<ahead, display, pending, response, answer, call, dialog>>

(* Mutant: the deferred calls in the other order.                          *)
ForgetMutant(q) ==
  /\ asker[q] = "closing"
  /\ Goto(q, "leaving")
  /\ display' = TRUE
  /\ pending' = pending \ {q}
  /\ UNCHANGED <<ahead, response, outcome, answer, call, bus, dialog>>

Forget(q) ==
  /\ asker[q] = "closing"
  /\ Goto(q, "leaving")
  /\ pending' = pending \ {q}
  /\ UNCHANGED <<ahead, display, response, outcome, answer, call, bus, dialog>>

(* Mutant: the token is returned on the way out without an answer only.    *)
FreeMutant(q) ==
  /\ asker[q] = "leaving"
  /\ Goto(q, "done")
  /\ display' = (outcome[q] = "unanswered")
  /\ UNCHANGED <<ahead, pending, response, outcome, answer, call, bus, dialog>>

Free(q) ==
  /\ asker[q] = "leaving"
  /\ Goto(q, "done")
  /\ display' = TRUE
  /\ UNCHANGED <<ahead, pending, response, outcome, answer, call, bus, dialog>>

-----------------------------------------------------------------------------
(* Respond, and the handler of the dialog that calls it.                   *)

Advance(c, stage) == call' = [call EXCEPT ![c] = stage]

(* Submit and cancel are both responses.                                   *)
Click(c) ==
  /\ dialog = {About(c)}
  /\ call[c] = "unused"
  /\ Advance(c, "sent")
  /\ UNCHANGED <<backendVars, bus, dialog>>

Lookup(c) ==
  /\ call[c] = "sent"
  /\ Advance(c, IF About(c) \in pending THEN "found" ELSE "refused")
  /\ UNCHANGED <<backendVars, bus, dialog>>

(* Mutant: a response replaces the one that waits in the channel.          *)
DeliverMutant(c) ==
  /\ call[c] = "found"
  /\ Advance(c, "accepted")
  /\ response' = [response EXCEPT ![About(c)] = {c}]
  /\ UNCHANGED <<asker, ahead, display, pending, outcome, answer, bus, dialog>>

(* The channel keeps one response, whether or not anyone still reads it.   *)
Deliver(c) ==
  /\ call[c] = "found"
  /\ \/ /\ response[About(c)] = {}
        /\ Advance(c, "accepted")
        /\ response' = [response EXCEPT ![About(c)] = {c}]
     \/ /\ response[About(c)] # {}
        /\ Advance(c, "refused")
        /\ UNCHANGED response
  /\ UNCHANGED <<asker, ahead, display, pending, outcome, answer, bus, dialog>>

(* Mutant: whatever dialog is on screen is cleared.                        *)
SettleMutant(c) ==
  /\ call[c] \in {"accepted", "refused"}
  /\ Advance(c, "settled")
  /\ dialog' = IF call[c] = "accepted" THEN {} ELSE dialog
  /\ UNCHANGED <<backendVars, bus>>

(* An accepted response clears its own dialog; a refused one leaves it.    *)
Settle(c) ==
  /\ call[c] \in {"accepted", "refused"}
  /\ Advance(c, "settled")
  /\ dialog' = IF call[c] = "accepted" THEN dialog \ {About(c)} ELSE dialog
  /\ UNCHANGED <<backendVars, bus>>

-----------------------------------------------------------------------------
(* The events, in the order of their emission.                             *)
Notify ==
  /\ bus # <<>>
  /\ bus' = Tail(bus)
  /\ dialog' = IF Head(bus).kind = "opened"
                 THEN {Head(bus).about}
                 ELSE dialog \ {Head(bus).about}
  /\ UNCHANGED <<backendVars, call>>

-----------------------------------------------------------------------------
AskerStep(q) ==
  \/ Acquire(q) \/ Abandon(q) \/ Show(q) \/ Receive(q) \/ Expire(q)
  \/ Forget(q) \/ Free(q)

ClickStep(c) == Lookup(c) \/ Deliver(c) \/ Settle(c)

Next ==
  \/ \E q \in Questions : Request(q) \/ AskerStep(q)
  \/ \E c \in Clicks : Click(c) \/ ClickStep(c)
  \/ Notify

Spec == Init /\ [][Next]_vars

(* Every question has a timeout, goroutines are scheduled, and the runtime *)
(* of the user interface delivers events and runs its handlers.  Nobody    *)
(* has to answer, and no asker's context has to end.                       *)
Returns(q) ==
  Acquire(q) \/ Show(q) \/ Receive(q) \/ Expire(q) \/ Forget(q) \/ Free(q)

FairSpec ==
  /\ Spec
  /\ \A q \in Questions : WF_vars(Returns(q))
  /\ \A c \in Clicks : WF_vars(ClickStep(c))
  /\ WF_vars(Notify)

-----------------------------------------------------------------------------
(* Properties.                                                             *)

(* The variables keep their types; a question's channel holds at most one  *)
(* response, to that question.                                             *)
TypeOK ==
  /\ asker \in [Questions -> Positions]
  /\ ahead \in [Questions -> SUBSET Questions]
  /\ display \in BOOLEAN
  /\ pending \subseteq Questions
  /\ response \in [Questions -> SUBSET Clicks]
  /\ \A q \in Questions : \A c, d \in response[q] : About(c) = q /\ c = d
  /\ outcome \in [Questions -> {"none", "answered", "unanswered"}]
  /\ answer \in [Questions -> SUBSET Clicks]
  /\ call \in [Clicks -> Stages]
  /\ bus \in Seq([kind : {"opened", "closed"}, about : Questions])
  /\ dialog \subseteq Questions

(* From the receive of the token to its return nobody else is there, and   *)
(* the token is in the channel whenever nobody is: no way out of the       *)
(* request loses or doubles it.                                            *)
OnScreen == {"holding", "asking", "closing", "leaving"}
TurnsAreExclusive ==
  /\ \A p, q \in Questions :
       asker[p] \in OnScreen /\ asker[q] \in OnScreen => p = q
  /\ display <=> \A q \in Questions : asker[q] \notin OnScreen

(* The line for the screen is an order: of two who wait one came first, no *)
(* circle of askers wait for each other, and whoever leaves the line, for  *)
(* the screen or because its context ended, is waited for by nobody.       *)
Waiting == {q \in Questions : asker[q] = "queued"}
LineIsOrdered ==
  /\ \A q \in Questions : ahead[q] \subseteq Waiting \ {q}
  /\ \A q \in Questions \ Waiting : ahead[q] = {}
  /\ \A p, q \in Waiting : p # q => (p \in ahead[q] <=> q \notin ahead[p])
  /\ \A q \in Questions : \A p \in ahead[q] : ahead[p] \subseteq ahead[q]

(* RequestQuestionnaire keeps the promise of Question, with the screen as  *)
(* the only place.                                                         *)
StateOf(q) ==
  CASE outcome[q] # "none" -> outcome[q]
    [] outcome[q] = "none" /\ asker[q] = "asking" ->
         IF response[q] = {} THEN "open" ELSE "replied"
    [] OTHER -> "unasked"

ReplyTo(q) ==
  CASE outcome[q] = "answered" -> answer[q]
    [] outcome[q] = "none" /\ asker[q] = "asking" -> response[q]
    [] OTHER -> {}

Screen == INSTANCE Question
            WITH Places <- {"screen"}, PlaceOf <- [q \in Questions |-> "screen"],
                 Replies <- Clicks,
                 state <- [q \in Questions |-> StateOf(q)],
                 reply <- [q \in Questions |-> ReplyTo(q)]
QuestionSpec == Screen!Spec

(* A dialog that lost its question is on its way off the screen: its       *)
(* closing event, the next question or the handler of its accepted         *)
(* response is still to come.                                              *)
OrphanIsLeaving ==
  \A q \in dialog : outcome[q] # "none" =>
    \/ \E i \in DOMAIN bus : bus[i] = Closed(q) \/ bus[i].kind = "opened"
    \/ \E c \in Clicks : About(c) = q /\ call[c] = "accepted"

(* While a question waits for its first response its dialog stays on the   *)
(* screen: no late event or handler of an earlier question removes it.     *)
LiveDialogStays ==
  [][\A q \in dialog :
       asker[q] = "asking" /\ response[q] = {} /\ asker'[q] = "asking"
         => q \in dialog']_vars

(* Every asker gets its answer, its timeout or its turn to wait, in the    *)
(* end returns, and no dialog of a question without an owner stays.        *)
AskersReturn == \A q \in Questions : asker[q] = "queued" ~> asker[q] = "done"
ScreenIsFreed ==
  \A q \in Questions : q \in dialog /\ outcome[q] # "none" ~> q \notin dialog
=============================================================================
