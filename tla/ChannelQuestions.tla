--------------------------- MODULE ChannelQuestions ---------------------------
(***************************************************************************)
(* messaging.ChannelQuestions: a question of the backend asked in the      *)
(* conversation of a messenger.  A question is registered, sent and waited *)
(* for; an incoming message of the conversation is its answer when it      *)
(* names an option.  The decision is taken, and the question unregistered, *)
(* in one critical section; every way out of the wait ends with another    *)
(* one that unregisters the question if it is still there.                 *)
(***************************************************************************)
EXTENDS Naturals

CONSTANTS
  Questions,
  Conversations,
  ConversationOf,  \* [Questions -> Conversations]
  MaxMessages      \* bound on the messages that arrive in a conversation

ASSUME ChannelAssumption ==
  /\ ConversationOf \in [Questions -> Conversations]
  /\ MaxMessages \in Nat \ {0}

(* The nth message of a conversation.                                      *)
Messages == Conversations \X (1 .. MaxMessages)
In(m) == m[1]

VARIABLES
  asker,     \* [Questions -> position in AskOnChannel]
  pending,   \* [Conversations -> the registered question, as a set]
  response,  \* [Questions -> the buffered answer, as a set]
  outcome,   \* [Questions -> what AskOnChannel returns]
  answer,    \* [Questions -> the answer returned, as a set]
  verdict    \* [Messages -> how TryAnswer took the message]

vars == <<asker, pending, response, outcome, answer, verdict>>

(* "leaving" is forget ahead, the deferred call.                           *)
Positions == {"idle", "sending", "waiting", "leaving", "done"}
Outcomes == {"none", "answered", "unfit", "busy", "undeliverable",
             "expired", "cancelled"}
Verdicts == {"unseen", "not pending", "delivered", "ignored"}

Init ==
  /\ asker = [q \in Questions |-> "idle"]
  /\ pending = [v \in Conversations |-> {}]
  /\ response = [q \in Questions |-> {}]
  /\ outcome = [q \in Questions |-> "none"]
  /\ answer = [q \in Questions |-> {}]
  /\ verdict = [m \in Messages |-> "unseen"]

Goto(q, position) == asker' = [asker EXCEPT ![q] = position]
Return(q, result) == outcome' = [outcome EXCEPT ![q] = result]
Take(q) ==
  /\ answer' = [answer EXCEPT ![q] = response[q]]
  /\ response' = [response EXCEPT ![q] = {}]

(* The question leaves the map if the registered one is still this one.    *)
Unregister(q) ==
  pending' = [pending EXCEPT ![ConversationOf[q]] = @ \ {q}]

-----------------------------------------------------------------------------
(* AskOnChannel.                                                           *)

(* The dialog does not fit a message: more than one decision, free text.   *)
Unfit(q) ==
  /\ asker[q] = "idle"
  /\ Goto(q, "done")
  /\ Return(q, "unfit")
  /\ UNCHANGED <<pending, response, answer, verdict>>

Register(q) ==
  /\ asker[q] = "idle"
  /\ pending[ConversationOf[q]] = {}
  /\ Goto(q, "sending")
  /\ pending' = [pending EXCEPT ![ConversationOf[q]] = {q}]
  /\ UNCHANGED <<response, outcome, answer, verdict>>

(* Mutant: a question already pending in the conversation is displaced.    *)
BusyMutant(q) ==
  /\ asker[q] = "idle"
  /\ pending[ConversationOf[q]] # {}
  /\ Goto(q, "sending")
  /\ pending' = [pending EXCEPT ![ConversationOf[q]] = {q}]
  /\ UNCHANGED <<response, outcome, answer, verdict>>

Busy(q) ==
  /\ asker[q] = "idle"
  /\ pending[ConversationOf[q]] # {}
  /\ Goto(q, "done")
  /\ Return(q, "busy")
  /\ UNCHANGED <<pending, response, answer, verdict>>

Send(q) ==
  /\ asker[q] = "sending"
  /\ Goto(q, "waiting")
  /\ UNCHANGED <<pending, response, outcome, answer, verdict>>

SendFails(q) ==
  /\ asker[q] = "sending"
  /\ Goto(q, "leaving")
  /\ Return(q, "undeliverable")
  /\ UNCHANGED <<pending, response, answer, verdict>>

Receive(q) ==
  /\ asker[q] = "waiting"
  /\ response[q] # {}
  /\ Goto(q, "leaving")
  /\ Return(q, "answered")
  /\ Take(q)
  /\ UNCHANGED <<pending, verdict>>

(* Mutants: the answer that came in with the deadline is not looked for;   *)
(* the clock is not started.                                               *)
ExpireMutant(q) ==
  /\ asker[q] = "waiting"
  /\ Goto(q, "leaving")
  /\ Unregister(q)
  /\ Return(q, "expired")
  /\ UNCHANGED <<response, answer, verdict>>

ExpireMutant2(q) == FALSE

(* The clock: the question is closed and the answer that may have come in  *)
(* with the deadline looked for in one critical section.                   *)
Expire(q) ==
  /\ asker[q] = "waiting"
  /\ Goto(q, "leaving")
  /\ Unregister(q)
  /\ \/ response[q] # {} /\ Return(q, "answered") /\ Take(q)
     \/ response[q] = {} /\ Return(q, "expired") /\ UNCHANGED <<response, answer>>
  /\ UNCHANGED verdict

(* The asker's context ends: the turn is cancelled, by a person or by the  *)
(* next message of the conversation, or the program is closing.            *)
Cancel(q) ==
  /\ asker[q] = "waiting"
  /\ Goto(q, "leaving")
  /\ Return(q, "cancelled")
  /\ UNCHANGED <<pending, response, answer, verdict>>

(* Mutant: the conversation is cleared whatever question it holds.         *)
ForgetMutant(q) ==
  /\ asker[q] = "leaving"
  /\ Goto(q, "done")
  /\ pending' = [pending EXCEPT ![ConversationOf[q]] = {}]
  /\ UNCHANGED <<response, outcome, answer, verdict>>

(* Mutant: only the deadline unregisters a question.                       *)
ForgetMutant2(q) ==
  /\ asker[q] = "leaving"
  /\ Goto(q, "done")
  /\ UNCHANGED <<pending, response, outcome, answer, verdict>>

Forget(q) ==
  /\ asker[q] = "leaving"
  /\ Goto(q, "done")
  /\ Unregister(q)
  /\ UNCHANGED <<response, outcome, answer, verdict>>

-----------------------------------------------------------------------------
(* TryAnswer, on a message that reached the gateway.                       *)

Judge(m, result) == verdict' = [verdict EXCEPT ![m] = result]

(* Nothing is pending: the message begins a turn.                          *)
BeginTurn(m) ==
  /\ verdict[m] = "unseen"
  /\ pending[In(m)] = {}
  /\ Judge(m, "not pending")
  /\ UNCHANGED <<asker, pending, response, outcome, answer>>

(* Somebody else wrote it, or it names no option.                          *)
Ignore(m) ==
  /\ verdict[m] = "unseen"
  /\ pending[In(m)] # {}
  /\ Judge(m, "ignored")
  /\ UNCHANGED <<asker, pending, response, outcome, answer>>

(* The owner of the conversation names an option.                          *)
Decide(m) ==
  /\ verdict[m] = "unseen"
  /\ \E q \in pending[In(m)] :
       response' = [response EXCEPT ![q] = @ \cup {m}]
  /\ pending' = [pending EXCEPT ![In(m)] = {}]
  /\ Judge(m, "delivered")
  /\ UNCHANGED <<asker, outcome, answer>>

-----------------------------------------------------------------------------
Ask(q) == Unfit(q) \/ Register(q) \/ Busy(q)

AskerStep(q) ==
  \/ Send(q) \/ SendFails(q) \/ Receive(q) \/ Expire(q) \/ Cancel(q) \/ Forget(q)

Arrive(m) == BeginTurn(m) \/ Ignore(m) \/ Decide(m)

Next ==
  \/ \E q \in Questions : Ask(q) \/ AskerStep(q)
  \/ \E m \in Messages : Arrive(m)

Spec == Init /\ [][Next]_vars

(* The messenger's send returns, the clock runs out and goroutines are     *)
(* scheduled; no message has to come and no turn to be cancelled.          *)
FairSpec ==
  Spec /\ \A q \in Questions :
            WF_vars(Send(q) \/ SendFails(q) \/ Receive(q) \/ Expire(q) \/ Forget(q))

-----------------------------------------------------------------------------
(* Properties.                                                             *)

(* The variables keep their types; a conversation has at most one question *)
(* registered, one of its own, and a question's channel holds at most one  *)
(* answer, so that the send under the lock never blocks.                   *)
TypeOK ==
  /\ asker \in [Questions -> Positions]
  /\ pending \in [Conversations -> SUBSET Questions]
  /\ \A v \in Conversations : \A p, q \in pending[v] :
       p = q /\ ConversationOf[q] = v
  /\ response \in [Questions -> SUBSET Messages]
  /\ \A q \in Questions : \A m, n \in response[q] : m = n
  /\ outcome \in [Questions -> Outcomes]
  /\ answer \in [Questions -> SUBSET Messages]
  /\ verdict \in [Messages -> Verdicts]

(* AskOnChannel keeps the promise of Question, a place per conversation.   *)
StateOf(q) ==
  CASE outcome[q] = "answered" -> "answered"
    [] outcome[q] \notin {"none", "answered"} -> "unanswered"
    [] outcome[q] = "none" /\ response[q] # {} -> "replied"
    [] outcome[q] = "none" /\ response[q] = {} /\ asker[q] # "idle" -> "open"
    [] OTHER -> "unasked"

ReplyTo(q) ==
  CASE outcome[q] = "answered" -> answer[q]
    [] outcome[q] = "none" -> response[q]
    [] OTHER -> {}

Channel == INSTANCE Question
             WITH Places <- Conversations, PlaceOf <- ConversationOf,
                  Replies <- Messages,
                  state <- [q \in Questions |-> StateOf(q)],
                  reply <- [q \in Questions |-> ReplyTo(q)]
QuestionSpec == Channel!Spec

(* A question that was sent and is waited for without an answer is the one *)
(* registered in its conversation: no late forget or expire of an earlier  *)
(* question took it away, and a person's next number decides it.           *)
WaitingIsAnswerable ==
  \A q \in Questions :
    asker[q] = "waiting" /\ response[q] = {} => pending[ConversationOf[q]] = {q}

(* When every asker has returned no question is left registered: one left  *)
(* behind would swallow the messages of its conversation for ever.         *)
NothingLeftBehind ==
  (\A q \in Questions : asker[q] \in {"idle", "done"})
    => \A v \in Conversations : pending[v] = {}

(* A question reported as expired received no answer: who decided within   *)
(* the deadline is never told that time is up.                             *)
ExpiredMeansUndecided ==
  \A q \in Questions : outcome[q] = "expired" => response[q] = {}

(* Every asker returns.                                                    *)
AskersReturn ==
  \A q \in Questions : asker[q] = "sending" ~> asker[q] = "done"
=============================================================================
