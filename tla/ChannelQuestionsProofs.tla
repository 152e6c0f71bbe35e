------------------------ MODULE ChannelQuestionsProofs ------------------------
(***************************************************************************)
(* Theorems about the questions asked in messengers, for any set of        *)
(* questions, conversations and messages.                                  *)
(*                                                                         *)
(* The inductive invariant ChannelInv links the map of pending questions   *)
(* to the position of every asker: who waits without an answer is          *)
(* registered (OpenIsRegistered), who is registered has not been answered  *)
(* and has not left (RegisteredIsOpen), and an outcome is set exactly when *)
(* the wait is over (OutcomeFollowsAsker).                                 *)
(***************************************************************************)
EXTENDS ChannelQuestions, TLAPS

OpenIsRegistered ==
  \A q \in Questions :
    asker[q] \in {"sending", "waiting"} /\ response[q] = {}
      => pending[ConversationOf[q]] = {q}

RegisteredIsOpen ==
  \A v \in Conversations : \A q \in pending[v] :
    /\ asker[q] \in {"sending", "waiting", "leaving"}
    /\ response[q] = {}
    /\ outcome[q] \notin {"answered", "expired"}

OutcomeFollowsAsker ==
  \A q \in Questions :
    /\ outcome[q] = "none" <=> asker[q] \in {"idle", "sending", "waiting"}
    /\ asker[q] = "idle" => response[q] = {}

ChannelInv ==
  /\ TypeOK
  /\ OpenIsRegistered
  /\ RegisteredIsOpen
  /\ OutcomeFollowsAsker
  /\ ExpiredMeansUndecided

-----------------------------------------------------------------------------
(* A message arrives in one of the conversations.                          *)
LEMMA MessageIn == \A m \in Messages : In(m) \in Conversations
BY DEF Messages, In

(* The initial states satisfy the invariant.                               *)
LEMMA InitInv == Init => ChannelInv
<1>1. Init => TypeOK
  BY DEF Init, TypeOK, Positions, Outcomes, Verdicts
<1>2. Init => /\ OpenIsRegistered /\ RegisteredIsOpen
              /\ OutcomeFollowsAsker /\ ExpiredMeansUndecided
  BY ChannelAssumption DEF Init, OpenIsRegistered, RegisteredIsOpen, OutcomeFollowsAsker,
     ExpiredMeansUndecided
<1> QED BY <1>1, <1>2 DEF ChannelInv

(* What a question does to the map of its own conversation.                *)
LEMMA ConversationOfQuestion ==
  ASSUME ChannelInv, NEW q \in Questions
  PROVE  /\ ConversationOf[q] \in Conversations
         /\ \A v \in Conversations : q \in pending[v] => v = ConversationOf[q] /\ pending[v] = {q}
BY ChannelAssumption DEF ChannelInv, TypeOK

(* The question is refused, or registered in an empty conversation.        *)
LEMMA AskInv == ASSUME ChannelInv, NEW q \in Questions, Ask(q) PROVE ChannelInv'
<1> USE ConversationOfQuestion DEF Goto, Return
<1>1. CASE Unfit(q) \/ Busy(q)
  <2>1. TypeOK'
    BY <1>1 DEF ChannelInv, TypeOK, Unfit, Busy, Positions, Outcomes
  <2>2. OpenIsRegistered' /\ RegisteredIsOpen'
    BY <1>1 DEF ChannelInv, TypeOK, OpenIsRegistered, RegisteredIsOpen, Unfit, Busy
  <2>3. OutcomeFollowsAsker' /\ ExpiredMeansUndecided'
    BY <1>1 DEF ChannelInv, TypeOK, OutcomeFollowsAsker, ExpiredMeansUndecided, Unfit, Busy
  <2> QED BY <2>1, <2>2, <2>3 DEF ChannelInv
<1>2. CASE Register(q)
  <2>1. TypeOK'
    BY <1>2 DEF ChannelInv, TypeOK, Register, Positions
  <2>2. OpenIsRegistered'
    BY <1>2 DEF ChannelInv, TypeOK, OpenIsRegistered, Register
  <2>3. RegisteredIsOpen'
    BY <1>2 DEF ChannelInv, TypeOK, RegisteredIsOpen, OutcomeFollowsAsker, Register
  <2>4. OutcomeFollowsAsker' /\ ExpiredMeansUndecided'
    BY <1>2 DEF ChannelInv, TypeOK, OutcomeFollowsAsker, ExpiredMeansUndecided, Register
  <2> QED BY <2>1, <2>2, <2>3, <2>4 DEF ChannelInv
<1> QED BY <1>1, <1>2 DEF Ask

(* The message of the question is sent, or the wait ends without touching  *)
(* the map.                                                                *)
LEMMA WaitInv ==
  ASSUME ChannelInv, NEW q \in Questions, Send(q) \/ SendFails(q) \/ Cancel(q)
  PROVE  ChannelInv'
<1> USE ConversationOfQuestion DEF Goto, Return
<1>1. TypeOK'
  BY DEF ChannelInv, TypeOK, Send, SendFails, Cancel, Positions, Outcomes
<1>2. OpenIsRegistered'
  BY DEF ChannelInv, TypeOK, OpenIsRegistered, Send, SendFails, Cancel
<1>3. RegisteredIsOpen'
  BY DEF ChannelInv, TypeOK, RegisteredIsOpen, Send, SendFails, Cancel
<1>4. OutcomeFollowsAsker' /\ ExpiredMeansUndecided'
  BY DEF ChannelInv, TypeOK, OutcomeFollowsAsker, ExpiredMeansUndecided, Send, SendFails, Cancel
<1> QED BY <1>1, <1>2, <1>3, <1>4 DEF ChannelInv

(* The asker takes its answer.                                             *)
LEMMA ReceiveInv == ASSUME ChannelInv, NEW q \in Questions, Receive(q) PROVE ChannelInv'
<1> USE ConversationOfQuestion DEF Goto, Return, Take, Receive
<1>1. TypeOK'
  BY DEF ChannelInv, TypeOK, Positions, Outcomes
<1>2. OpenIsRegistered'
  BY DEF ChannelInv, TypeOK, OpenIsRegistered
<1>3. RegisteredIsOpen'
  BY DEF ChannelInv, TypeOK, RegisteredIsOpen
<1>4. OutcomeFollowsAsker' /\ ExpiredMeansUndecided'
  BY DEF ChannelInv, TypeOK, OutcomeFollowsAsker, ExpiredMeansUndecided
<1> QED BY <1>1, <1>2, <1>3, <1>4 DEF ChannelInv

(* Taking a question out of the map takes no other one out.                *)
LEMMA Unregistered ==
  ASSUME ChannelInv, NEW q \in Questions, Unregister(q)
  PROVE  /\ pending' \in [Conversations -> SUBSET Questions]
         /\ \A v \in Conversations : pending'[v] = pending[v] \ {q}
BY ConversationOfQuestion DEF ChannelInv, TypeOK, Unregister

(* The clock runs out.                                                     *)
LEMMA ExpireInv == ASSUME ChannelInv, NEW q \in Questions, Expire(q) PROVE ChannelInv'
<1> USE DEF Goto, Return, Take
<1>1. /\ pending' \in [Conversations -> SUBSET Questions]
      /\ \A v \in Conversations : pending'[v] = pending[v] \ {q}
  BY Unregistered DEF Expire
<1>2. /\ asker[q] = "waiting" /\ asker' = [asker EXCEPT ![q] = "leaving"]
      /\ \/ /\ response[q] # {} /\ outcome' = [outcome EXCEPT ![q] = "answered"]
            /\ answer' = [answer EXCEPT ![q] = response[q]]
            /\ response' = [response EXCEPT ![q] = {}]
         \/ /\ response[q] = {} /\ outcome' = [outcome EXCEPT ![q] = "expired"]
            /\ UNCHANGED <<response, answer>>
      /\ UNCHANGED verdict
  BY DEF Expire
<1>3. \A p \in Questions : ConversationOf[p] \in Conversations
  BY ConversationOfQuestion
<1>4. TypeOK'
  BY <1>1, <1>2 DEF ChannelInv, TypeOK, Positions, Outcomes
<1>5. OpenIsRegistered'
  BY <1>1, <1>2, <1>3 DEF ChannelInv, TypeOK, OpenIsRegistered
<1>6. RegisteredIsOpen'
  BY <1>1, <1>2 DEF ChannelInv, TypeOK, RegisteredIsOpen
<1>7. OutcomeFollowsAsker' /\ ExpiredMeansUndecided'
  BY <1>2 DEF ChannelInv, TypeOK, OutcomeFollowsAsker, ExpiredMeansUndecided
<1> QED BY <1>4, <1>5, <1>6, <1>7 DEF ChannelInv

(* The deferred call takes out what is left.                               *)
LEMMA ForgetInv == ASSUME ChannelInv, NEW q \in Questions, Forget(q) PROVE ChannelInv'
<1>1. /\ pending' \in [Conversations -> SUBSET Questions]
      /\ \A v \in Conversations : pending'[v] = pending[v] \ {q}
  BY Unregistered DEF Forget
<1>2. /\ asker[q] = "leaving" /\ asker' = [asker EXCEPT ![q] = "done"]
      /\ UNCHANGED <<response, outcome, answer, verdict>>
  BY DEF Forget, Goto
<1>3. \A p \in Questions : ConversationOf[p] \in Conversations
  BY ConversationOfQuestion
<1>4. TypeOK'
  BY <1>1, <1>2 DEF ChannelInv, TypeOK, Positions
<1>5. OpenIsRegistered'
  BY <1>1, <1>2, <1>3 DEF ChannelInv, TypeOK, OpenIsRegistered
<1>6. RegisteredIsOpen'
  BY <1>1, <1>2 DEF ChannelInv, TypeOK, RegisteredIsOpen
<1>7. OutcomeFollowsAsker' /\ ExpiredMeansUndecided'
  BY <1>2 DEF ChannelInv, TypeOK, OutcomeFollowsAsker, ExpiredMeansUndecided
<1> QED BY <1>4, <1>5, <1>6, <1>7 DEF ChannelInv

(* What Decide does, with the question it decides in the hand.             *)
LEMMA Decided ==
  ASSUME ChannelInv, NEW m \in Messages, Decide(m)
  PROVE  \E q \in Questions :
           /\ ConversationOf[q] = In(m) /\ pending[In(m)] = {q} /\ response[q] = {}
           /\ asker[q] \in {"sending", "waiting", "leaving"}
           /\ outcome[q] \notin {"answered", "expired"}
           /\ response' = [response EXCEPT ![q] = {m}]
           /\ pending' = [pending EXCEPT ![In(m)] = {}]
           /\ verdict' = [verdict EXCEPT ![m] = "delivered"]
           /\ UNCHANGED <<asker, outcome, answer>>
<1>1. PICK q \in pending[In(m)] : response' = [response EXCEPT ![q] = @ \cup {m}]
  BY DEF Decide
<1>2. /\ q \in Questions /\ In(m) \in Conversations
      /\ pending[In(m)] = {q} /\ ConversationOf[q] = In(m)
  BY <1>1, MessageIn DEF ChannelInv, TypeOK
<1>3. /\ response[q] = {} /\ asker[q] \in {"sending", "waiting", "leaving"}
      /\ outcome[q] \notin {"answered", "expired"}
  BY <1>1, <1>2 DEF ChannelInv, RegisteredIsOpen
<1>4. response' = [response EXCEPT ![q] = {m}]
  BY <1>1, <1>2, <1>3 DEF ChannelInv, TypeOK
<1> QED BY <1>2, <1>3, <1>4 DEF Decide, Judge

(* A message arrives: a turn, a message to ignore, or the decision.        *)
LEMMA ArriveInv == ASSUME ChannelInv, NEW m \in Messages, Arrive(m) PROVE ChannelInv'
<1>1. CASE BeginTurn(m) \/ Ignore(m)
  <2>1. /\ UNCHANGED <<asker, pending, response, outcome, answer>>
        /\ \E result \in Verdicts : verdict' = [verdict EXCEPT ![m] = result]
    BY <1>1 DEF BeginTurn, Ignore, Judge, Verdicts
  <2>2. TypeOK'
    BY <2>1 DEF ChannelInv, TypeOK
  <2>3. /\ OpenIsRegistered' /\ RegisteredIsOpen'
        /\ OutcomeFollowsAsker' /\ ExpiredMeansUndecided'
    BY <2>1 DEF ChannelInv, OpenIsRegistered, RegisteredIsOpen, OutcomeFollowsAsker,
                ExpiredMeansUndecided
  <2> QED BY <2>2, <2>3 DEF ChannelInv
<1>2. CASE Decide(m)
  <2>1. PICK q \in Questions :
           /\ ConversationOf[q] = In(m) /\ pending[In(m)] = {q} /\ response[q] = {}
           /\ asker[q] \in {"sending", "waiting", "leaving"}
           /\ outcome[q] \notin {"answered", "expired"}
           /\ response' = [response EXCEPT ![q] = {m}]
           /\ pending' = [pending EXCEPT ![In(m)] = {}]
           /\ verdict' = [verdict EXCEPT ![m] = "delivered"]
           /\ UNCHANGED <<asker, outcome, answer>>
    BY <1>2, Decided
  <2>2. /\ In(m) \in Conversations
        /\ \A p \in Questions : ConversationOf[p] \in Conversations
    BY MessageIn, ConversationOfQuestion
  <2>3. TypeOK'
    <3>1. /\ pending' \in [Conversations -> SUBSET Questions]
          /\ \A v \in Conversations : pending'[v] = pending[v] \/ pending'[v] = {}
      <4>1. pending \in [Conversations -> SUBSET Questions]
        BY DEF ChannelInv, TypeOK
      <4> QED BY <2>1, <4>1
    <3>2. /\ response' \in [Questions -> SUBSET Messages]
          /\ \A p \in Questions : response'[p] = response[p] \/ response'[p] = {m}
      <4>1. response \in [Questions -> SUBSET Messages] /\ {m} \in SUBSET Messages
        BY DEF ChannelInv, TypeOK
      <4> QED BY <2>1, <4>1
    <3>3. verdict' \in [Messages -> Verdicts]
      BY <2>1 DEF ChannelInv, TypeOK, Verdicts
    <3>4. \A p \in Questions : \A k, n \in response'[p] : k = n
      BY <3>2 DEF ChannelInv, TypeOK
    <3> QED BY <2>1, <3>1, <3>2, <3>3, <3>4 DEF ChannelInv, TypeOK
  <2>4. OpenIsRegistered'
    <3> SUFFICES ASSUME NEW p \in Questions,
                        asker[p] \in {"sending", "waiting"}, response'[p] = {}
                 PROVE  pending'[ConversationOf[p]] = {p}
      BY <2>1 DEF OpenIsRegistered
    <3>1. response \in [Questions -> SUBSET Messages] /\ DOMAIN pending = Conversations
      BY DEF ChannelInv, TypeOK
    <3>2. p # q /\ response[p] = {}
      BY <2>1, <3>1
    <3>3. pending[ConversationOf[p]] = {p}
      BY <3>2 DEF ChannelInv, OpenIsRegistered
    <3>4. ConversationOf[p] # In(m)
      BY <2>1, <3>2, <3>3
    <3> QED BY <2>1, <2>2, <3>1, <3>3, <3>4
  <2>5. RegisteredIsOpen'
    BY <2>1, <2>2 DEF ChannelInv, TypeOK, RegisteredIsOpen
  <2>6. OutcomeFollowsAsker' /\ ExpiredMeansUndecided'
    BY <2>1 DEF ChannelInv, TypeOK, OutcomeFollowsAsker, ExpiredMeansUndecided
  <2> QED BY <2>3, <2>4, <2>5, <2>6 DEF ChannelInv
<1> QED BY <1>1, <1>2 DEF Arrive

(* ChannelInv is inductive.                                                *)
LEMMA StepInv == ChannelInv /\ [Next]_vars => ChannelInv'
<1> SUFFICES ASSUME ChannelInv, [Next]_vars PROVE ChannelInv'
  OBVIOUS
<1>1. ASSUME NEW q \in Questions, Ask(q) \/ AskerStep(q) PROVE ChannelInv'
  BY <1>1, AskInv, WaitInv, ReceiveInv, ExpireInv, ForgetInv DEF AskerStep
<1>2. ASSUME NEW m \in Messages, Arrive(m) PROVE ChannelInv'
  BY <1>2, ArriveInv
<1>3. CASE UNCHANGED vars
  BY <1>3 DEF vars, ChannelInv, TypeOK, OpenIsRegistered, RegisteredIsOpen,
              OutcomeFollowsAsker, ExpiredMeansUndecided
<1> QED BY <1>1, <1>2, <1>3 DEF Next

(* ChannelInv holds in every reachable state.                              *)
LEMMA ChannelInvariant == Spec => []ChannelInv
BY InitInv, StepInv, PTL DEF Spec

(* The variables of ChannelQuestions keep their types: a conversation has  *)
(* at most one question registered, a question at most one answer.         *)
THEOREM TypeCorrect == Spec => []TypeOK
<1>1. ChannelInv => TypeOK
  BY DEF ChannelInv
<1> QED BY <1>1, ChannelInvariant, PTL

(* Whoever waits for an answer in a conversation can be answered there.    *)
THEOREM Answerable == Spec => []WaitingIsAnswerable
<1>1. ChannelInv => WaitingIsAnswerable
  BY DEF ChannelInv, OpenIsRegistered, WaitingIsAnswerable
<1> QED BY <1>1, ChannelInvariant, PTL

(* When all askers have returned the map of pending questions is empty.    *)
THEOREM NothingRemains == Spec => []NothingLeftBehind
<1>1. ChannelInv => NothingLeftBehind
  BY DEF ChannelInv, TypeOK, RegisteredIsOpen, NothingLeftBehind
<1> QED BY <1>1, ChannelInvariant, PTL

(* A deadline never hides an answer that came in with it.                  *)
THEOREM DeadlineHidesNothing == Spec => []ExpiredMeansUndecided
<1>1. ChannelInv => ExpiredMeansUndecided
  BY DEF ChannelInv
<1> QED BY <1>1, ChannelInvariant, PTL

-----------------------------------------------------------------------------
(* The refinement of Question.                                             *)

States == [q \in Questions |-> StateOf(q)]
Replied == [q \in Questions |-> ReplyTo(q)]

(* A question whose position, outcome, channel and answer stay is the same. *)
LEMMA Untouched ==
  ASSUME NEW q \in Questions, asker'[q] = asker[q], outcome'[q] = outcome[q],
         response'[q] = response[q], answer'[q] = answer[q]
  PROVE  StateOf(q)' = StateOf(q) /\ ReplyTo(q)' = ReplyTo(q)
BY DEF StateOf, ReplyTo

(* A step of one question leaves the others as they are.                   *)
LEMMA OneChanges ==
  ASSUME NEW q \in Questions, NEW s, NEW r,
         StateOf(q)' = s, ReplyTo(q)' = r,
         \A p \in Questions \ {q} :
           StateOf(p)' = StateOf(p) /\ ReplyTo(p)' = ReplyTo(p)
  PROVE  /\ States' = [States EXCEPT ![q] = s]
         /\ Replied' = [Replied EXCEPT ![q] = r]
BY DEF States, Replied

(* Initial states map to initial states.                                   *)
LEMMA QuestionInit == Init => Channel!Init
BY DEF Init, Channel!Init, StateOf, ReplyTo

(* A question is registered when none of its conversation is open.         *)
LEMMA RegisterOpens ==
  ASSUME ChannelInv, NEW q \in Questions, Register(q) PROVE Channel!Next
<1>1. /\ asker \in [Questions -> Positions] /\ asker[q] = "idle"
      /\ asker' = [asker EXCEPT ![q] = "sending"]
      /\ pending[ConversationOf[q]] = {}
      /\ UNCHANGED <<response, outcome, answer>>
  BY DEF Register, Goto, ChannelInv, TypeOK
<1>2. outcome[q] = "none" /\ response[q] = {}
  BY <1>1 DEF ChannelInv, OutcomeFollowsAsker
<1>3. /\ StateOf(q) = "unasked" /\ ReplyTo(q) = {}
      /\ StateOf(q)' = "open" /\ ReplyTo(q)' = {}
  BY <1>1, <1>2 DEF StateOf, ReplyTo
<1>4. ASSUME NEW p \in Questions, ConversationOf[p] = ConversationOf[q]
      PROVE  StateOf(p) # "open"
  <2>1. ~(asker[p] \in {"sending", "waiting"} /\ response[p] = {})
    BY <1>1, <1>4 DEF ChannelInv, OpenIsRegistered
  <2>2. outcome[p] = "none" => asker[p] \in {"idle", "sending", "waiting"}
    BY DEF ChannelInv, OutcomeFollowsAsker
  <2> QED BY <2>1, <2>2 DEF StateOf
<1>5. /\ States' = [States EXCEPT ![q] = "open"]
      /\ Replied' = [Replied EXCEPT ![q] = {}]
  BY <1>1, <1>3, Untouched, OneChanges
<1>6. Replied' = Replied
  BY <1>3, <1>5 DEF Replied
<1> QED BY <1>3, <1>4, <1>5, <1>6
        DEF Channel!Next, Channel!Open, Channel!Become, States, Replied

(* The decision replies to the question, or comes too late to count.       *)
LEMMA DecideReplies ==
  ASSUME ChannelInv, NEW m \in Messages, Decide(m)
  PROVE  Channel!Next \/ UNCHANGED <<States, Replied>>
<1>1. PICK q \in Questions :
         /\ response[q] = {} /\ response' = [response EXCEPT ![q] = {m}]
         /\ asker[q] \in {"sending", "waiting", "leaving"}
         /\ outcome[q] # "answered"
         /\ UNCHANGED <<asker, outcome, answer>>
  BY Decided
<1>2. /\ response \in [Questions -> SUBSET Messages]
      /\ \A p \in Questions \ {q} : response'[p] = response[p]
      /\ response'[q] = {m}
  <2>1. response \in [Questions -> SUBSET Messages]
    BY DEF ChannelInv, TypeOK
  <2> QED BY <1>1, <2>1
<1>3. \A p \in Questions \ {q} : StateOf(p)' = StateOf(p) /\ ReplyTo(p)' = ReplyTo(p)
  BY <1>1, <1>2, Untouched
<1>4. CASE outcome[q] = "none"
  <2>1. /\ StateOf(q) = "open" /\ ReplyTo(q) = {}
        /\ StateOf(q)' = "replied" /\ ReplyTo(q)' = {m}
    BY <1>1, <1>2, <1>4 DEF StateOf, ReplyTo
  <2>2. /\ States' = [States EXCEPT ![q] = "replied"]
        /\ Replied' = [Replied EXCEPT ![q] = {m}]
    BY <1>3, <2>1, OneChanges
  <2> QED BY <2>1, <2>2
          DEF Channel!Next, Channel!Reply, Channel!Become, States, Replied
<1>5. CASE outcome[q] # "none"
  <2>1. StateOf(q)' = StateOf(q) /\ ReplyTo(q)' = ReplyTo(q)
    BY <1>1, <1>5 DEF StateOf, ReplyTo
  <2> QED BY <1>3, <2>1 DEF States, Replied
<1> QED BY <1>4, <1>5

(* The asker takes its answer, from the channel or with the deadline.      *)
LEMMA TakesAnswer ==
  ASSUME ChannelInv, NEW q \in Questions, asker[q] = "waiting", response[q] # {},
         asker' = [asker EXCEPT ![q] = "leaving"],
         outcome' = [outcome EXCEPT ![q] = "answered"],
         answer' = [answer EXCEPT ![q] = response[q]],
         response' = [response EXCEPT ![q] = {}]
  PROVE  Channel!Next
<1>1. /\ asker \in [Questions -> Positions] /\ outcome \in [Questions -> Outcomes]
      /\ answer \in [Questions -> SUBSET Messages]
      /\ response \in [Questions -> SUBSET Messages]
  BY DEF ChannelInv, TypeOK
<1>2. outcome[q] = "none"
  BY DEF ChannelInv, OutcomeFollowsAsker
<1>3. /\ StateOf(q) = "replied" /\ StateOf(q)' = "answered"
      /\ ReplyTo(q)' = ReplyTo(q)
  BY <1>1, <1>2 DEF StateOf, ReplyTo
<1>4. \A p \in Questions \ {q} : StateOf(p)' = StateOf(p) /\ ReplyTo(p)' = ReplyTo(p)
  BY <1>1, Untouched
<1>5. /\ States' = [States EXCEPT ![q] = "answered"]
      /\ Replied' = [Replied EXCEPT ![q] = ReplyTo(q)]
  BY <1>3, <1>4, OneChanges
<1>6. Replied' = Replied
  BY <1>5 DEF Replied
<1> QED BY <1>3, <1>5, <1>6
        DEF Channel!Next, Channel!Answer, Channel!Become, States, Replied

(* The asker returns without an answer.                                    *)
LEMMA ReturnsNothing ==
  ASSUME ChannelInv, NEW q \in Questions, asker[q] \in {"idle", "sending", "waiting"},
         \E position \in {"leaving", "done"} : asker' = [asker EXCEPT ![q] = position],
         \E result \in {"unfit", "busy", "undeliverable", "expired", "cancelled"} :
           outcome' = [outcome EXCEPT ![q] = result],
         UNCHANGED <<response, answer>>
  PROVE  Channel!Next
<1>1. asker \in [Questions -> Positions] /\ outcome \in [Questions -> Outcomes]
  BY DEF ChannelInv, TypeOK
<1>2. outcome[q] = "none"
  BY DEF ChannelInv, OutcomeFollowsAsker
<1>3. /\ StateOf(q) \in {"unasked", "open", "replied"}
      /\ StateOf(q)' = "unanswered" /\ ReplyTo(q)' = {}
  BY <1>1, <1>2 DEF StateOf, ReplyTo
<1>4. \A p \in Questions \ {q} : StateOf(p)' = StateOf(p) /\ ReplyTo(p)' = ReplyTo(p)
  BY <1>1, Untouched
<1>5. /\ States' = [States EXCEPT ![q] = "unanswered"]
      /\ Replied' = [Replied EXCEPT ![q] = {}]
  BY <1>3, <1>4, OneChanges
<1> QED BY <1>3, <1>5
        DEF Channel!Next, Channel!GiveUp, Channel!Become, States, Replied

(* The question is sent, or leaves the map after its outcome.              *)
LEMMA MovesUnseen ==
  ASSUME ChannelInv, NEW q \in Questions, Send(q) \/ Forget(q)
  PROVE  UNCHANGED <<States, Replied>>
<1>1. /\ asker \in [Questions -> Positions]
      /\ \E position \in {"waiting", "done"} : asker' = [asker EXCEPT ![q] = position]
      /\ asker[q] # "idle"
      /\ UNCHANGED <<response, outcome, answer>>
  BY DEF Send, Forget, Goto, ChannelInv, TypeOK
<1>2. \A p \in Questions : StateOf(p)' = StateOf(p) /\ ReplyTo(p)' = ReplyTo(p)
  BY <1>1 DEF StateOf, ReplyTo
<1> QED BY <1>2 DEF States, Replied

(* Every step maps to a step of the promise or to a stutter.               *)
LEMMA QuestionStep ==
  ChannelInv /\ [Next]_vars => [Channel!Next]_<<States, Replied>>
<1> SUFFICES ASSUME ChannelInv, [Next]_vars
             PROVE  Channel!Next \/ UNCHANGED <<States, Replied>>
  OBVIOUS
<1>1. ASSUME NEW q \in Questions, Receive(q) PROVE Channel!Next
  BY <1>1, TakesAnswer DEF Receive, Goto, Return, Take
<1>2. ASSUME NEW q \in Questions, Expire(q) PROVE Channel!Next
  <2>1. CASE response[q] # {} /\ Return(q, "answered") /\ Take(q)
    BY <1>2, <2>1, TakesAnswer DEF Expire, Goto, Return, Take
  <2>2. CASE response[q] = {} /\ Return(q, "expired") /\ UNCHANGED <<response, answer>>
    BY <1>2, <2>2, ReturnsNothing DEF Expire, Goto, Return
  <2> QED BY <1>2, <2>1, <2>2 DEF Expire
<1>3. ASSUME NEW q \in Questions, Unfit(q) \/ Busy(q) \/ SendFails(q) \/ Cancel(q)
      PROVE  Channel!Next
  BY <1>3, ReturnsNothing DEF Unfit, Busy, SendFails, Cancel, Goto, Return
<1>4. ASSUME NEW q \in Questions, Ask(q) \/ AskerStep(q)
      PROVE  Channel!Next \/ UNCHANGED <<States, Replied>>
  BY <1>1, <1>2, <1>3, <1>4, RegisterOpens, MovesUnseen DEF Ask, AskerStep
<1>5. ASSUME UNCHANGED <<asker, response, outcome, answer>>
      PROVE  UNCHANGED <<States, Replied>>
  BY <1>5 DEF States, Replied, StateOf, ReplyTo
<1>6. ASSUME NEW m \in Messages, Arrive(m)
      PROVE  Channel!Next \/ UNCHANGED <<States, Replied>>
  BY <1>5, <1>6, DecideReplies DEF Arrive, BeginTurn, Ignore
<1>7. CASE UNCHANGED vars
  BY <1>5, <1>7 DEF vars
<1> QED BY <1>4, <1>6, <1>7 DEF Next

(* AskOnChannel and TryAnswer implement the promise of Question with one   *)
(* open question per conversation.                                         *)
THEOREM QuestionRefined == Spec => QuestionSpec
<1>1. Spec => []ChannelInv
  BY ChannelInvariant
<1>2. Init => Channel!Init
  BY QuestionInit
<1>3. ChannelInv /\ [Next]_vars =>
        [Channel!Next]_<<[q \in Questions |-> StateOf(q)],
                         [q \in Questions |-> ReplyTo(q)]>>
  BY QuestionStep DEF States, Replied
<1> QED BY <1>1, <1>2, <1>3, PTL DEF Spec, QuestionSpec, Channel!Spec
=============================================================================
