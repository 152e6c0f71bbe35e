-------------------------- MODULE QuestionnaireProofs --------------------------
(***************************************************************************)
(* Theorems about the turns on the screen and the answers they end with,   *)
(* for any set of questions and any number of responses to each.           *)
(*                                                                         *)
(* The inductive invariant ScreenInv adds to the types and to the turns    *)
(* what links the stages of a request: an outcome is set exactly when the  *)
(* wait is over (OutcomeFollowsAsker), and a response can only be found    *)
(* for, or wait in the channel of, a question that was shown               *)
(* (ResponseFollowsShow).                                                  *)
(***************************************************************************)
EXTENDS Questionnaire, TLAPS

Unshown == {"idle", "queued", "holding"}

OutcomeFollowsAsker ==
  \A q \in Questions :
    outcome[q] = "none" <=> asker[q] \in Unshown \cup {"asking"}

ResponseFollowsShow ==
  /\ \A q \in Questions : asker[q] \in Unshown => response[q] = {}
  /\ \A q \in pending : asker[q] \in {"asking", "closing"}
  /\ \A c \in Clicks : call[c] = "found" => asker[About(c)] \notin Unshown

ScreenInv ==
  /\ TypeOK
  /\ TurnsAreExclusive
  /\ OutcomeFollowsAsker
  /\ ResponseFollowsShow

-----------------------------------------------------------------------------
(* A response is about one of the questions.                               *)
LEMMA ClickAbout == \A c \in Clicks : About(c) \in Questions
BY DEF Clicks, About

(* The initial states satisfy the invariant.                               *)
LEMMA InitInv == Init => ScreenInv
<1>1. Init => TypeOK
  BY DEF Init, TypeOK, Positions, Stages
<1>2. Init => TurnsAreExclusive
  BY DEF Init, TurnsAreExclusive, OnScreen
<1>3. Init => OutcomeFollowsAsker /\ ResponseFollowsShow
  BY ClickAbout DEF Init, OutcomeFollowsAsker, ResponseFollowsShow, Unshown
<1> QED BY <1>1, <1>2, <1>3 DEF ScreenInv

(* Events that are emitted or delivered leave a sequence of events.        *)
LEMMA BusStays ==
  ASSUME TypeOK, NEW q \in Questions
  PROVE  /\ Append(bus, Opened(q)) \in Seq([kind : {"opened", "closed"}, about : Questions])
         /\ Append(bus, Closed(q)) \in Seq([kind : {"opened", "closed"}, about : Questions])
<1> DEFINE Event == [kind : {"opened", "closed"}, about : Questions]
<1>1. Opened(q) \in Event /\ Closed(q) \in Event
  BY DEF Opened, Closed
<1>2. bus \in Seq(Event)
  BY DEF TypeOK
<1> HIDE DEF Event
<1>3. Append(bus, Opened(q)) \in Seq(Event) /\ Append(bus, Closed(q)) \in Seq(Event)
  BY <1>1, <1>2
<1> QED BY <1>3 DEF Event

-----------------------------------------------------------------------------
(* Before the dialog: the line for the screen and the token.               *)
LEMMA LineInv ==
  ASSUME ScreenInv, NEW q \in Questions, Request(q) \/ Acquire(q) \/ Abandon(q)
  PROVE  ScreenInv'
<1> USE DEF Goto, Return, LeaveLine
<1>1. TypeOK'
  <2>1. CASE Request(q)
    BY <2>1 DEF ScreenInv, TypeOK, Request, Positions
  <2>2. CASE Acquire(q)
    BY <2>2 DEF ScreenInv, TypeOK, Acquire, Positions
  <2>3. CASE Abandon(q)
    BY <2>3 DEF ScreenInv, TypeOK, Abandon, Positions
  <2> QED BY <2>1, <2>2, <2>3
<1>2. TurnsAreExclusive'
  BY DEF ScreenInv, TypeOK, TurnsAreExclusive, OnScreen, Request, Acquire, Abandon
<1>3. OutcomeFollowsAsker'
  BY DEF ScreenInv, TypeOK, OutcomeFollowsAsker, Unshown, Request, Acquire, Abandon
<1>4. ResponseFollowsShow'
  BY ClickAbout DEF ScreenInv, TypeOK, ResponseFollowsShow, Unshown, Request, Acquire, Abandon
<1> QED BY <1>1, <1>2, <1>3, <1>4 DEF ScreenInv

(* The dialog opens.                                                       *)
LEMMA ShowInv == ASSUME ScreenInv, NEW q \in Questions, Show(q) PROVE ScreenInv'
<1> USE DEF Goto, Show
<1>1. TypeOK'
  BY BusStays DEF ScreenInv, TypeOK, Positions
<1>2. TurnsAreExclusive'
  BY DEF ScreenInv, TypeOK, TurnsAreExclusive, OnScreen
<1>3. OutcomeFollowsAsker'
  BY DEF ScreenInv, TypeOK, OutcomeFollowsAsker, Unshown
<1>4. ResponseFollowsShow'
  BY ClickAbout DEF ScreenInv, TypeOK, ResponseFollowsShow, Unshown
<1> QED BY <1>1, <1>2, <1>3, <1>4 DEF ScreenInv

(* The wait ends, with a response or without one.                          *)
LEMMA EndOfWaitInv ==
  ASSUME ScreenInv, NEW q \in Questions, Receive(q) \/ Expire(q) PROVE ScreenInv'
<1> USE DEF Goto, Return
<1>1. TypeOK'
  <2>1. CASE Receive(q)
    BY <2>1 DEF ScreenInv, TypeOK, Receive, Positions
  <2>2. CASE Expire(q)
    BY <2>2, BusStays DEF ScreenInv, TypeOK, Expire, Positions
  <2> QED BY <2>1, <2>2
<1>2. TurnsAreExclusive'
  BY DEF ScreenInv, TypeOK, TurnsAreExclusive, OnScreen, Receive, Expire
<1>3. OutcomeFollowsAsker'
  BY DEF ScreenInv, TypeOK, OutcomeFollowsAsker, Unshown, Receive, Expire
<1>4. ResponseFollowsShow'
  BY ClickAbout DEF ScreenInv, TypeOK, ResponseFollowsShow, Unshown, Receive, Expire
<1> QED BY <1>1, <1>2, <1>3, <1>4 DEF ScreenInv

(* The deferred calls: the question is forgotten, then the token returned. *)
LEMMA DeferredInv ==
  ASSUME ScreenInv, NEW q \in Questions, Forget(q) \/ Free(q) PROVE ScreenInv'
<1> USE DEF Goto
<1>1. TypeOK'
  BY DEF ScreenInv, TypeOK, Positions, Forget, Free
<1>2. TurnsAreExclusive'
  BY DEF ScreenInv, TypeOK, TurnsAreExclusive, OnScreen, Forget, Free
<1>3. OutcomeFollowsAsker'
  BY DEF ScreenInv, TypeOK, OutcomeFollowsAsker, Unshown, Forget, Free
<1>4. ResponseFollowsShow'
  BY ClickAbout DEF ScreenInv, TypeOK, ResponseFollowsShow, Unshown, Forget, Free
<1> QED BY <1>1, <1>2, <1>3, <1>4 DEF ScreenInv

(* A response on its way: only its delivery touches the backend.           *)
LEMMA ClickInv ==
  ASSUME ScreenInv, NEW c \in Clicks, Click(c) \/ ClickStep(c) PROVE ScreenInv'
<1> USE ClickAbout DEF Advance
<1>1. UNCHANGED <<asker, ahead, display, pending, outcome, answer, bus>>
  BY DEF Click, ClickStep, Lookup, Deliver, Settle, backendVars
<1>2. TypeOK'
  <2>1. CASE Click(c) \/ Lookup(c) \/ Settle(c)
    BY <2>1 DEF ScreenInv, TypeOK, Click, Lookup, Settle, backendVars, Stages
  <2>2. CASE Deliver(c)
    BY <2>2 DEF ScreenInv, TypeOK, Deliver, Stages
  <2> QED BY <2>1, <2>2 DEF ClickStep
<1>3. TurnsAreExclusive' /\ OutcomeFollowsAsker'
  BY <1>1 DEF ScreenInv, TurnsAreExclusive, OutcomeFollowsAsker
<1>4. ResponseFollowsShow'
  BY <1>1 DEF ScreenInv, TypeOK, ResponseFollowsShow, Unshown, Click, ClickStep,
              Lookup, Deliver, Settle, backendVars
<1> QED BY <1>2, <1>3, <1>4 DEF ScreenInv

(* Events change what is on the screen and nothing else.                   *)
LEMMA NotifyInv == ASSUME ScreenInv, Notify PROVE ScreenInv'
<1> DEFINE Event == [kind : {"opened", "closed"}, about : Questions]
<1>1. bus \in Seq(Event) /\ bus # <<>>
  BY DEF ScreenInv, TypeOK, Notify
<1>2. Head(bus) \in Event /\ Tail(bus) \in Seq(Event)
  <2> HIDE DEF Event
  <2> QED BY <1>1
<1>3. dialog' \subseteq Questions
  BY <1>2 DEF ScreenInv, TypeOK, Notify
<1>4. TypeOK'
  BY <1>2, <1>3 DEF ScreenInv, TypeOK, Notify, backendVars
<1>5. TurnsAreExclusive' /\ OutcomeFollowsAsker' /\ ResponseFollowsShow'
  BY DEF ScreenInv, TurnsAreExclusive, OutcomeFollowsAsker, ResponseFollowsShow,
         Notify, backendVars
<1> QED BY <1>4, <1>5 DEF ScreenInv

(* ScreenInv is inductive.                                                 *)
LEMMA StepInv == ScreenInv /\ [Next]_vars => ScreenInv'
<1> SUFFICES ASSUME ScreenInv, [Next]_vars PROVE ScreenInv'
  OBVIOUS
<1>1. ASSUME NEW q \in Questions, Request(q) \/ AskerStep(q) PROVE ScreenInv'
  BY <1>1, LineInv, ShowInv, EndOfWaitInv, DeferredInv DEF AskerStep
<1>2. ASSUME NEW c \in Clicks, Click(c) \/ ClickStep(c) PROVE ScreenInv'
  BY <1>2, ClickInv
<1>3. CASE Notify
  BY <1>3, NotifyInv
<1>4. CASE UNCHANGED vars
  BY <1>4 DEF vars, ScreenInv, TypeOK, TurnsAreExclusive, OutcomeFollowsAsker,
              ResponseFollowsShow
<1> QED BY <1>1, <1>2, <1>3, <1>4 DEF Next

(* ScreenInv holds in every reachable state.                               *)
LEMMA ScreenInvariant == Spec => []ScreenInv
BY InitInv, StepInv, PTL DEF Spec

(* The variables of the questionnaires keep their types, and the channel   *)
(* of a question never holds two responses.                                *)
THEOREM TypeCorrect == Spec => []TypeOK
<1>1. ScreenInv => TypeOK
  BY DEF ScreenInv
<1> QED BY <1>1, ScreenInvariant, PTL

(* The askers of RequestQuestionnaire share one token: one at a time has   *)
(* the screen, and the token is in the channel when none does.             *)
THEOREM OneAskerOnScreen == Spec => []TurnsAreExclusive
<1>1. ScreenInv => TurnsAreExclusive
  BY DEF ScreenInv
<1> QED BY <1>1, ScreenInvariant, PTL

-----------------------------------------------------------------------------
(* The line for the screen.                                                *)

(* Whoever leaves the line leaves the others in their order.               *)
LEMMA LeavingKeepsLine ==
  ASSUME TypeOK, LineIsOrdered, NEW q \in Waiting, LeaveLine(q),
         NEW position \in {"holding", "done"}, Goto(q, position)
  PROVE  LineIsOrdered'
<1>1. Waiting' = Waiting \ {q}
  BY DEF TypeOK, Waiting, Goto
<1>2. /\ q \in Questions
      /\ \A p \in Questions : ahead'[p] = IF p = q THEN {} ELSE ahead[p] \ {q}
  BY DEF Waiting, LeaveLine
<1>3. ASSUME NEW p \in Questions PROVE ahead'[p] \subseteq Waiting' \ {p}
  <2>1. ahead[p] \subseteq Waiting \ {p}
    BY DEF LineIsOrdered
  <2>2. ahead'[p] \subseteq ahead[p] \ {q}
    BY <1>2
  <2> QED BY <1>1, <2>1, <2>2
<1>4. ASSUME NEW p \in Questions \ Waiting' PROVE ahead'[p] = {}
  BY <1>1, <1>2 DEF LineIsOrdered
<1>5. ASSUME NEW p \in Waiting', NEW r \in Waiting', p # r
      PROVE  p \in ahead'[r] <=> r \notin ahead'[p]
  <2>1. p \in Waiting /\ r \in Waiting /\ p # q /\ r # q
    BY <1>1
  <2>2. p \in ahead[r] <=> r \notin ahead[p]
    BY <1>5, <2>1 DEF LineIsOrdered
  <2>3. ahead'[p] = ahead[p] \ {q} /\ ahead'[r] = ahead[r] \ {q}
    BY <1>2, <2>1 DEF Waiting
  <2> QED BY <2>1, <2>2, <2>3
<1>6. ASSUME NEW r \in Questions, NEW p \in ahead'[r] PROVE ahead'[p] \subseteq ahead'[r]
  <2>1. r # q /\ ahead'[r] = ahead[r] \ {q} /\ p \in ahead[r] /\ p # q
    BY <1>2
  <2>2. p \in Questions
    BY <1>3, <2>1 DEF TypeOK
  <2>3. ahead'[p] = ahead[p] \ {q}
    BY <1>2, <2>1, <2>2
  <2>4. ahead[p] \subseteq ahead[r]
    BY <2>1 DEF LineIsOrdered
  <2> QED BY <2>1, <2>3, <2>4
<1> QED BY <1>3, <1>4, <1>5, <1>6 DEF LineIsOrdered

(* A newcomer is behind all who wait.                                      *)
LEMMA RequestKeepsLine ==
  ASSUME TypeOK, LineIsOrdered, NEW q \in Questions, Request(q)
  PROVE  LineIsOrdered'
<1>1. /\ q \notin Waiting /\ Waiting' = Waiting \cup {q}
      /\ ahead' = [ahead EXCEPT ![q] = Waiting]
  BY DEF TypeOK, Waiting, Goto, Request
<1>2. /\ ahead'[q] = Waiting
      /\ \A p \in Questions \ {q} : ahead'[p] = ahead[p] /\ q \notin ahead[p]
  BY <1>1 DEF TypeOK, LineIsOrdered
<1>3. Waiting \subseteq Questions
  BY DEF Waiting
<1>4. \A p \in Questions : ahead'[p] \subseteq Waiting' \ {p}
  BY <1>1, <1>2 DEF LineIsOrdered
<1>5. \A p \in Questions \ Waiting' : ahead'[p] = {}
  BY <1>1, <1>2 DEF LineIsOrdered
<1>6. \A p, r \in Waiting' : p # r => (p \in ahead'[r] <=> r \notin ahead'[p])
  BY <1>1, <1>2, <1>3 DEF LineIsOrdered
<1>7. \A r \in Questions : \A p \in ahead'[r] : ahead'[p] \subseteq ahead'[r]
  BY <1>1, <1>2, <1>3 DEF LineIsOrdered
<1> QED BY <1>4, <1>5, <1>6, <1>7 DEF LineIsOrdered

(* The askers of RequestQuestionnaire wait in a line, whoever joins and    *)
(* leaves it: its first is waited for by the others and waits for nobody.  *)
THEOREM AskersStandInLine == Spec => []LineIsOrdered
<1>1. Init => LineIsOrdered
  BY DEF Init, LineIsOrdered, Waiting
<1>2. TypeOK /\ LineIsOrdered /\ [Next]_vars => LineIsOrdered'
  <2> SUFFICES ASSUME TypeOK, LineIsOrdered, [Next]_vars PROVE LineIsOrdered'
    OBVIOUS
  <2>1. ASSUME NEW q \in Questions, Request(q) PROVE LineIsOrdered'
    BY <2>1, RequestKeepsLine
  <2>2. ASSUME NEW q \in Questions, Acquire(q) \/ Abandon(q) PROVE LineIsOrdered'
    BY <2>2, LeavingKeepsLine DEF Acquire, Abandon, Waiting
  <2>3. ASSUME Waiting' = Waiting, UNCHANGED ahead PROVE LineIsOrdered'
    BY <2>3 DEF LineIsOrdered
  <2>4. ASSUME NEW q \in Questions,
               Show(q) \/ Receive(q) \/ Expire(q) \/ Forget(q) \/ Free(q)
        PROVE  LineIsOrdered'
    <3>1. Waiting' = Waiting /\ UNCHANGED ahead
      BY <2>4 DEF TypeOK, Waiting, Goto, Show, Receive, Expire, Forget, Free
    <3> QED BY <2>3, <3>1
  <2>5. CASE (\E c \in Clicks : Click(c) \/ ClickStep(c)) \/ Notify \/ UNCHANGED vars
    <3>1. UNCHANGED <<asker, ahead>>
      BY <2>5 DEF Click, ClickStep, Lookup, Deliver, Settle, Notify, backendVars, vars
    <3> QED BY <2>3, <3>1 DEF Waiting
  <2> QED BY <2>1, <2>2, <2>4, <2>5 DEF Next, AskerStep
<1> QED BY <1>1, <1>2, TypeCorrect, PTL DEF Spec

-----------------------------------------------------------------------------
(* The refinement of Question.                                             *)

States == [q \in Questions |-> StateOf(q)]
Replied == [q \in Questions |-> ReplyTo(q)]

(* A step that changes neither a position, an outcome, an answer nor the   *)
(* channel of a question does not change what the question is.             *)
LEMMA Untouched ==
  ASSUME NEW q \in Questions, asker'[q] = asker[q], outcome'[q] = outcome[q],
         response'[q] = response[q], answer'[q] = answer[q]
  PROVE  StateOf(q)' = StateOf(q) /\ ReplyTo(q)' = ReplyTo(q)
BY DEF StateOf, ReplyTo

(* A step of one question leaves the others as they are.                   *)
LEMMA OneChanges ==
  ASSUME NEW q \in Questions, NEW s, NEW r,
         StateOf(q)' = s, ReplyTo(q)' = r,
         \A p \in Questions \ {q} :
           StateOf(p)' = StateOf(p) /\ ReplyTo(p)' = ReplyTo(p)
  PROVE  /\ States' = [States EXCEPT ![q] = s]
         /\ Replied' = [Replied EXCEPT ![q] = r]
BY DEF States, Replied

(* Initial states map to initial states.                                   *)
LEMMA QuestionInit == Init => Screen!Init
BY DEF Init, Screen!Init, StateOf, ReplyTo

(* The dialog of a question opens when no other question is open.          *)
LEMMA ShowOpens ==
  ASSUME ScreenInv, NEW q \in Questions, Show(q) PROVE Screen!Next
<1>1. /\ asker \in [Questions -> Positions] /\ asker[q] = "holding"
      /\ asker' = [asker EXCEPT ![q] = "asking"]
      /\ UNCHANGED <<response, outcome, answer>>
  BY DEF Show, Goto, ScreenInv, TypeOK
<1>2. outcome[q] = "none" /\ response[q] = {}
  BY <1>1 DEF ScreenInv, OutcomeFollowsAsker, ResponseFollowsShow, Unshown
<1>3. /\ StateOf(q) = "unasked" /\ ReplyTo(q) = {}
      /\ StateOf(q)' = "open" /\ ReplyTo(q)' = {}
  BY <1>1, <1>2 DEF StateOf, ReplyTo
<1>4. \A p \in Questions : StateOf(p) # "open"
  <2>1. \A p \in Questions : asker[p] # "asking"
    BY <1>1 DEF ScreenInv, TurnsAreExclusive, OnScreen
  <2>2. \A p \in Questions : outcome[p] \in {"none", "answered", "unanswered"}
    BY DEF ScreenInv, TypeOK
  <2> QED BY <2>1, <2>2 DEF StateOf
<1>5. /\ States' = [States EXCEPT ![q] = "open"]
      /\ Replied' = [Replied EXCEPT ![q] = {}]
  BY <1>1, <1>3, Untouched, OneChanges
<1>6. Replied' = Replied
  BY <1>3, <1>5 DEF Replied
<1> QED BY <1>3, <1>4, <1>5, <1>6
        DEF Screen!Next, Screen!Open, Screen!Become, States, Replied

(* A response enters the channel of a question that is open, or changes    *)
(* nothing anyone can see.                                                 *)
LEMMA DeliverReplies ==
  ASSUME ScreenInv, NEW c \in Clicks, Deliver(c)
  PROVE  Screen!Next \/ UNCHANGED <<States, Replied>>
<1> DEFINE q == About(c)
<1>1. /\ q \in Questions /\ call[c] = "found"
      /\ UNCHANGED <<asker, outcome, answer>>
      /\ \/ response[q] = {} /\ response' = [response EXCEPT ![q] = {c}]
         \/ UNCHANGED response
  BY ClickAbout DEF Deliver
<1>2. /\ response \in [Questions -> SUBSET Clicks]
      /\ outcome[q] \in {"none", "answered", "unanswered"}
  BY <1>1 DEF ScreenInv, TypeOK
<1> HIDE DEF q
<1>3. CASE UNCHANGED response
  BY <1>1, <1>3 DEF States, Replied, StateOf, ReplyTo
<1>4. CASE /\ response[q] = {} /\ response' = [response EXCEPT ![q] = {c}]
           /\ asker[q] = "asking"
  <2>1. outcome[q] = "none"
    BY <1>1, <1>4 DEF ScreenInv, OutcomeFollowsAsker
  <2>2. /\ StateOf(q) = "open" /\ ReplyTo(q) = {}
        /\ StateOf(q)' = "replied" /\ ReplyTo(q)' = {c}
    BY <1>1, <1>2, <1>4, <2>1 DEF StateOf, ReplyTo
  <2>3. /\ States' = [States EXCEPT ![q] = "replied"]
        /\ Replied' = [Replied EXCEPT ![q] = {c}]
    BY <1>1, <1>2, <1>4, <2>2, Untouched, OneChanges
  <2> QED BY <1>1, <2>2, <2>3
          DEF Screen!Next, Screen!Reply, Screen!Become, States, Replied
<1>5. CASE /\ response[q] = {} /\ response' = [response EXCEPT ![q] = {c}]
           /\ asker[q] # "asking"
  <2>1. StateOf(q)' = StateOf(q) /\ ReplyTo(q)' = ReplyTo(q)
    BY <1>1, <1>5 DEF StateOf, ReplyTo
  <2>2. \A p \in Questions \ {q} : StateOf(p)' = StateOf(p) /\ ReplyTo(p)' = ReplyTo(p)
    BY <1>1, <1>2, <1>5, Untouched
  <2> QED BY <2>1, <2>2 DEF States, Replied
<1> QED BY <1>1, <1>3, <1>4, <1>5

(* The asker takes the response that is in its channel.                    *)
LEMMA ReceiveAnswers ==
  ASSUME ScreenInv, NEW q \in Questions, Receive(q) PROVE Screen!Next
<1>1. /\ asker \in [Questions -> Positions] /\ asker[q] = "asking"
      /\ outcome \in [Questions -> {"none", "answered", "unanswered"}]
      /\ answer \in [Questions -> SUBSET Clicks]
      /\ response \in [Questions -> SUBSET Clicks] /\ response[q] # {}
      /\ asker' = [asker EXCEPT ![q] = "closing"]
      /\ outcome' = [outcome EXCEPT ![q] = "answered"]
      /\ answer' = [answer EXCEPT ![q] = response[q]]
      /\ response' = [response EXCEPT ![q] = {}]
  BY DEF Receive, Goto, Return, ScreenInv, TypeOK
<1>2. outcome[q] = "none"
  BY <1>1 DEF ScreenInv, OutcomeFollowsAsker
<1>3. /\ StateOf(q) = "replied" /\ StateOf(q)' = "answered"
      /\ ReplyTo(q)' = ReplyTo(q)
  BY <1>1, <1>2 DEF StateOf, ReplyTo
<1>4. /\ States' = [States EXCEPT ![q] = "answered"]
      /\ Replied' = [Replied EXCEPT ![q] = ReplyTo(q)]
  BY <1>1, <1>3, Untouched, OneChanges
<1>5. Replied' = Replied
  BY <1>4 DEF Replied
<1> QED BY <1>3, <1>4, <1>5
        DEF Screen!Next, Screen!Answer, Screen!Become, States, Replied

(* Who gives up in the line or in front of the dialog has no answer, even  *)
(* with a response in the channel.                                         *)
LEMMA GivesUp ==
  ASSUME ScreenInv, NEW q \in Questions, Abandon(q) \/ Expire(q) PROVE Screen!Next
<1>1. /\ asker \in [Questions -> Positions] /\ asker[q] \in {"queued", "asking"}
      /\ outcome \in [Questions -> {"none", "answered", "unanswered"}]
      /\ \/ asker' = [asker EXCEPT ![q] = "done"]
         \/ asker' = [asker EXCEPT ![q] = "closing"]
      /\ outcome' = [outcome EXCEPT ![q] = "unanswered"]
      /\ UNCHANGED <<response, answer>>
  BY DEF Abandon, Expire, Goto, Return, ScreenInv, TypeOK
<1>2. outcome[q] = "none"
  BY <1>1 DEF ScreenInv, OutcomeFollowsAsker, Unshown
<1>3. /\ StateOf(q) \in {"unasked", "open", "replied"}
      /\ StateOf(q)' = "unanswered" /\ ReplyTo(q)' = {}
  BY <1>1, <1>2 DEF StateOf, ReplyTo
<1>4. /\ States' = [States EXCEPT ![q] = "unanswered"]
      /\ Replied' = [Replied EXCEPT ![q] = {}]
  BY <1>1, <1>3, Untouched, OneChanges
<1> QED BY <1>3, <1>4
        DEF Screen!Next, Screen!GiveUp, Screen!Become, States, Replied

(* The other steps move an asker between positions of one state.           *)
LEMMA MovesUnseen ==
  ASSUME ScreenInv, NEW q \in Questions,
         Request(q) \/ Acquire(q) \/ Forget(q) \/ Free(q)
  PROVE  UNCHANGED <<States, Replied>>
<1>1. /\ asker \in [Questions -> Positions] /\ asker[q] # "asking"
      /\ \E position \in {"queued", "holding", "leaving", "done"} :
           asker' = [asker EXCEPT ![q] = position]
      /\ UNCHANGED <<response, outcome, answer>>
  BY DEF Request, Acquire, Forget, Free, Goto, ScreenInv, TypeOK
<1>2. \A p \in Questions : StateOf(p)' = StateOf(p) /\ ReplyTo(p)' = ReplyTo(p)
  BY <1>1 DEF StateOf, ReplyTo
<1> QED BY <1>2 DEF States, Replied

(* Every step maps to a step of the promise or to a stutter.               *)
LEMMA QuestionStep ==
  ScreenInv /\ [Next]_vars => [Screen!Next]_<<States, Replied>>
<1> SUFFICES ASSUME ScreenInv, [Next]_vars
             PROVE  Screen!Next \/ UNCHANGED <<States, Replied>>
  OBVIOUS
<1>1. ASSUME NEW q \in Questions, Request(q) \/ AskerStep(q)
      PROVE  Screen!Next \/ UNCHANGED <<States, Replied>>
  BY <1>1, ShowOpens, ReceiveAnswers, GivesUp, MovesUnseen DEF AskerStep
<1>2. ASSUME NEW c \in Clicks, Deliver(c)
      PROVE  Screen!Next \/ UNCHANGED <<States, Replied>>
  BY <1>2, DeliverReplies
<1>3. ASSUME UNCHANGED <<asker, response, outcome, answer>>
      PROVE  UNCHANGED <<States, Replied>>
  BY <1>3 DEF States, Replied, StateOf, ReplyTo
<1>4. ASSUME NEW c \in Clicks, Click(c) \/ Lookup(c) \/ Settle(c)
      PROVE  UNCHANGED <<States, Replied>>
  BY <1>3, <1>4 DEF Click, Lookup, Settle, backendVars
<1>5. CASE Notify \/ UNCHANGED vars
  BY <1>3, <1>5 DEF Notify, vars, backendVars
<1> QED BY <1>1, <1>2, <1>4, <1>5 DEF Next, ClickStep

(* RequestQuestionnaire and Respond implement the promise of Question: one *)
(* question at a time is open on the screen, it is answered with the first *)
(* accepted response or not at all, and its outcome never changes.         *)
THEOREM QuestionRefined == Spec => QuestionSpec
<1>1. Spec => []ScreenInv
  BY ScreenInvariant
<1>2. Init => Screen!Init
  BY QuestionInit
<1>3. ScreenInv /\ [Next]_vars =>
        [Screen!Next]_<<[q \in Questions |-> StateOf(q)],
                        [q \in Questions |-> ReplyTo(q)]>>
  BY QuestionStep DEF States, Replied
<1> QED BY <1>1, <1>2, <1>3, PTL DEF Spec, QuestionSpec, Screen!Spec

-----------------------------------------------------------------------------
(* The dialog and the events on their way to it.                           *)
(*                                                                         *)
(* DialogInv says what the order of the events is worth: a question is     *)
(* opened once and closed after that, whoever is asking was opened last    *)
(* (BusOrder), nothing can have been clicked in a dialog that is still to  *)
(* open (ShownOnce), and a response that was accepted is in its channel    *)
(* until the asker takes it (ResponseFollowsCall).                         *)

OnBus(e) == \E i \in DOMAIN bus : bus[i] = e

FollowedBy(i, e) == \E j \in DOMAIN bus : i < j /\ bus[j] = e

BusOrder ==
  \A q \in Questions :
    /\ \A i, j \in DOMAIN bus : bus[i] = Opened(q) /\ bus[j] = Opened(q) => i = j
    /\ asker[q] = "asking" =>
         \A i \in DOMAIN bus :
           bus[i].kind = "opened" /\ bus[i] # Opened(q) => FollowedBy(i, Opened(q))
    /\ outcome[q] # "none" =>
         \A i \in DOMAIN bus : bus[i] = Opened(q) => FollowedBy(i, Closed(q))
    /\ outcome[q] = "none" => ~OnBus(Closed(q))

ShownOnce ==
  /\ \A q \in dialog : ~OnBus(Opened(q))
  /\ \A q \in Questions : asker[q] \in Unshown => q \notin dialog /\ ~OnBus(Opened(q))
  /\ \A c \in Clicks : call[c] # "unused" =>
       asker[About(c)] \notin Unshown /\ ~OnBus(Opened(About(c)))

ResponseFollowsCall ==
  /\ \A q \in Questions : \A c \in response[q] :
       /\ call[c] \in {"accepted", "settled"}
       /\ call[c] = "settled" => q \notin dialog
  /\ \A c \in Clicks :
       call[c] = "accepted" /\ asker[About(c)] = "asking" => response[About(c)] # {}

DialogInv ==
  /\ ScreenInv
  /\ BusOrder
  /\ ShownOnce
  /\ ResponseFollowsCall
  /\ OrphanIsLeaving

Events == [kind : {"opened", "closed"}, about : Questions]

(* Events are told apart by their kind and their question.                 *)
LEMMA EventsDiffer ==
  ASSUME NEW p \in Questions, NEW q \in Questions
  PROVE  /\ Opened(q) \in Events /\ Closed(q) \in Events
         /\ Opened(q).kind = "opened" /\ Opened(q).about = q
         /\ Closed(q).kind = "closed" /\ Closed(q).about = q
         /\ Opened(q) # Closed(p)
         /\ Opened(q) = Opened(p) => q = p
         /\ Closed(q) = Closed(p) => q = p
BY DEF Opened, Closed, Events

(* An event is the opening or the closing of a question.                   *)
LEMMA EventIs ==
  ASSUME NEW e \in Events
  PROVE  /\ e.about \in Questions
         /\ \/ e.kind = "opened" /\ e = Opened(e.about)
            \/ e.kind = "closed" /\ e = Closed(e.about)
BY DEF Opened, Closed, Events

(* An event is emitted.                                                    *)
LEMMA Emitted ==
  ASSUME TypeOK, NEW e \in Events, bus' = Append(bus, e)
  PROVE  /\ DOMAIN bus' = DOMAIN bus \cup {Len(bus) + 1}
         /\ \A i \in DOMAIN bus : bus'[i] = bus[i] /\ i < Len(bus) + 1
         /\ bus'[Len(bus) + 1] = e
         /\ \A x : OnBus(x)' <=> OnBus(x) \/ x = e
         /\ \A i \in DOMAIN bus : \A x : FollowedBy(i, x)' <=> FollowedBy(i, x) \/ x = e
<1>1. bus \in Seq(Events)
  BY DEF TypeOK, Events
<1>2. /\ Len(bus) \in Nat /\ DOMAIN bus = 1 .. Len(bus)
      /\ DOMAIN bus' = 1 .. Len(bus) + 1
      /\ \A i \in DOMAIN bus : bus'[i] = bus[i]
      /\ bus'[Len(bus) + 1] = e
  BY <1>1
<1>3. /\ DOMAIN bus' = DOMAIN bus \cup {Len(bus) + 1}
      /\ \A i \in DOMAIN bus : i < Len(bus) + 1
  BY <1>2
<1>4. \A x : OnBus(x)' <=> OnBus(x) \/ x = e
  BY <1>2, <1>3 DEF OnBus
<1>5. \A i \in DOMAIN bus : \A x : FollowedBy(i, x)' <=> FollowedBy(i, x) \/ x = e
  BY <1>2, <1>3 DEF FollowedBy
<1> QED BY <1>2, <1>3, <1>4, <1>5

(* An event is delivered.                                                  *)
LEMMA Delivered ==
  ASSUME TypeOK, bus # <<>>, bus' = Tail(bus)
  PROVE  /\ 1 \in DOMAIN bus /\ bus[1] = Head(bus) /\ Head(bus) \in Events
         /\ \A i \in DOMAIN bus' : i + 1 \in DOMAIN bus /\ bus'[i] = bus[i + 1] /\ i \in Nat \ {0}
         /\ \A i \in DOMAIN bus : i # 1 => \E j \in DOMAIN bus' : i = j + 1
         /\ \A x : OnBus(x)' => OnBus(x)
         /\ \A i \in DOMAIN bus' : \A x : FollowedBy(i + 1, x) => FollowedBy(i, x)'
         /\ \A x : FollowedBy(1, x) => OnBus(x)'
<1>1. bus \in Seq(Events)
  BY DEF TypeOK, Events
<1>2. /\ Len(bus) \in Nat \ {0} /\ DOMAIN bus = 1 .. Len(bus)
      /\ DOMAIN bus' = 1 .. Len(bus) - 1
      /\ \A i \in DOMAIN bus' : bus'[i] = bus[i + 1]
      /\ Head(bus) = bus[1] /\ Head(bus) \in Events
  BY <1>1
<1>3. \A i \in DOMAIN bus' : i + 1 \in DOMAIN bus /\ i \in Nat \ {0}
  BY <1>2
<1>4. ASSUME NEW i \in DOMAIN bus, i # 1
      PROVE  i - 1 \in DOMAIN bus' /\ i = (i - 1) + 1
  BY <1>2, <1>4
<1>5. \A x : OnBus(x)' => OnBus(x)
  BY <1>2, <1>3 DEF OnBus
<1>6. ASSUME NEW i \in DOMAIN bus', NEW x, FollowedBy(i + 1, x)
      PROVE  FollowedBy(i, x)'
  <2>1. PICK j \in DOMAIN bus : i + 1 < j /\ bus[j] = x
    BY <1>6 DEF FollowedBy
  <2>2. j - 1 \in DOMAIN bus' /\ i < j - 1 /\ bus'[j - 1] = x
    BY <1>2, <2>1
  <2> QED BY <2>2 DEF FollowedBy
<1>7. ASSUME NEW x, FollowedBy(1, x) PROVE OnBus(x)'
  <2>1. PICK j \in DOMAIN bus : 1 < j /\ bus[j] = x
    BY <1>7 DEF FollowedBy
  <2>2. j - 1 \in DOMAIN bus' /\ bus'[j - 1] = x
    BY <1>2, <2>1
  <2> QED BY <2>2 DEF OnBus
<1>8. 1 \in DOMAIN bus
  BY <1>2
<1> QED BY <1>2, <1>3, <1>4, <1>5, <1>6, <1>7, <1>8

-----------------------------------------------------------------------------
(* The initial states: no event, no dialog, no response.                   *)
LEMMA DialogInit == Init => DialogInv
<1>1. Init => ScreenInv
  BY InitInv
<1>2. Init => BusOrder /\ ShownOnce /\ ResponseFollowsCall /\ OrphanIsLeaving
  BY ClickAbout DEF Init, BusOrder, ShownOnce, ResponseFollowsCall, OrphanIsLeaving, OnBus, FollowedBy,
         Unshown
<1> QED BY <1>1, <1>2 DEF DialogInv

(* Steps that touch neither the events nor the dialog nor the responses,   *)
(* and show or finish no question.                                         *)
LEMMA QuietDialog ==
  ASSUME DialogInv, NEW q \in Questions,
         Request(q) \/ Acquire(q) \/ Abandon(q) \/ Forget(q) \/ Free(q)
  PROVE  BusOrder' /\ ShownOnce' /\ ResponseFollowsCall' /\ OrphanIsLeaving'
<1>1. /\ asker \in [Questions -> Positions]
      /\ outcome \in [Questions -> {"none", "answered", "unanswered"}]
      /\ UNCHANGED <<response, answer, call, bus, dialog>>
      /\ \E position \in {"queued", "holding", "leaving", "done"} :
           asker' = [asker EXCEPT ![q] = position]
      /\ asker[q] # "asking"
      /\ asker'[q] \in Unshown => asker[q] \in Unshown
      /\ \/ UNCHANGED outcome
         \/ outcome' = [outcome EXCEPT ![q] = "unanswered"] /\ asker[q] \in Unshown
  BY DEF DialogInv, ScreenInv, TypeOK, Request, Acquire, Abandon, Forget, Free,
         Goto, Return, Unshown
<1>2. /\ \A p \in Questions : asker'[p] = "asking" => asker[p] = "asking"
      /\ \A p \in Questions : asker'[p] \in Unshown => asker[p] \in Unshown
      /\ \A p \in Questions : asker[p] \notin Unshown => asker'[p] \notin Unshown
      /\ \A p \in Questions : outcome'[p] = "none" => outcome[p] = "none"
      /\ \A p \in Questions : outcome[p] = "none" /\ outcome'[p] # "none" => asker[p] \in Unshown
  BY <1>1 DEF Unshown
<1>3. \A i, x : /\ OnBus(x)' <=> OnBus(x)
                /\ FollowedBy(i, x)' <=> FollowedBy(i, x)
  BY <1>1 DEF OnBus, FollowedBy
<1>4. \A p \in Questions : asker[p] \in Unshown => ~OnBus(Opened(p)) /\ p \notin dialog
  BY DEF DialogInv, ShownOnce
<1>5. BusOrder'
  <2> SUFFICES ASSUME NEW p \in Questions
               PROVE  /\ \A i, j \in DOMAIN bus :
                           bus[i] = Opened(p) /\ bus[j] = Opened(p) => i = j
                      /\ asker'[p] = "asking" =>
                           \A i \in DOMAIN bus :
                             bus[i].kind = "opened" /\ bus[i] # Opened(p)
                               => FollowedBy(i, Opened(p))
                      /\ outcome'[p] # "none" =>
                           \A i \in DOMAIN bus :
                             bus[i] = Opened(p) => FollowedBy(i, Closed(p))
                      /\ outcome'[p] = "none" => ~OnBus(Closed(p))
    BY <1>1 DEF BusOrder, OnBus, FollowedBy, Opened, Closed
  <2>1. outcome'[p] # "none" =>
          \A i \in DOMAIN bus : bus[i] = Opened(p) => FollowedBy(i, Closed(p))
    BY <1>2, <1>4 DEF DialogInv, BusOrder, OnBus
  <2> QED BY <1>2, <2>1 DEF DialogInv, BusOrder
<1>6. ShownOnce'
  BY <1>1, <1>2, <1>3, ClickAbout DEF DialogInv, ShownOnce, OnBus, Opened
<1>7. ResponseFollowsCall'
  BY <1>1, <1>2, ClickAbout DEF DialogInv, ResponseFollowsCall
<1>8. OrphanIsLeaving'
  <2>1. \A p \in dialog : outcome'[p] # "none" => outcome[p] # "none"
    BY <1>2, <1>4 DEF DialogInv, ScreenInv, TypeOK
  <2> QED BY <1>1, <2>1 DEF DialogInv, OrphanIsLeaving, Closed, About
<1> QED BY <1>5, <1>6, <1>7, <1>8

(* The dialog of a question is asked for once, after all the others.       *)
LEMMA ShowDialog ==
  ASSUME DialogInv, NEW q \in Questions, Show(q)
  PROVE  BusOrder' /\ ShownOnce' /\ ResponseFollowsCall' /\ OrphanIsLeaving'
<1>1. /\ asker \in [Questions -> Positions] /\ asker[q] = "holding"
      /\ asker' = [asker EXCEPT ![q] = "asking"]
      /\ bus' = Append(bus, Opened(q))
      /\ UNCHANGED <<response, outcome, answer, call, dialog>>
      /\ dialog \subseteq Questions
      /\ response \in [Questions -> SUBSET Clicks] /\ TypeOK
  BY DEF Show, Goto, DialogInv, ScreenInv, TypeOK
<1>2. /\ \A p \in Questions : asker'[p] = "asking" => p = q
      /\ \A p \in Questions : asker'[p] \in Unshown => asker[p] \in Unshown /\ p # q
      /\ outcome[q] = "none" /\ ~OnBus(Opened(q)) /\ q \notin dialog
      /\ \A c \in Clicks : About(c) = q => call[c] = "unused"
  <2>1. \A p \in Questions : asker[p] # "asking"
    BY <1>1 DEF DialogInv, ScreenInv, TurnsAreExclusive, OnScreen
  <2>2. asker[q] \in Unshown
    BY <1>1 DEF Unshown
  <2>3. outcome[q] = "none"
    BY <2>2 DEF DialogInv, ScreenInv, OutcomeFollowsAsker
  <2>4. /\ ~OnBus(Opened(q)) /\ q \notin dialog
        /\ \A c \in Clicks : About(c) = q => call[c] = "unused"
    BY <2>2 DEF DialogInv, ShownOnce
  <2> QED BY <1>1, <2>1, <2>3, <2>4 DEF Unshown
<1> DEFINE new == Len(bus) + 1
<1>3. /\ DOMAIN bus' = DOMAIN bus \cup {new}
      /\ \A i \in DOMAIN bus : bus'[i] = bus[i] /\ i < new
      /\ bus'[new] = Opened(q)
      /\ \A x : OnBus(x)' <=> OnBus(x) \/ x = Opened(q)
      /\ \A i \in DOMAIN bus : \A x : FollowedBy(i, x)' <=> FollowedBy(i, x) \/ x = Opened(q)
  BY <1>1, EventsDiffer, Emitted
<1> HIDE DEF new
<1>4. BusOrder'
  <2> SUFFICES ASSUME NEW p \in Questions
               PROVE  /\ \A i, j \in DOMAIN bus' :
                           bus'[i] = Opened(p) /\ bus'[j] = Opened(p) => i = j
                      /\ asker'[p] = "asking" =>
                           \A i \in DOMAIN bus' :
                             bus'[i].kind = "opened" /\ bus'[i] # Opened(p)
                               => FollowedBy(i, Opened(p))'
                      /\ outcome[p] # "none" =>
                           \A i \in DOMAIN bus' :
                             bus'[i] = Opened(p) => FollowedBy(i, Closed(p))'
                      /\ outcome[p] = "none" => ~OnBus(Closed(p))'
    BY <1>1 DEF BusOrder, OnBus, FollowedBy, Opened, Closed
  <2>0. /\ \A i, j \in DOMAIN bus : bus[i] = Opened(p) /\ bus[j] = Opened(p) => i = j
        /\ outcome[p] # "none" =>
             \A i \in DOMAIN bus : bus[i] = Opened(p) => FollowedBy(i, Closed(p))
        /\ outcome[p] = "none" => ~OnBus(Closed(p))
    BY DEF DialogInv, BusOrder
  <2>1. /\ Opened(q) = Opened(p) => p = q
        /\ Opened(q) # Closed(p) /\ Opened(p) # Closed(p)
    BY EventsDiffer
  <2>2. ASSUME NEW i \in DOMAIN bus', NEW j \in DOMAIN bus',
               bus'[i] = Opened(p), bus'[j] = Opened(p)
        PROVE  i = j
    <3>1. CASE p = q
      BY <1>2, <1>3, <2>2, <3>1 DEF OnBus
    <3>2. CASE p # q
      BY <1>3, <2>0, <2>1, <2>2, <3>2
    <3> QED BY <3>1, <3>2
  <2>3. ASSUME asker'[p] = "asking", NEW i \in DOMAIN bus', bus'[i] # Opened(p)
        PROVE  FollowedBy(i, Opened(p))'
    BY <1>2, <1>3, <2>3
  <2>4. ASSUME outcome[p] # "none", NEW i \in DOMAIN bus', bus'[i] = Opened(p)
        PROVE  FollowedBy(i, Closed(p))'
    <3>1. p # q
      BY <1>2, <2>4
    <3> QED BY <1>3, <2>0, <2>1, <2>4, <3>1
  <2>5. outcome[p] = "none" => ~OnBus(Closed(p))'
    <3>1. OnBus(Closed(p))' <=> OnBus(Closed(p)) \/ Closed(p) = Opened(q)
      BY <1>3 DEF OnBus, Closed
    <3> QED BY <2>0, <2>1, <3>1
  <2> QED BY <2>2, <2>3, <2>4, <2>5
<1>5. \A p \in Questions \ {q} : OnBus(Opened(p))' => OnBus(Opened(p))
  BY <1>3, EventsDiffer DEF OnBus, Opened
<1>6. ShownOnce'
  <2>1. \A p \in dialog' : ~OnBus(Opened(p))'
    BY <1>1, <1>2, <1>5 DEF DialogInv, ShownOnce
  <2>2. \A p \in Questions : asker'[p] \in Unshown => p \notin dialog' /\ ~OnBus(Opened(p))'
    BY <1>1, <1>2, <1>5 DEF DialogInv, ShownOnce
  <2>3. \A c \in Clicks : call'[c] # "unused" =>
          asker'[About(c)] \notin Unshown /\ ~OnBus(Opened(About(c)))'
    BY <1>1, <1>2, <1>5, ClickAbout DEF DialogInv, ShownOnce
  <2> QED BY <2>1, <2>2, <2>3 DEF ShownOnce, About, OnBus, Opened
<1>7. ResponseFollowsCall'
  <2>1. \A c \in Clicks : call[c] = "accepted" => About(c) # q
    BY <1>2
  <2>2. \A c \in Clicks : call[c] = "accepted" => asker'[About(c)] # "asking"
    BY <1>2, <2>1, ClickAbout
  <2> QED BY <1>1, <2>2 DEF DialogInv, ResponseFollowsCall, About
<1>8. OrphanIsLeaving'
  <2>1. \A i \in DOMAIN bus : i \in DOMAIN bus' /\ bus'[i] = bus[i]
    BY <1>3
  <2> QED BY <1>1, <2>1 DEF DialogInv, OrphanIsLeaving, Closed, About
<1> QED BY <1>4, <1>6, <1>7, <1>8

(* The asker leaves with the response: its dialog is removed by the        *)
(* handler of the response.                                                *)
LEMMA ReceiveDialog ==
  ASSUME DialogInv, NEW q \in Questions, Receive(q)
  PROVE  BusOrder' /\ ShownOnce' /\ ResponseFollowsCall' /\ OrphanIsLeaving'
<1>1. /\ asker \in [Questions -> Positions] /\ asker[q] = "asking"
      /\ asker' = [asker EXCEPT ![q] = "closing"]
      /\ outcome \in [Questions -> {"none", "answered", "unanswered"}]
      /\ outcome' = [outcome EXCEPT ![q] = "answered"]
      /\ response \in [Questions -> SUBSET Clicks] /\ response[q] # {}
      /\ response' = [response EXCEPT ![q] = {}]
      /\ \A p \in Questions : \A c \in response[p] : About(c) = p
      /\ UNCHANGED <<call, bus, dialog>>
      /\ dialog \subseteq Questions
  BY DEF Receive, Goto, Return, DialogInv, ScreenInv, TypeOK
<1>2. PICK c \in response[q] : c \in Clicks /\ About(c) = q
  BY <1>1
<1>3. /\ call[c] \in {"accepted", "settled"}
      /\ call[c] = "settled" => q \notin dialog
      /\ ~OnBus(Opened(q))
  BY <1>2 DEF DialogInv, ResponseFollowsCall, ShownOnce
<1>4. /\ \A p \in Questions : asker'[p] = "asking" => asker[p] = "asking" /\ p # q
      /\ \A p \in Questions : asker'[p] \in Unshown <=> asker[p] \in Unshown
      /\ \A p \in Questions \ {q} : outcome'[p] = outcome[p]
      /\ outcome'[q] # "none"
  BY <1>1 DEF Unshown
<1>5. \A i, x : /\ OnBus(x)' <=> OnBus(x)
                /\ FollowedBy(i, x)' <=> FollowedBy(i, x)
  BY <1>1 DEF OnBus, FollowedBy
<1>6. BusOrder'
  <2> SUFFICES ASSUME NEW p \in Questions
               PROVE  /\ \A i, j \in DOMAIN bus :
                           bus[i] = Opened(p) /\ bus[j] = Opened(p) => i = j
                      /\ asker'[p] = "asking" =>
                           \A i \in DOMAIN bus :
                             bus[i].kind = "opened" /\ bus[i] # Opened(p)
                               => FollowedBy(i, Opened(p))
                      /\ outcome'[p] # "none" =>
                           \A i \in DOMAIN bus :
                             bus[i] = Opened(p) => FollowedBy(i, Closed(p))
                      /\ outcome'[p] = "none" => ~OnBus(Closed(p))
    BY <1>1 DEF BusOrder, OnBus, FollowedBy, Opened, Closed
  <2>1. CASE p = q
    BY <1>3, <1>4, <2>1 DEF DialogInv, BusOrder, OnBus
  <2>2. CASE p # q
    BY <1>4, <2>2 DEF DialogInv, BusOrder
  <2> QED BY <2>1, <2>2
<1>7. ShownOnce'
  BY <1>1, <1>4, <1>5, ClickAbout DEF DialogInv, ShownOnce, OnBus, Opened, About
<1>8. ResponseFollowsCall'
  BY <1>1, <1>4, ClickAbout DEF DialogInv, ResponseFollowsCall, About
<1>9. OrphanIsLeaving'
  <2>1. q \in dialog => About(c) = q /\ call'[c] = "accepted"
    BY <1>1, <1>2, <1>3
  <2> QED BY <1>1, <1>2, <1>4, <2>1 DEF DialogInv, OrphanIsLeaving, Closed, About
<1> QED BY <1>6, <1>7, <1>8, <1>9

(* The wait ends without a response: the event that closes the dialog is   *)
(* behind the one that opens it.                                           *)
LEMMA ExpireDialog ==
  ASSUME DialogInv, NEW q \in Questions, Expire(q)
  PROVE  BusOrder' /\ ShownOnce' /\ ResponseFollowsCall' /\ OrphanIsLeaving'
<1>1. /\ asker \in [Questions -> Positions] /\ asker[q] = "asking"
      /\ asker' = [asker EXCEPT ![q] = "closing"]
      /\ outcome \in [Questions -> {"none", "answered", "unanswered"}]
      /\ outcome' = [outcome EXCEPT ![q] = "unanswered"]
      /\ bus' = Append(bus, Closed(q))
      /\ UNCHANGED <<response, call, dialog>>
      /\ dialog \subseteq Questions /\ TypeOK
  BY DEF Expire, Goto, Return, DialogInv, ScreenInv, TypeOK
<1>2. /\ \A p \in Questions : asker'[p] # "asking"
      /\ \A p \in Questions : asker'[p] \in Unshown <=> asker[p] \in Unshown
      /\ \A p \in Questions \ {q} : outcome'[p] = outcome[p]
      /\ outcome'[q] # "none"
  <2>1. \A p \in Questions : asker[p] = "asking" => p = q
    BY <1>1 DEF DialogInv, ScreenInv, TurnsAreExclusive, OnScreen
  <2> QED BY <1>1, <2>1 DEF Unshown
<1> DEFINE new == Len(bus) + 1
<1>3. /\ DOMAIN bus' = DOMAIN bus \cup {new}
      /\ \A i \in DOMAIN bus : bus'[i] = bus[i] /\ i < new
      /\ bus'[new] = Closed(q)
      /\ \A x : OnBus(x)' <=> OnBus(x) \/ x = Closed(q)
      /\ \A i \in DOMAIN bus : \A x : FollowedBy(i, x)' <=> FollowedBy(i, x) \/ x = Closed(q)
  BY <1>1, EventsDiffer, Emitted
<1> HIDE DEF new
<1>4. \A p \in Questions : /\ OnBus(Opened(p))' <=> OnBus(Opened(p))
                           /\ p # q => (OnBus(Closed(p))' <=> OnBus(Closed(p)))
  BY <1>3, EventsDiffer DEF OnBus, Opened, Closed
<1>5. BusOrder'
  <2> SUFFICES ASSUME NEW p \in Questions
               PROVE  /\ \A i, j \in DOMAIN bus' :
                           bus'[i] = Opened(p) /\ bus'[j] = Opened(p) => i = j
                      /\ outcome'[p] # "none" =>
                           \A i \in DOMAIN bus' :
                             bus'[i] = Opened(p) => FollowedBy(i, Closed(p))'
                      /\ outcome'[p] = "none" => ~OnBus(Closed(p))'
    BY <1>2 DEF BusOrder, OnBus, FollowedBy, Opened, Closed
  <2>0. /\ \A i, j \in DOMAIN bus : bus[i] = Opened(p) /\ bus[j] = Opened(p) => i = j
        /\ outcome[p] # "none" =>
             \A i \in DOMAIN bus : bus[i] = Opened(p) => FollowedBy(i, Closed(p))
        /\ outcome[p] = "none" => ~OnBus(Closed(p))
    BY DEF DialogInv, BusOrder
  <2>1. \A i \in DOMAIN bus' : bus'[i] = Opened(p) => i \in DOMAIN bus /\ bus[i] = Opened(p)
    BY <1>3, EventsDiffer
  <2>2. ASSUME outcome'[p] # "none", NEW i \in DOMAIN bus', bus'[i] = Opened(p)
        PROVE  FollowedBy(i, Closed(p))'
    BY <1>2, <1>3, <2>0, <2>1, <2>2
  <2>3. outcome'[p] = "none" => ~OnBus(Closed(p))'
    BY <1>2, <1>4, <2>0
  <2> QED BY <2>0, <2>1, <2>2, <2>3
<1>6. ShownOnce'
  <2>1. \A p \in dialog' : ~OnBus(Opened(p))'
    BY <1>1, <1>4 DEF DialogInv, ShownOnce
  <2>2. \A p \in Questions : asker'[p] \in Unshown => p \notin dialog' /\ ~OnBus(Opened(p))'
    BY <1>1, <1>2, <1>4 DEF DialogInv, ShownOnce
  <2>3. \A c \in Clicks : call'[c] # "unused" =>
          asker'[About(c)] \notin Unshown /\ ~OnBus(Opened(About(c)))'
    BY <1>1, <1>2, <1>4, ClickAbout DEF DialogInv, ShownOnce
  <2> QED BY <2>1, <2>2, <2>3 DEF ShownOnce, About, OnBus, Opened
<1>7. ResponseFollowsCall'
  BY <1>1, <1>2, ClickAbout DEF DialogInv, ResponseFollowsCall, About
<1>8. OrphanIsLeaving'
  <2>1. \A p \in dialog : p # q /\ outcome'[p] # "none" => outcome[p] # "none"
    BY <1>1, <1>2
  <2> QED BY <1>1, <1>3, <2>1 DEF DialogInv, OrphanIsLeaving, Closed, About
<1> QED BY <1>5, <1>6, <1>7, <1>8

(* A response leaves the dialog on the screen, finds its question, enters  *)
(* its channel and, if it was accepted, removes that dialog.               *)
LEMMA ClickDialog ==
  ASSUME DialogInv, NEW c \in Clicks, Click(c) \/ ClickStep(c)
  PROVE  BusOrder' /\ ShownOnce' /\ ResponseFollowsCall' /\ OrphanIsLeaving'
<1> DEFINE q == About(c)
<1>1. /\ q \in Questions /\ UNCHANGED <<asker, outcome, bus>>
      /\ call \in [Clicks -> Stages] /\ dialog \subseteq Questions
      /\ response \in [Questions -> SUBSET Clicks]
      /\ \A p \in Questions : \A d \in response[p] : About(d) = p
  BY ClickAbout DEF Click, ClickStep, Lookup, Deliver, Settle, backendVars,
     DialogInv, ScreenInv, TypeOK
<1>2. \A i, x : OnBus(x)' <=> OnBus(x)
  BY <1>1 DEF OnBus
<1>3. BusOrder'
  BY <1>1 DEF DialogInv, BusOrder, OnBus, FollowedBy, Opened, Closed
<1>4. /\ call[c] = "unused" => dialog = {q} /\ UNCHANGED <<response, dialog>>
      /\ call[c] # "unused" => call'[c] # "unused"
      /\ \A d \in Clicks : d # c => call'[d] = call[d]
      /\ dialog' \subseteq dialog
  BY <1>1 DEF Click, ClickStep, Lookup, Deliver, Settle, Advance, backendVars
<1>5. ShownOnce'
  <2>1. \A p \in dialog' : ~OnBus(Opened(p))
    BY <1>4 DEF DialogInv, ShownOnce
  <2>2. \A p \in Questions : asker'[p] \in Unshown => p \notin dialog' /\ ~OnBus(Opened(p))
    BY <1>1, <1>4 DEF DialogInv, ShownOnce
  <2>3. \A d \in Clicks : call'[d] # "unused" =>
          asker'[About(d)] \notin Unshown /\ ~OnBus(Opened(About(d)))
    <3>1. asker[q] \notin Unshown /\ ~OnBus(Opened(q))
      BY <1>1, <1>4 DEF DialogInv, ShownOnce
    <3> QED BY <1>1, <1>4, <3>1 DEF DialogInv, ShownOnce
  <2> QED BY <1>1, <2>1, <2>2, <2>3 DEF ShownOnce, About, OnBus, Opened
<1>6. CASE Click(c) \/ Lookup(c)
  <2>1. /\ UNCHANGED <<response, dialog>>
        /\ call[c] \in {"unused", "sent"} /\ call'[c] \in {"sent", "found", "refused"}
    BY <1>1, <1>6 DEF Click, Lookup, Advance, backendVars
  <2>2. ResponseFollowsCall'
    BY <1>1, <1>4, <2>1 DEF DialogInv, ResponseFollowsCall, About
  <2>3. OrphanIsLeaving'
    BY <1>1, <1>4, <2>1 DEF DialogInv, OrphanIsLeaving, About, Closed
  <2> QED BY <1>3, <1>5, <2>2, <2>3
<1>7. CASE Deliver(c)
  <2>1. /\ UNCHANGED dialog /\ call[c] = "found"
        /\ \/ response[q] = {} /\ response' = [response EXCEPT ![q] = {c}] /\ call'[c] = "accepted"
           \/ UNCHANGED response /\ call'[c] = "refused"
    BY <1>1, <1>7 DEF Deliver, Advance
  <2> HIDE DEF q
  <2>2. \A p \in Questions : c \notin response[p]
    BY <2>1 DEF DialogInv, ResponseFollowsCall
  <2>3. \A p \in Questions : \A d \in response'[p] :
          /\ call'[d] \in {"accepted", "settled"}
          /\ call'[d] = "settled" => p \notin dialog
    BY <1>1, <1>4, <2>1, <2>2 DEF DialogInv, ResponseFollowsCall
  <2>4. \A d \in Clicks :
          call'[d] = "accepted" /\ asker[About(d)] = "asking" => response'[About(d)] # {}
    <3>1. call'[c] = "accepted" => response'[About(c)] # {}
      BY <1>1, <2>1 DEF q
    <3>2. \A p \in Questions : response[p] # {} => response'[p] # {}
      BY <1>1, <2>1
    <3> QED BY <1>1, <1>4, <3>1, <3>2, ClickAbout DEF DialogInv, ResponseFollowsCall
  <2>5. ResponseFollowsCall'
    BY <1>1, <2>1, <2>3, <2>4 DEF ResponseFollowsCall, About
  <2>6. OrphanIsLeaving'
    BY <1>1, <1>4, <2>1 DEF DialogInv, OrphanIsLeaving, About, Closed
  <2> QED BY <1>3, <1>5, <2>5, <2>6
<1>8. CASE Settle(c)
  <2>1. /\ UNCHANGED response /\ call'[c] = "settled"
        /\ call[c] \in {"accepted", "refused"}
        /\ dialog' = IF call[c] = "accepted" THEN dialog \ {q} ELSE dialog
    BY <1>1, <1>8 DEF Settle, Advance, backendVars
  <2>2. ResponseFollowsCall'
    <3>1. \A p \in Questions : \A d \in response[p] :
            /\ call'[d] \in {"accepted", "settled"}
            /\ call'[d] = "settled" => p \notin dialog'
      BY <1>1, <1>4, <2>1 DEF DialogInv, ResponseFollowsCall
    <3>2. \A d \in Clicks :
            call'[d] = "accepted" /\ asker[About(d)] = "asking" => response[About(d)] # {}
      BY <1>4, <2>1 DEF DialogInv, ResponseFollowsCall
    <3> QED BY <1>1, <2>1, <3>1, <3>2 DEF ResponseFollowsCall, About
  <2>3. OrphanIsLeaving'
    <3> SUFFICES ASSUME NEW p \in dialog', outcome[p] # "none"
                 PROVE  \/ \E i \in DOMAIN bus : bus[i] = Closed(p) \/ bus[i].kind = "opened"
                        \/ \E d \in Clicks : About(d) = p /\ call'[d] = "accepted"
      BY <1>1 DEF OrphanIsLeaving, About, Closed
    <3>1. p \in dialog /\ (call[c] = "accepted" => p # q)
      BY <2>1
    <3> QED BY <1>4, <2>1, <3>1 DEF DialogInv, OrphanIsLeaving
  <2> QED BY <1>3, <1>5, <2>2, <2>3
<1> QED BY <1>6, <1>7, <1>8 DEF ClickStep

(* The next event reaches the interface.                                   *)
LEMMA NotifyDialog ==
  ASSUME DialogInv, Notify
  PROVE  BusOrder' /\ ShownOnce' /\ ResponseFollowsCall' /\ OrphanIsLeaving'
<1>0. PICK e \in Events : e = Head(bus)
  BY Delivered DEF Notify, DialogInv, ScreenInv
<1>1. /\ TypeOK /\ bus # <<>> /\ bus' = Tail(bus)
      /\ UNCHANGED <<asker, response, outcome, call>> /\ dialog \subseteq Questions
      /\ response \in [Questions -> SUBSET Clicks]
      /\ \A p \in Questions : \A c \in response[p] : About(c) = p
      /\ dialog' = IF e.kind = "opened" THEN {e.about} ELSE dialog \ {e.about}
  BY <1>0 DEF Notify, backendVars, DialogInv, ScreenInv, TypeOK
<1>2. /\ 1 \in DOMAIN bus /\ bus[1] = e /\ e \in Events
      /\ \A i \in DOMAIN bus' : i + 1 \in DOMAIN bus /\ bus'[i] = bus[i + 1] /\ i \in Nat \ {0}
      /\ \A i \in DOMAIN bus : i # 1 => \E j \in DOMAIN bus' : i = j + 1
      /\ \A x : OnBus(x)' => OnBus(x)
      /\ \A i \in DOMAIN bus' : \A x : FollowedBy(i + 1, x) => FollowedBy(i, x)'
      /\ \A x : FollowedBy(1, x) => OnBus(x)'
  BY <1>0, <1>1, Delivered
<1>3. /\ e.about \in Questions
      /\ \/ e.kind = "opened" /\ e = Opened(e.about)
         \/ e.kind = "closed" /\ e = Closed(e.about)
  BY <1>2, EventIs
<1>4. BusOrder'
  <2> SUFFICES ASSUME NEW p \in Questions
               PROVE  /\ \A i, j \in DOMAIN bus' :
                           bus'[i] = Opened(p) /\ bus'[j] = Opened(p) => i = j
                      /\ asker[p] = "asking" =>
                           \A i \in DOMAIN bus' :
                             bus'[i].kind = "opened" /\ bus'[i] # Opened(p)
                               => FollowedBy(i, Opened(p))'
                      /\ outcome[p] # "none" =>
                           \A i \in DOMAIN bus' :
                             bus'[i] = Opened(p) => FollowedBy(i, Closed(p))'
                      /\ outcome[p] = "none" => ~OnBus(Closed(p))'
    BY <1>1 DEF BusOrder, OnBus, FollowedBy, Opened, Closed
  <2>0. /\ \A i, j \in DOMAIN bus : bus[i] = Opened(p) /\ bus[j] = Opened(p) => i = j
        /\ asker[p] = "asking" =>
             \A i \in DOMAIN bus :
               bus[i].kind = "opened" /\ bus[i] # Opened(p) => FollowedBy(i, Opened(p))
        /\ outcome[p] # "none" =>
             \A i \in DOMAIN bus : bus[i] = Opened(p) => FollowedBy(i, Closed(p))
        /\ outcome[p] = "none" => ~OnBus(Closed(p))
    BY DEF DialogInv, BusOrder
  <2>1. ASSUME NEW i \in DOMAIN bus', NEW j \in DOMAIN bus',
               bus'[i] = Opened(p), bus'[j] = Opened(p)
        PROVE  i = j
    <3>1. i + 1 = j + 1 /\ i \in Nat /\ j \in Nat
      BY <1>2, <2>0, <2>1
    <3> QED BY <3>1
  <2>2. ASSUME asker[p] = "asking", NEW i \in DOMAIN bus',
               bus'[i].kind = "opened", bus'[i] # Opened(p)
        PROVE  FollowedBy(i, Opened(p))'
    <3>1. FollowedBy(i + 1, Opened(p))
      BY <1>2, <2>0, <2>2
    <3> QED BY <1>2, <3>1 DEF FollowedBy, Opened
  <2>3. ASSUME outcome[p] # "none", NEW i \in DOMAIN bus', bus'[i] = Opened(p)
        PROVE  FollowedBy(i, Closed(p))'
    <3>1. FollowedBy(i + 1, Closed(p))
      BY <1>2, <2>0, <2>3
    <3> QED BY <1>2, <3>1 DEF FollowedBy, Closed
  <2>4. outcome[p] = "none" => ~OnBus(Closed(p))'
    BY <1>2, <2>0 DEF OnBus, Closed
  <2> QED BY <2>1, <2>2, <2>3, <2>4
<1>5. \A p \in Questions : OnBus(Opened(p))' => OnBus(Opened(p))
  BY <1>2 DEF OnBus, Opened
<1>6. e.kind = "opened" =>
        /\ OnBus(Opened(e.about)) /\ ~OnBus(Opened(e.about))'
        /\ asker[e.about] \notin Unshown
        /\ \A c \in Clicks : call[c] # "unused" => About(c) # e.about
        /\ outcome[e.about] # "none" => OnBus(Closed(e.about))'
  <2> SUFFICES ASSUME e.kind = "opened"
               PROVE  /\ OnBus(Opened(e.about)) /\ ~OnBus(Opened(e.about))'
                      /\ asker[e.about] \notin Unshown
                      /\ \A c \in Clicks : call[c] # "unused" => About(c) # e.about
                      /\ outcome[e.about] # "none" => OnBus(Closed(e.about))'
    OBVIOUS
  <2>1. bus[1] = Opened(e.about)
    BY <1>2, <1>3, EventsDiffer
  <2>2. OnBus(Opened(e.about))
    BY <1>2, <2>1 DEF OnBus
  <2>3. ASSUME NEW i \in DOMAIN bus', bus'[i] = Opened(e.about) PROVE FALSE
    <3>1. i + 1 \in DOMAIN bus /\ bus[i + 1] = Opened(e.about) /\ i \in Nat \ {0}
      BY <1>2, <2>3
    <3>2. i + 1 = 1
      BY <1>2, <1>3, <2>1, <3>1 DEF DialogInv, BusOrder
    <3> QED BY <3>1, <3>2
  <2>4. outcome[e.about] # "none" => FollowedBy(1, Closed(e.about))
    BY <1>2, <1>3, <2>1 DEF DialogInv, BusOrder
  <2>5. ~OnBus(Opened(e.about))'
    BY <2>3 DEF OnBus, Opened
  <2>6. outcome[e.about] # "none" => OnBus(Closed(e.about))'
    BY <2>4, <1>2
  <2> QED BY <1>3, <2>2, <2>5, <2>6 DEF DialogInv, ShownOnce
<1>7. \A p \in dialog' :
        \/ e.kind = "opened" /\ p = e.about
        \/ e.kind = "closed" /\ p \in dialog /\ p # e.about
  BY <1>1, <1>3
<1>8. ShownOnce'
  <2>1. \A p \in dialog' : ~OnBus(Opened(p))'
    BY <1>1, <1>5, <1>6, <1>7 DEF DialogInv, ShownOnce
  <2>2. \A p \in Questions : asker[p] \in Unshown => p \notin dialog' /\ ~OnBus(Opened(p))'
    BY <1>5, <1>6, <1>7 DEF DialogInv, ShownOnce
  <2>3. \A c \in Clicks : call[c] # "unused" =>
          asker[About(c)] \notin Unshown /\ ~OnBus(Opened(About(c)))'
    BY <1>5, ClickAbout DEF DialogInv, ShownOnce
  <2> QED BY <1>1, <2>1, <2>2, <2>3 DEF ShownOnce, About, OnBus, Opened
<1>9. ResponseFollowsCall'
  <2>1. \A p \in Questions : \A c \in response[p] :
          /\ call[c] \in {"accepted", "settled"}
          /\ call[c] = "settled" => p \notin dialog'
    <3> SUFFICES ASSUME NEW p \in Questions, NEW c \in response[p],
                        call[c] = "settled", p \in dialog'
                 PROVE  FALSE
      BY DEF DialogInv, ResponseFollowsCall
    <3>1. c \in Clicks /\ About(c) = p /\ p \notin dialog
      BY <1>1 DEF DialogInv, ResponseFollowsCall
    <3> QED BY <1>6, <1>7, <3>1
  <2> QED BY <1>1, <2>1 DEF DialogInv, ResponseFollowsCall, About
<1>10. OrphanIsLeaving'
  <2> SUFFICES ASSUME NEW p \in dialog', outcome[p] # "none"
               PROVE  \/ \E i \in DOMAIN bus' :
                           bus'[i] = Closed(p) \/ bus'[i].kind = "opened"
                      \/ \E c \in Clicks : About(c) = p /\ call[c] = "accepted"
    BY <1>1 DEF OrphanIsLeaving, About, Closed
  <2>1. CASE e.kind = "opened"
    BY <1>6, <1>7, <2>1 DEF OnBus, Closed
  <2>2. CASE e.kind = "closed" /\ p \in dialog /\ p # e.about
    <3>1. CASE \E c \in Clicks : About(c) = p /\ call[c] = "accepted"
      BY <3>1
    <3>2. CASE \E i \in DOMAIN bus : bus[i] = Closed(p) \/ bus[i].kind = "opened"
      <4>1. PICK i \in DOMAIN bus : bus[i] = Closed(p) \/ bus[i].kind = "opened"
        BY <3>2
      <4>2. i # 1
        BY <1>1, <1>2, <1>3, <2>2, <4>1, EventsDiffer
      <4> QED BY <1>2, <4>1, <4>2
    <3> QED BY <2>2, <3>1, <3>2 DEF DialogInv, OrphanIsLeaving
  <2> QED BY <1>7, <2>1, <2>2
<1> QED BY <1>4, <1>8, <1>9, <1>10

(* DialogInv is inductive.                                                 *)
LEMMA DialogStep == DialogInv /\ [Next]_vars => DialogInv'
<1> SUFFICES ASSUME DialogInv, [Next]_vars
             PROVE  BusOrder' /\ ShownOnce' /\ ResponseFollowsCall' /\ OrphanIsLeaving'
  BY StepInv DEF DialogInv
<1>1. ASSUME NEW q \in Questions, Request(q) \/ AskerStep(q)
      PROVE  BusOrder' /\ ShownOnce' /\ ResponseFollowsCall' /\ OrphanIsLeaving'
  BY <1>1, QuietDialog, ShowDialog, ReceiveDialog, ExpireDialog DEF AskerStep
<1>2. ASSUME NEW c \in Clicks, Click(c) \/ ClickStep(c)
      PROVE  BusOrder' /\ ShownOnce' /\ ResponseFollowsCall' /\ OrphanIsLeaving'
  BY <1>2, ClickDialog
<1>3. CASE Notify
  BY <1>3, NotifyDialog
<1>4. CASE UNCHANGED vars
  BY <1>4 DEF vars, DialogInv, BusOrder, ShownOnce, ResponseFollowsCall, OrphanIsLeaving,
              OnBus, FollowedBy, About, Opened, Closed
<1> QED BY <1>1, <1>2, <1>3, <1>4 DEF Next

(* DialogInv holds in every reachable state.                               *)
LEMMA DialogInvariant == Spec => []DialogInv
BY DialogInit, DialogStep, PTL DEF Spec

(* Whatever the order in which answers, deadlines and events meet, a       *)
(* dialog without a question is about to be removed.                       *)
THEOREM NoDialogIsStuck == Spec => []OrphanIsLeaving
<1>1. DialogInv => OrphanIsLeaving
  BY DEF DialogInv
<1> QED BY <1>1, DialogInvariant, PTL

(* No event or handler of an earlier question removes the dialog of a      *)
(* question that waits for its response.                                   *)
THEOREM LiveDialogIsKept == Spec => LiveDialogStays
<1> DEFINE Stays == \A q \in dialog :
             asker[q] = "asking" /\ response[q] = {} /\ asker'[q] = "asking"
               => q \in dialog'
<1>1. DialogInv /\ [Next]_vars => [Stays]_vars
  <2> SUFFICES ASSUME DialogInv, Next, NEW q \in dialog,
                      asker[q] = "asking", response[q] = {}
               PROVE  q \in dialog'
    OBVIOUS
  <2>1. /\ q \in Questions /\ outcome[q] = "none"
        /\ ~OnBus(Opened(q)) /\ ~OnBus(Closed(q))
    BY DEF DialogInv, ScreenInv, TypeOK, OutcomeFollowsAsker, ShownOnce, BusOrder
  <2>2. ASSUME NEW c \in Clicks, Settle(c) PROVE q \in dialog'
    BY <2>2 DEF Settle, DialogInv, ResponseFollowsCall
  <2>3. ASSUME Notify PROVE q \in dialog'
    <3>1. /\ 1 \in DOMAIN bus /\ bus[1] = Head(bus) /\ Head(bus) \in Events
      BY <2>3, Delivered DEF Notify, DialogInv, ScreenInv
    <3>2. Head(bus) # Opened(q) /\ Head(bus) # Closed(q)
      BY <2>1, <3>1 DEF OnBus
    <3>3. Head(bus).kind # "opened"
      <4>1. ~FollowedBy(1, Opened(q))
        BY <2>1 DEF OnBus, FollowedBy
      <4> QED BY <2>1, <3>1, <3>2, <4>1 DEF DialogInv, BusOrder
    <3>4. Head(bus).about # q
      BY <3>1, <3>2, <3>3, EventIs
    <3> QED BY <2>3, <3>3, <3>4 DEF Notify
  <2>4. \/ UNCHANGED dialog \/ Notify \/ \E c \in Clicks : Settle(c)
    BY DEF Next, AskerStep, ClickStep, Request, Acquire, Abandon, Show, Receive,
           Expire, Forget, Free, Click, Lookup, Deliver
  <2> QED BY <2>2, <2>3, <2>4
<1> QED BY <1>1, DialogInvariant, PTL DEF Spec, LiveDialogStays
=============================================================================
