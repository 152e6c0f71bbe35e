------------------------ MODULE CommandExecutionProofs ------------------------
(***************************************************************************)
(* Theorems about the execution of commands, for any number of             *)
(* invocations, operations, processes and changes of epoch.                *)
(*                                                                         *)
(* The inductive invariant says of an operation what its place implies of  *)
(* the record, the decision and the handler of its invocation (OpFollows), *)
(* of an invocation what its record and claim imply of its handler         *)
(* (EffectFollows), and of the processes that only the one that holds the  *)
(* lock works or recovers (LockHeld): with it no recovery meets an         *)
(* operation under way.                                                    *)
(***************************************************************************)
EXTENDS CommandExecution, TLAPS

(* Processes with operations, and those that hold the lock.                *)
Working == {"up", "closing", "shut"}
Holding == Working \cup {"drained"}

LockHeld == \A s \in Startups : process[s] \in Holding => lock = s

(* The status an operation left its record in.                             *)
StageStatus(o) ==
  CASE op[o].pc \in {"ask", "asking", "queue"} -> {"evaluating"}
    [] op[o].pc = "admit" -> {"queued"}
    [] op[o].pc \in {"await", "claimed"} -> {"running"}
    [] OTHER -> Unfinished

(* The outcome an operation is about to record.                            *)
OutcomeFollows(o) ==
  op[o].pc = "finish" =>
    /\ op[o].to \in Outcomes
    /\ op[o].to = "refused" => op[o].status # "running"
    /\ op[o].to = "succeeded" => effect[op[o].inv] = "succeeded"
    /\ op[o].to = "failed" => op[o].status # "running" \/ effect[op[o].inv] = "failed"

RecordFollows(o) ==
  op[o].pc \in Recorded =>
    /\ ledger[op[o].inv] = op[o].status /\ op[o].status \in StageStatus(o)
    /\ home[op[o].inv].at = op[o].at /\ home[op[o].inv].epoch = op[o].epoch
    /\ op[o].pc = "admit" /\ op[o].inv \in Interactive => receipt[op[o].inv] = "consumed"

Placed(o) == op[o].pc # "idle" => /\ op[o].inv \in Invocations /\ op[o].at \in Startups
                                  /\ process[op[o].at] \in Working

OpFollows(o) == Placed(o) /\ RecordFollows(o) /\ OutcomeFollows(o)

Apart == \A o, p \in Operations :
           o # p /\ op[o].pc \in Recorded /\ op[p].pc \in Recorded => op[o].inv # op[p].inv

EffectFollows(i) ==
  /\ ledger[i] \in {"none", "evaluating", "queued", "refused"} => effect[i] = "none"
  /\ ledger[i] = "succeeded" => effect[i] = "succeeded"
  /\ ledger[i] = "failed" => effect[i] \in {"none", "failed"}
  /\ claim[i] \in {"pending", "aborted"} =>
       i \in Owning /\ effect[i] \in {"running", "failed", "gone"}
  /\ claim[i] = "claimed" => effect[i] \in {"committing", "succeeded", "failed", "unclear"}

ExecInv == /\ TypeOK /\ LockHeld /\ Apart
           /\ \A o \in Operations : OpFollows(o)
           /\ \A i \in Invocations : EffectFollows(i)

-----------------------------------------------------------------------------
LEMMA InvImplies ==
  ExecInv => OwnerAlone /\ RecordIsTrue
  <1> SUFFICES ASSUME ExecInv PROVE OwnerAlone /\ RecordIsTrue
    OBVIOUS
  <1>1. OwnerAlone
    BY DEF ExecInv, OwnerAlone, OpFollows, RecordFollows, Apart
  <1>2. RecordIsTrue
    BY DEF ExecInv, RecordIsTrue, EffectFollows
  <1> QED
    BY <1>1, <1>2

LEMMA InitIsGood ==
  Init => ExecInv
  <1> SUFFICES ASSUME Init PROVE ExecInv
    OBVIOUS
  <1> USE ExecutionAssumption
  <1>1. TypeOK
    <2>1. op \in [Operations -> Calls]
      BY DEF Init, Idle, Calls, Stages, Epochs, Statuses
    <2>2. home \in [Invocations -> [at : 0 .. MaxStartups, epoch : Epochs]]
      BY DEF Init, Epochs
    <2> QED
      BY <2>1, <2>2 DEF Init, TypeOK, Statuses, Receipts, Effects, Claims, Phases, Epochs, Startups
  <1>2. LockHeld
    BY DEF Init, LockHeld, Holding, Working
  <1>3. \A o \in Operations : op[o].pc = "idle"
    BY DEF Init, Idle
  <1>4. Apart /\ \A o \in Operations : OpFollows(o)
    BY <1>3 DEF Apart, OpFollows, Placed, RecordFollows, OutcomeFollows, Recorded
  <1>5. \A i \in Invocations : EffectFollows(i)
    BY DEF Init, EffectFollows
  <1> QED
    BY <1>1, <1>2, <1>4, <1>5 DEF ExecInv

-----------------------------------------------------------------------------
(* What an operation follows from is not disturbed by a step of another.   *)
Undisturbed(p) ==
  /\ op'[p].pc = op[p].pc /\ op'[p].inv = op[p].inv /\ op'[p].at = op[p].at
  /\ op'[p].epoch = op[p].epoch /\ op'[p].status = op[p].status /\ op'[p].to = op[p].to
  /\ op[p].pc # "idle" => process'[op[p].at] \in Working
  /\ op[p].pc \in Recorded =>
       /\ ledger'[op[p].inv] = ledger[op[p].inv]
       /\ home'[op[p].inv] = home[op[p].inv]
       /\ receipt[op[p].inv] = "consumed" => receipt'[op[p].inv] = "consumed"
       /\ effect[op[p].inv] \in {"succeeded", "failed"} =>
            effect'[op[p].inv] = effect[op[p].inv]

LEMMA OpFrame ==
  ASSUME NEW p \in Operations, OpFollows(p), Undisturbed(p)
  PROVE  OpFollows(p)'
  <1>1. StageStatus(p)' = StageStatus(p)
    BY DEF StageStatus, Undisturbed
  <1>2. Placed(p)'
    BY DEF OpFollows, Placed, Undisturbed
  <1>3. RecordFollows(p)'
    BY <1>1 DEF OpFollows, RecordFollows, Undisturbed
  <1>4. OutcomeFollows(p)'
    BY DEF OpFollows, OutcomeFollows, Undisturbed, Recorded
  <1> QED
    BY <1>2, <1>3, <1>4 DEF OpFollows

LEMMA ApartFrame ==
  ASSUME Apart, \A p \in Operations : Undisturbed(p)
  PROVE  Apart'
  BY DEF Apart, Undisturbed

(* A step of the operation o on its own invocation i.                      *)
Own(o, i) ==
  /\ op[o].inv = i
  /\ \A p \in Operations \ {o} : op'[p] = op[p]
  /\ UNCHANGED <<process, lock>>
  /\ \A j \in Invocations \ {i} :
       /\ ledger'[j] = ledger[j] /\ home'[j] = home[j] /\ receipt'[j] = receipt[j]
       /\ effect'[j] = effect[j] /\ claim'[j] = claim[j]

(* Before its record, it is the only one that inserts it.                  *)
Records(o, i) == op[o].pc \in Recorded \/ (op[o].pc = "reserve" /\ ledger[i] = "none")

LEMMA OwnStep ==
  ASSUME ExecInv, NEW o \in Operations, NEW i \in Invocations, Own(o, i), TypeOK',
         Records(o, i), op'[o].pc \in Recorded => op'[o].inv = i,
         OpFollows(o)', EffectFollows(i)'
  PROVE  ExecInv'
  <1>1. \A p \in Operations \ {o} : op[p].pc \in Recorded => op[p].inv # i
    <2> SUFFICES ASSUME NEW p \in Operations \ {o}, op[p].pc \in Recorded, op[p].inv = i
                 PROVE  FALSE
      OBVIOUS
    <2>1. op[o].pc = "reserve" /\ ledger[i] = "none"
      BY DEF ExecInv, Apart, Own, Records
    <2>2. ledger[i] \in Unfinished
      BY DEF ExecInv, OpFollows, RecordFollows, StageStatus, Unfinished
    <2> QED
      BY <2>1, <2>2 DEF Unfinished
  <1>2. \A p \in Operations \ {o} : Undisturbed(p)
    <2> SUFFICES ASSUME NEW p \in Operations \ {o} PROVE Undisturbed(p)
      OBVIOUS
    <2>1. op'[p] = op[p] /\ Placed(p)
      BY DEF Own, ExecInv, OpFollows
    <2> QED
      BY <1>1, <2>1 DEF Own, Undisturbed, Placed, Recorded
  <1>3. \A p \in Operations : OpFollows(p)'
    BY <1>2, OpFrame DEF ExecInv
  <1>4. Apart'
    BY <1>1, <1>2 DEF Apart, Undisturbed, ExecInv, Recorded
  <1>5. \A j \in Invocations : EffectFollows(j)'
    BY DEF Own, EffectFollows, ExecInv
  <1>6. LockHeld'
    BY DEF Own, LockHeld, ExecInv
  <1> QED
    BY <1>3, <1>4, <1>5, <1>6 DEF ExecInv

-----------------------------------------------------------------------------
(* What the updates of an operation do to its fields.                      *)
Changed(o, pc, status, to) ==
  /\ \A p \in Operations \ {o} : op'[p] = op[p]
  /\ op'[o].pc = pc /\ op'[o].status = status /\ op'[o].to = to
  /\ op'[o].inv = op[o].inv /\ op'[o].at = op[o].at /\ op'[o].epoch = op[o].epoch
  /\ op' \in [Operations -> Calls]

LEMMA IdleIsACall ==
  Idle \in Calls
  BY ExecutionAssumption DEF Idle, Calls, Stages, Statuses, Epochs

LEMMA Updates ==
  ASSUME TypeOK, NEW o \in Operations, NEW pc \in Stages, NEW x \in Statuses
  PROVE  /\ Goto(o, pc) => Changed(o, pc, op[o].status, op[o].to)
         /\ Advance(o, pc, x) => Changed(o, pc, x, op[o].to)
         /\ FinishAs(o, x) => Changed(o, "finish", op[o].status, x)
         /\ Leave(o) => /\ \A p \in Operations \ {o} : op'[p] = op[p]
                        /\ op'[o].pc = "idle" /\ op' \in [Operations -> Calls]
  <1>1. op \in [Operations -> Calls] /\ op[o] \in Calls
    BY DEF TypeOK
  <1>2. Goto(o, pc) => Changed(o, pc, op[o].status, op[o].to)
    <2> SUFFICES ASSUME Goto(o, pc) PROVE Changed(o, pc, op[o].status, op[o].to)
      OBVIOUS
    <2>1. /\ op' = [op EXCEPT ![o] = op'[o]]
          /\ op'[o] = [op[o] EXCEPT !.pc = pc]
      BY <1>1 DEF Goto
    <2>2. op'[o] \in Calls
      BY <1>1, <2>1 DEF Calls
    <2> QED
      BY <1>1, <2>1, <2>2 DEF Changed, Calls
  <1>3. Advance(o, pc, x) => Changed(o, pc, x, op[o].to)
    <2> SUFFICES ASSUME Advance(o, pc, x) PROVE Changed(o, pc, x, op[o].to)
      OBVIOUS
    <2>1. /\ op' = [op EXCEPT ![o] = op'[o]]
          /\ op'[o] = [op[o] EXCEPT !.pc = pc, !.status = x]
      BY <1>1 DEF Advance
    <2>2. op'[o] \in Calls
      BY <1>1, <2>1 DEF Calls
    <2> QED
      BY <1>1, <2>1, <2>2 DEF Changed, Calls
  <1>4. FinishAs(o, x) => Changed(o, "finish", op[o].status, x)
    <2> SUFFICES ASSUME FinishAs(o, x) PROVE Changed(o, "finish", op[o].status, x)
      OBVIOUS
    <2>1. /\ op' = [op EXCEPT ![o] = op'[o]]
          /\ op'[o] = [op[o] EXCEPT !.pc = "finish", !.to = x, !.cut = FALSE]
      BY <1>1 DEF FinishAs
    <2>2. op'[o] \in Calls
      BY <1>1, <2>1 DEF Calls, Stages, Recorded
    <2> QED
      BY <1>1, <2>1, <2>2 DEF Changed, Calls
  <1>5. Leave(o) => /\ \A p \in Operations \ {o} : op'[p] = op[p]
                    /\ op'[o].pc = "idle" /\ op' \in [Operations -> Calls]
    <2>1. Idle.pc = "idle"
      BY DEF Idle
    <2> QED
      BY <1>1, <2>1, IdleIsACall DEF Leave
  <1> QED
    BY <1>2, <1>3, <1>4, <1>5

(* An operation that leaves without a trace, or with an outcome to record  *)
(* for a command that did not start.                                       *)
LEMMA LeaveIsGood ==
  ASSUME ExecInv, NEW o \in Operations, Leave(o), UNCHANGED <<records, handlers, domain>>
  PROVE  ExecInv'
  <1> USE DEF records, handlers, domain
  <1>1. /\ \A p \in Operations \ {o} : op'[p] = op[p]
        /\ op'[o].pc = "idle" /\ op' \in [Operations -> Calls]
    BY Updates DEF ExecInv, Stages, Statuses
  <1>2. TypeOK'
    BY <1>1 DEF ExecInv, TypeOK
  <1>3. \A p \in Operations \ {o} : OpFollows(p)'
    <2> SUFFICES ASSUME NEW p \in Operations \ {o} PROVE OpFollows(p)'
      OBVIOUS
    <2>1. OpFollows(p) /\ op'[p] = op[p]
      BY <1>1 DEF ExecInv
    <2>2. Undisturbed(p)
      BY <2>1 DEF Undisturbed, OpFollows, Placed
    <2> QED
      BY <2>1, <2>2, OpFrame
  <1>4. OpFollows(o)'
    BY <1>1 DEF OpFollows, Placed, RecordFollows, OutcomeFollows, Recorded
  <1>5. Apart'
    BY <1>1 DEF ExecInv, Apart, Recorded
  <1>6. LockHeld' /\ \A i \in Invocations : EffectFollows(i)'
    BY DEF ExecInv, LockHeld, EffectFollows
  <1> QED
    BY <1>2, <1>3, <1>4, <1>5, <1>6 DEF ExecInv

LEMMA RefusalIsGood ==
  ASSUME ExecInv, NEW o \in Operations, op[o].pc \in {"ask", "asking", "queue", "admit"},
         NEW to \in {"refused", "failed"}, FinishAs(o, to),
         NEW r \in Receipts, UNCHANGED <<ledger, home, handlers, domain>>,
         UNCHANGED receipt \/ Receive(o, r)
  PROVE  ExecInv'
  <1> USE DEF records, handlers, domain
  <1>1. Changed(o, "finish", op[o].status, to)
    BY Updates DEF ExecInv, Stages, Statuses, Outcomes
  <1>2. PICK i \in Invocations : i = op[o].inv
    BY DEF ExecInv, OpFollows, Placed
  <1>3. /\ op[o].pc \in Recorded /\ OpFollows(o) /\ EffectFollows(i)
        /\ op[o].status \in {"evaluating", "queued"}
    BY <1>2 DEF ExecInv, OpFollows, RecordFollows, StageStatus, Recorded
  <1>4. TypeOK'
    <2>1. receipt' \in [Invocations -> Receipts]
      BY <1>2 DEF ExecInv, TypeOK, Receive
    <2> QED
      BY <1>1, <2>1 DEF ExecInv, TypeOK, Changed
  <1>5. Own(o, i)
    BY <1>1, <1>2 DEF Own, Changed, Receive, ExecInv, TypeOK
  <1>6. OpFollows(o)'
    BY <1>1, <1>2, <1>3
    DEF OpFollows, Placed, RecordFollows, OutcomeFollows, Changed, StageStatus, Unfinished, Outcomes,
        Recorded
  <1>7. EffectFollows(i)'
    BY <1>3 DEF EffectFollows
  <1> QED
    BY <1>1, <1>2, <1>3, <1>4, <1>5, <1>6, <1>7, OwnStep DEF Records, Changed

-----------------------------------------------------------------------------
(* Steps that put an operation in a place before its record.               *)
LEMMA EarlyIsGood ==
  ASSUME ExecInv, NEW o \in Operations, op[o].pc \notin Recorded,
         \A p \in Operations \ {o} : op'[p] = op[p],
         op'[o].pc \in {"prepare", "reserve"}, op' \in [Operations -> Calls],
         op'[o].inv \in Invocations, op'[o].at \in Startups, process[op'[o].at] \in Working,
         UNCHANGED <<records, handlers, domain>>
  PROVE  ExecInv'
  <1> USE DEF records, handlers, domain
  <1>1. TypeOK'
    BY DEF ExecInv, TypeOK
  <1>2. \A p \in Operations \ {o} : OpFollows(p)'
    <2> SUFFICES ASSUME NEW p \in Operations \ {o} PROVE OpFollows(p)'
      OBVIOUS
    <2>1. OpFollows(p) /\ op'[p] = op[p]
      BY DEF ExecInv
    <2>2. Undisturbed(p)
      BY <2>1 DEF Undisturbed, OpFollows, Placed
    <2> QED
      BY <2>1, <2>2, OpFrame
  <1>3. OpFollows(o)'
    BY DEF OpFollows, Placed, RecordFollows, OutcomeFollows, Recorded
  <1>4. Apart'
    BY DEF ExecInv, Apart, Recorded
  <1>5. LockHeld' /\ \A i \in Invocations : EffectFollows(i)'
    BY DEF ExecInv, LockHeld, EffectFollows
  <1> QED
    BY <1>1, <1>2, <1>3, <1>4, <1>5 DEF ExecInv

LEMMA EnterIsGood ==
  ASSUME ExecInv, NEW o \in Operations, NEW i \in Invocations, NEW s \in Startups, Enter(o, i, s)
  PROVE  ExecInv'
  <1>1. /\ op' = [op EXCEPT ![o] = op'[o]]
        /\ op'[o] = [Idle EXCEPT !.pc = "prepare", !.inv = i, !.at = s]
    BY DEF Enter, ExecInv, TypeOK
  <1>2. op'[o] \in Calls
    <2>1. s \in 0 .. MaxStartups
      BY ExecutionAssumption DEF Startups
    <2> QED
      BY <1>1, <2>1, IdleIsACall DEF Calls, Stages
  <1>3. op'[o].pc = "prepare" /\ op'[o].inv = i /\ op'[o].at = s
    BY <1>1 DEF Idle
  <1>4. op' \in [Operations -> Calls] /\ \A p \in Operations \ {o} : op'[p] = op[p]
    BY <1>1, <1>2 DEF ExecInv, TypeOK
  <1> QED
    BY <1>3, <1>4, EarlyIsGood DEF Enter, At, Recorded, Working

LEMMA PrepareIsGood ==
  ASSUME ExecInv, NEW o \in Operations, Prepare(o)
  PROVE  ExecInv'
  <1>1. CASE Leave(o)
    BY <1>1, LeaveIsGood DEF Prepare
  <1>2. CASE ~Leave(o)
    <2>1. /\ op' = [op EXCEPT ![o] = op'[o]]
          /\ op'[o] = [op[o] EXCEPT !.pc = "reserve", !.epoch = epoch[op[o].at]]
      BY <1>2 DEF Prepare, ExecInv, TypeOK
    <2>2. op[o] \in Calls /\ Placed(o) /\ op[o].pc = "prepare"
      BY DEF ExecInv, TypeOK, OpFollows, Prepare, At
    <2>3. epoch[op[o].at] \in Epochs
      BY <2>2 DEF ExecInv, TypeOK, Placed
    <2>4. op'[o] \in Calls
      BY <2>1, <2>2, <2>3 DEF Calls, Stages
    <2>5. op'[o].pc = "reserve" /\ op'[o].inv = op[o].inv /\ op'[o].at = op[o].at
      BY <2>1, <2>2 DEF Calls
    <2>6. op' \in [Operations -> Calls] /\ \A p \in Operations \ {o} : op'[p] = op[p]
      BY <2>1, <2>4 DEF ExecInv, TypeOK
    <2> QED
      BY <2>2, <2>5, <2>6, EarlyIsGood DEF Prepare, Recorded, Placed
  <1> QED
    BY <1>1, <1>2

LEMMA ReserveIsGood ==
  ASSUME ExecInv, NEW o \in Operations, Reserve(o)
  PROVE  ExecInv'
  <1>0. PICK i \in Invocations : i = op[o].inv
    BY DEF ExecInv, OpFollows, Placed, Reserve, At
  <1>1. CASE Leave(o) /\ UNCHANGED <<ledger, home>>
    BY <1>1, LeaveIsGood DEF Reserve, records
  <1>2. ASSUME NEW status \in {"refused", "evaluating"}, Insert(o, status)
        PROVE  /\ ledger' = [ledger EXCEPT ![i] = status] /\ ledger[i] = "none"
               /\ home'[i].at = op[o].at /\ home'[i].epoch = op[o].epoch
               /\ ledger' \in [Invocations -> Statuses]
               /\ home' \in [Invocations -> [at : 0 .. MaxStartups, epoch : Epochs]]
               /\ \A j \in Invocations \ {i} : home'[j] = home[j]
               /\ effect[i] = "none"
    <2>1. op[o] \in Calls /\ op[o].at \in 0 .. MaxStartups /\ op[o].epoch \in Epochs
      BY DEF ExecInv, TypeOK, Calls
    <2> QED
      BY <1>0, <1>2, <2>1
      DEF Insert, Become, ExecInv, TypeOK, EffectFollows, Statuses, Unfinished, Outcomes
  <1>3. op[o].pc = "reserve"
    BY DEF Reserve, At
  <1>4. CASE Insert(o, "refused") /\ Leave(o)
    <2>1. /\ \A p \in Operations \ {o} : op'[p] = op[p]
          /\ op'[o].pc = "idle" /\ op' \in [Operations -> Calls]
      BY <1>4, Updates DEF ExecInv, Stages, Statuses
    <2>2. TypeOK'
      BY <1>2, <1>4, <2>1 DEF ExecInv, TypeOK, Reserve, handlers, domain
    <2>3. Own(o, i)
      BY <1>0, <1>2, <1>4, <2>1 DEF Own, Reserve, handlers, domain, ExecInv, TypeOK
    <2>4. OpFollows(o)'
      BY <2>1 DEF OpFollows, Placed, RecordFollows, OutcomeFollows, Recorded
    <2>5. EffectFollows(i)'
      BY <1>2, <1>4 DEF EffectFollows, ExecInv, Reserve, handlers, TypeOK
    <2> QED
      BY <1>2, <1>3, <1>4, <2>1, <2>2, <2>3, <2>4, <2>5, OwnStep DEF Records, Recorded
  <1>5. ASSUME NEW pc \in {"ask", "queue"}, Insert(o, "evaluating"), Advance(o, pc, "evaluating")
        PROVE  ExecInv'
    <2>1. Changed(o, pc, "evaluating", op[o].to)
      BY <1>5, Updates DEF ExecInv, Stages, Statuses, Recorded, Unfinished
    <2>2. TypeOK'
      BY <1>2, <1>5, <2>1 DEF ExecInv, TypeOK, Reserve, handlers, domain, Changed
    <2>3. Own(o, i)
      BY <1>0, <1>2, <1>5, <2>1 DEF Own, Reserve, handlers, domain, ExecInv, TypeOK, Changed
    <2>4. Placed(o) /\ ledger'[i] = "evaluating"
      BY <1>2, <1>5 DEF ExecInv, OpFollows, TypeOK
    <2>5. OpFollows(o)'
      BY <1>0, <1>2, <1>3, <1>5, <2>1, <2>4
      DEF OpFollows, Placed, RecordFollows, OutcomeFollows, Changed, StageStatus, Reserve, domain
    <2>6. EffectFollows(i)'
      BY <1>2, <1>5 DEF EffectFollows, ExecInv, Reserve, handlers, TypeOK
    <2> QED
      BY <1>0, <1>2, <1>3, <1>5, <2>1, <2>2, <2>3, <2>5, <2>6, OwnStep DEF Records, Changed
  <1> QED
    BY <1>1, <1>4, <1>5 DEF Reserve

-----------------------------------------------------------------------------
(* Steps of an operation with a record.                                    *)
LEMMA Here ==
  ASSUME ExecInv, NEW o \in Operations, op[o].pc \in Recorded
  PROVE  /\ op[o].inv \in Invocations /\ OpFollows(o) /\ EffectFollows(op[o].inv)
         /\ op[o] \in Calls /\ op[o].at \in Startups /\ process[op[o].at] \in Working
         /\ ledger[op[o].inv] = op[o].status /\ op[o].status \in StageStatus(o)
  BY DEF ExecInv, OpFollows, Placed, RecordFollows, Recorded, TypeOK

LEMMA AskIsGood ==
  ASSUME ExecInv, NEW o \in Operations, Ask(o)
  PROVE  ExecInv'
  <1> USE DEF handlers, domain
  <1>1. op[o].pc = "ask" /\ op[o].pc \in Recorded
    BY DEF Ask, At, Recorded
  <1>2. PICK i \in Invocations : i = op[o].inv
    BY <1>1, Here
  <1>3. CASE FinishAs(o, "refused") /\ UNCHANGED receipt
    BY <1>1, <1>3, RefusalIsGood DEF Ask, Receipts
  <1>4. CASE Receive(o, "pending") /\ Goto(o, "asking")
    <2>1. Changed(o, "asking", op[o].status, op[o].to)
      BY <1>1, <1>4, Here, Updates DEF ExecInv, Stages, Recorded, Calls
    <2>2. receipt' = [receipt EXCEPT ![i] = "pending"]
      BY <1>2, <1>4 DEF Receive
    <2>3. TypeOK'
      BY <2>1, <2>2 DEF ExecInv, TypeOK, Ask, Changed, Receipts
    <2>4. Own(o, i)
      BY <1>2, <2>1, <2>2 DEF Own, Ask, ExecInv, TypeOK, Changed
    <2>5. OpFollows(o)'
      BY <1>1, <1>2, <2>1, Here
      DEF OpFollows, Placed, RecordFollows, OutcomeFollows, Changed, StageStatus, Ask
    <2>6. EffectFollows(i)'
      BY <1>1, <1>2, Here DEF EffectFollows, Ask
    <2> QED
      BY <1>1, <1>2, <2>1, <2>3, <2>4, <2>5, <2>6, OwnStep DEF Records, Changed
  <1> QED
    BY <1>3, <1>4 DEF Ask

LEMMA AnswerIsGood ==
  ASSUME ExecInv, NEW o \in Operations, Answer(o)
  PROVE  ExecInv'
  <1> USE DEF handlers, domain
  <1>1. op[o].pc = "asking" /\ op[o].pc \in Recorded
    BY DEF Answer, At, Recorded
  <1>2. PICK i \in Invocations : i = op[o].inv
    BY <1>1, Here
  <1>3. CASE FinishAs(o, "refused")
    <2>1. PICK r \in {"refused", "accepted"} : UNCHANGED receipt \/ Receive(o, r)
      BY <1>3 DEF Answer
    <2> QED
      BY <1>1, <1>3, <2>1, RefusalIsGood DEF Answer, Receipts
  <1>4. CASE Receive(o, "accepted") /\ Goto(o, "queue")
    <2>1. Changed(o, "queue", op[o].status, op[o].to)
      BY <1>1, <1>4, Here, Updates DEF ExecInv, Stages, Recorded, Calls
    <2>2. receipt' = [receipt EXCEPT ![i] = "accepted"]
      BY <1>2, <1>4 DEF Receive
    <2>3. TypeOK'
      BY <2>1, <2>2 DEF ExecInv, TypeOK, Answer, Changed, Receipts
    <2>4. Own(o, i)
      BY <1>2, <2>1, <2>2 DEF Own, Answer, ExecInv, TypeOK, Changed
    <2>5. OpFollows(o)'
      BY <1>1, <1>2, <2>1, Here
      DEF OpFollows, Placed, RecordFollows, OutcomeFollows, Changed, StageStatus, Answer
    <2>6. EffectFollows(i)'
      BY <1>1, <1>2, Here DEF EffectFollows, Answer
    <2> QED
      BY <1>1, <1>2, <2>1, <2>3, <2>4, <2>5, <2>6, OwnStep DEF Records, Changed
  <1> QED
    BY <1>3, <1>4 DEF Answer

LEMMA QueueIsGood ==
  ASSUME ExecInv, NEW o \in Operations, Queue(o)
  PROVE  ExecInv'
  <1> USE DEF handlers, domain
  <1>1. op[o].pc = "queue" /\ op[o].pc \in Recorded
    BY DEF Queue, At, Recorded
  <1>2. PICK i \in Invocations : i = op[o].inv
    BY <1>1, Here
  <1>3. CASE FinishAs(o, "refused") /\ UNCHANGED <<ledger, receipt>>
    BY <1>1, <1>3, RefusalIsGood DEF Queue, Receipts
  <1>4. CASE ~(FinishAs(o, "refused") /\ UNCHANGED <<ledger, receipt>>)
    <2>0. /\ ledger[i] = "evaluating" /\ Become(i, "queued") /\ Advance(o, "admit", "queued")
          /\ i \in Interactive => Receive(o, "consumed")
          /\ i \notin Interactive => UNCHANGED receipt
      BY <1>2, <1>4 DEF Queue
    <2>1. Changed(o, "admit", "queued", op[o].to)
      BY <2>0, Updates DEF ExecInv, Stages, Recorded, Statuses, Unfinished
    <2>2. /\ receipt' \in [Invocations -> Receipts]
          /\ i \in Interactive => receipt'[i] = "consumed"
          /\ \A j \in Invocations \ {i} : receipt'[j] = receipt[j]
      BY <1>2, <2>0 DEF Receive, ExecInv, TypeOK, Receipts
    <2>3. /\ ledger' \in [Invocations -> Statuses] /\ ledger'[i] = "queued"
          /\ \A j \in Invocations \ {i} : ledger'[j] = ledger[j]
      BY <2>0 DEF Become, ExecInv, TypeOK, Statuses, Unfinished
    <2>4. TypeOK'
      BY <2>1, <2>2, <2>3 DEF ExecInv, TypeOK, Queue, Changed
    <2>5. Own(o, i)
      BY <1>2, <2>1, <2>2, <2>3 DEF Own, Queue, Changed
    <2>6. OpFollows(o)'
      BY <1>1, <1>2, <2>1, <2>2, <2>3, Here
      DEF OpFollows, Placed, RecordFollows, OutcomeFollows, Changed, StageStatus, Queue
    <2>7. EffectFollows(i)'
      BY <1>1, <1>2, <2>0, <2>3, Here DEF EffectFollows, Queue
    <2> QED
      BY <1>1, <1>2, <2>1, <2>4, <2>5, <2>6, <2>7, OwnStep DEF Records, Changed
  <1> QED
    BY <1>3, <1>4

LEMMA PanicIsGood ==
  ASSUME ExecInv, NEW o \in Operations, Panic(o)
  PROVE  ExecInv'
  BY RefusalIsGood DEF Panic, records, Receipts

LEMMA AdmitIsGood ==
  ASSUME ExecInv, NEW o \in Operations, AdmitExecution(o)
  PROVE  ExecInv'
  <1> USE DEF domain
  <1>1. op[o].pc = "admit" /\ op[o].pc \in Recorded
    BY DEF AdmitExecution, At, Recorded
  <1>2. PICK i \in Invocations : i = op[o].inv
    BY <1>1, Here
  <1>3. CASE FinishAs(o, "refused") /\ UNCHANGED <<ledger, handlers>>
    BY <1>1, <1>3, RefusalIsGood DEF AdmitExecution, Receipts
  <1>4. CASE ~(FinishAs(o, "refused") /\ UNCHANGED <<ledger, handlers>>)
    <2> DEFINE Unclear == op' = [op EXCEPT ![o].pc = "finish", ![o].status = "running",
                                           ![o].to = "outcome_unknown"]
    <2>0. /\ ledger[i] = "queued" /\ Become(i, "running")
          /\ Begin(i) \/ UNCHANGED handlers
          /\ Advance(o, "await", "running") \/ Unclear
      BY <1>2, <1>4 DEF AdmitExecution
    <2>1. \/ Changed(o, "await", "running", op[o].to)
          \/ Changed(o, "finish", "running", "outcome_unknown")
      <3>1. CASE Advance(o, "await", "running")
        BY <3>1, Updates DEF ExecInv, Stages, Recorded, Statuses, Unfinished
      <3>2. CASE Unclear
        <4>1. /\ op' = [op EXCEPT ![o] = op'[o]]
              /\ op'[o] = [op[o] EXCEPT !.pc = "finish", !.status = "running",
                                        !.to = "outcome_unknown"]
          BY <3>2 DEF ExecInv, TypeOK
        <4>2. op[o] \in Calls
          BY <1>1, Here
        <4>3. op'[o] \in Calls
          BY <4>1, <4>2 DEF Calls, Stages, Recorded, Statuses, Unfinished, Outcomes
        <4> QED
          BY <4>1, <4>2, <4>3 DEF Changed, Calls, ExecInv, TypeOK
      <3> QED
        BY <2>0, <3>1, <3>2
    <2>2. /\ effect' \in [Invocations -> Effects] /\ claim' \in [Invocations -> Claims]
          /\ \A j \in Invocations \ {i} : effect'[j] = effect[j] /\ claim'[j] = claim[j]
          /\ \/ effect'[i] = "running" /\ claim'[i] = IF i \in Owning THEN "pending" ELSE "none"
             \/ effect'[i] = effect[i] /\ claim'[i] = claim[i]
      <3>1. CASE Begin(i)
        BY <3>1 DEF Begin, ExecInv, TypeOK, Effects, Claims
      <3>2. CASE UNCHANGED handlers
        BY <3>2 DEF handlers, ExecInv, TypeOK
      <3> QED
        BY <2>0, <3>1, <3>2
    <2>3. /\ ledger' \in [Invocations -> Statuses] /\ ledger'[i] = "running"
          /\ \A j \in Invocations \ {i} : ledger'[j] = ledger[j]
      BY <2>0 DEF Become, ExecInv, TypeOK, Statuses, Unfinished
    <2>4. TypeOK'
      BY <2>1, <2>2, <2>3 DEF ExecInv, TypeOK, AdmitExecution, Changed
    <2>5. Own(o, i)
      BY <1>2, <2>1, <2>2, <2>3 DEF Own, AdmitExecution, Changed
    <2>6. OpFollows(o)'
      <3>1. Placed(o)'
        BY <1>1, <1>2, <2>1, Here DEF Placed, Changed, AdmitExecution
      <3>2. RecordFollows(o)'
        BY <1>1, <1>2, <2>1, <2>3, Here
        DEF RecordFollows, OpFollows, Changed, StageStatus, AdmitExecution, Unfinished
      <3>3. OutcomeFollows(o)'
        BY <2>1 DEF OutcomeFollows, Changed, Outcomes
      <3> QED
        BY <3>1, <3>2, <3>3 DEF OpFollows
    <2>7. EffectFollows(i)'
      BY <1>1, <1>2, <2>0, <2>2, <2>3, Here DEF EffectFollows
    <2> QED
      BY <1>1, <1>2, <2>1, <2>4, <2>5, <2>6, <2>7, OwnStep DEF Records, Changed
  <1> QED
    BY <1>3, <1>4

LEMMA ResultsFollow ==
  ASSUME NEW i \in Invocations, NEW to \in Results(i)
  PROVE  /\ to \in Outcomes \ {"refused"}
         /\ to = "succeeded" => effect[i] = "succeeded"
         /\ to = "failed" => effect[i] = "failed"
  BY DEF Results, Outcomes

(* A started command gets an outcome.                                      *)
LEMMA OutcomeIsGood ==
  ASSUME ExecInv, NEW o \in Operations, op[o].pc \in {"await", "claimed"},
         NEW to \in Results(op[o].inv) \cup {"outcome_unknown"}, FinishAs(o, to),
         UNCHANGED <<records, effect, domain>>, claim' \in [Invocations -> Claims],
         \A j \in Invocations \ {op[o].inv} : claim'[j] = claim[j],
         \/ claim'[op[o].inv] = claim[op[o].inv]
         \/ claim[op[o].inv] = "pending" /\ claim'[op[o].inv] = "aborted"
  PROVE  ExecInv'
  <1> USE DEF records, domain
  <1>1. op[o].pc \in Recorded
    BY DEF Recorded
  <1>2. PICK i \in Invocations : i = op[o].inv
    BY <1>1, Here
  <1>3. /\ to \in Outcomes \ {"refused"}
        /\ to = "succeeded" => effect[i] = "succeeded"
        /\ to = "failed" => effect[i] = "failed"
    BY <1>2, ResultsFollow DEF Outcomes
  <1>4. Changed(o, "finish", op[o].status, to)
    BY <1>3, Updates DEF ExecInv, Statuses, Stages
  <1>5. TypeOK'
    BY <1>4 DEF ExecInv, TypeOK, Changed
  <1>6. Own(o, i)
    BY <1>2, <1>4 DEF Own, Changed
  <1>7. OpFollows(o)'
    <2>1. Placed(o)'
      BY <1>1, <1>2, <1>4, Here DEF Placed, Changed
    <2>2. RecordFollows(o)'
      BY <1>1, <1>2, <1>4, Here DEF RecordFollows, OpFollows, Changed, StageStatus, Unfinished
    <2>3. OutcomeFollows(o)'
      BY <1>2, <1>3, <1>4 DEF OutcomeFollows, Changed
    <2> QED
      BY <2>1, <2>2, <2>3 DEF OpFollows
  <1>8. EffectFollows(i)'
    BY <1>1, <1>2, Here DEF EffectFollows
  <1> QED
    BY <1>1, <1>2, <1>4, <1>5, <1>6, <1>7, <1>8, OwnStep DEF Records, Changed

LEMMA AwaitIsGood ==
  ASSUME ExecInv, NEW o \in Operations, Await(o)
  PROVE  ExecInv'
  <1>1. op[o].pc = "await" /\ op[o].pc \in Recorded
    BY DEF Await, At, Recorded
  <1>2. PICK i \in Invocations : i = op[o].inv
    BY <1>1, Here
  <1>3. CASE UNCHANGED claim /\ \E to \in Results(i) : FinishAs(o, to)
    BY <1>1, <1>2, <1>3, OutcomeIsGood DEF Await, ExecInv, TypeOK
  <1>4. CASE /\ claim' = [claim EXCEPT ![i] = IF @ = "pending" THEN "aborted" ELSE @]
             /\ FinishAs(o, "outcome_unknown")
    <2>1. /\ claim' \in [Invocations -> Claims]
          /\ \A j \in Invocations \ {i} : claim'[j] = claim[j]
          /\ claim'[i] = claim[i] \/ (claim[i] = "pending" /\ claim'[i] = "aborted")
      BY <1>4 DEF ExecInv, TypeOK, Claims
    <2> QED
      BY <1>1, <1>2, <1>4, <2>1, OutcomeIsGood DEF Await
  <1>5. CASE UNCHANGED claim /\ Goto(o, "claimed")
    <2> USE DEF records, domain
    <2>1. Changed(o, "claimed", op[o].status, op[o].to)
      BY <1>1, <1>5, Here, Updates DEF ExecInv, Stages, Recorded, Calls
    <2>2. TypeOK'
      BY <1>5, <2>1 DEF ExecInv, TypeOK, Await, Changed
    <2>3. Own(o, i)
      BY <1>2, <1>5, <2>1 DEF Own, Await, Changed
    <2>4. OpFollows(o)'
      BY <1>1, <1>2, <2>1, Here
      DEF OpFollows, Placed, RecordFollows, OutcomeFollows, Changed, StageStatus, Await
    <2>5. EffectFollows(i)'
      BY <1>1, <1>2, <1>5, Here DEF EffectFollows, Await
    <2> QED
      BY <1>1, <1>2, <2>1, <2>2, <2>3, <2>4, <2>5, OwnStep DEF Records, Changed
  <1> QED
    BY <1>2, <1>3, <1>4, <1>5 DEF Await

LEMMA AwaitClaimedIsGood ==
  ASSUME ExecInv, NEW o \in Operations, AwaitClaimed(o)
  PROVE  ExecInv'
  BY OutcomeIsGood DEF AwaitClaimed, At, handlers, ExecInv, TypeOK

LEMMA FinishIsGood ==
  ASSUME ExecInv, NEW o \in Operations, Finish(o)
  PROVE  ExecInv'
  <1> USE DEF handlers, domain
  <1>1. op[o].pc = "finish" /\ op[o].pc \in Recorded
    BY DEF Finish, At, Recorded
  <1>2. PICK i \in Invocations : i = op[o].inv
    BY <1>1, Here
  <1>3. CASE UNCHANGED ledger
    BY <1>3, LeaveIsGood DEF Finish, records
  <1>4. CASE Become(i, op[o].to)
    <2>1. /\ \A p \in Operations \ {o} : op'[p] = op[p]
          /\ op'[o].pc = "idle" /\ op' \in [Operations -> Calls]
      BY Updates DEF ExecInv, Stages, Statuses, Finish
    <2>2. /\ op[o].to \in Outcomes /\ OutcomeFollows(o) /\ EffectFollows(i)
          /\ ledger[i] = op[o].status /\ op[o].status \in Unfinished
      BY <1>1, <1>2, Here DEF OpFollows, OutcomeFollows, StageStatus
    <2>3. /\ ledger' \in [Invocations -> Statuses] /\ ledger'[i] = op[o].to
          /\ \A j \in Invocations \ {i} : ledger'[j] = ledger[j]
      BY <1>4, <2>2 DEF Become, ExecInv, TypeOK, Statuses
    <2>4. TypeOK'
      BY <2>1, <2>3 DEF ExecInv, TypeOK, Finish
    <2>5. Own(o, i)
      BY <1>2, <2>1, <2>3 DEF Own, Finish
    <2>6. OpFollows(o)'
      BY <2>1 DEF OpFollows, Placed, RecordFollows, OutcomeFollows, Recorded
    <2>7. EffectFollows(i)'
      BY <1>1, <1>2, <2>2, <2>3 DEF EffectFollows, OutcomeFollows, Finish, Unfinished, Outcomes
    <2> QED
      BY <1>1, <1>2, <2>1, <2>4, <2>5, <2>6, <2>7, OwnStep DEF Records, Recorded
  <1> QED
    BY <1>2, <1>3, <1>4 DEF Finish

-----------------------------------------------------------------------------
(* Steps of handlers, callers, the host and the other processes.           *)
LEMMA FrameIsGood ==
  ASSUME ExecInv, TypeOK', LockHeld', \A p \in Operations : Undisturbed(p),
         \A i \in Invocations : EffectFollows(i)'
  PROVE  ExecInv'
  BY OpFrame, ApartFrame DEF ExecInv

(* Nothing but cancellations happens to the operations.                    *)
SameButCut ==
  /\ op' \in [Operations -> Calls]
  /\ \A p \in Operations :
       /\ op'[p].pc = op[p].pc /\ op'[p].inv = op[p].inv /\ op'[p].at = op[p].at
       /\ op'[p].epoch = op[p].epoch /\ op'[p].status = op[p].status /\ op'[p].to = op[p].to

LEMMA CutsAreSame ==
  ASSUME TypeOK
  PROVE  /\ \A o \in Operations : op' = [op EXCEPT ![o].cut = TRUE] => SameButCut
         /\ \A P \in SUBSET Operations :
              op' = [o \in Operations |-> IF o \in P THEN [op[o] EXCEPT !.cut = TRUE] ELSE op[o]]
                => SameButCut
         /\ UNCHANGED op => SameButCut
  <1>1. \A o \in Operations : /\ op[o] \in Calls /\ [op[o] EXCEPT !.cut = TRUE] \in Calls
    BY DEF TypeOK, Calls
  <1>2. ASSUME NEW P \in SUBSET Operations,
               op' = [o \in Operations |-> IF o \in P THEN [op[o] EXCEPT !.cut = TRUE] ELSE op[o]]
        PROVE  SameButCut
    <2>1. op' \in [Operations -> Calls]
      BY <1>1, <1>2
    <2>2. ASSUME NEW p \in Operations
          PROVE  op'[p] = op[p] \/ op'[p] = [op[p] EXCEPT !.cut = TRUE]
      BY <1>2
    <2> QED
      BY <1>1, <2>1, <2>2 DEF SameButCut, Calls
  <1>3. ASSUME NEW o \in Operations, op' = [op EXCEPT ![o].cut = TRUE]
        PROVE  SameButCut
    <2>1. op' = [q \in Operations |-> IF q \in {o} THEN [op[q] EXCEPT !.cut = TRUE] ELSE op[q]]
      BY <1>3 DEF TypeOK
    <2> QED
      BY <1>2, <2>1
  <1>4. UNCHANGED op => SameButCut
    BY DEF SameButCut, TypeOK
  <1> QED
    BY <1>2, <1>3, <1>4

LEMMA WatchesAreSame ==
  ASSUME TypeOK, NEW s \in Startups, CutWatches(s)
  PROVE  SameButCut
  <1> DEFINE P == {o \in Operations : op[o].at = s /\ Watched(o)}
  <1>1. op' = [o \in Operations |-> IF o \in P THEN [op[o] EXCEPT !.cut = TRUE] ELSE op[o]]
    BY DEF CutWatches
  <1> QED
    BY <1>1, CutsAreSame

(* Steps that leave the records and handlers alone.                        *)
LEMMA DomainIsGood ==
  ASSUME ExecInv, SameButCut, UNCHANGED <<records, handlers>>, LockHeld',
         process' \in [Startups -> Phases], lock' \in 0 .. MaxStartups,
         epoch' \in [Startups -> Epochs], open' \in [Startups -> Nat],
         \A p \in Operations : op[p].pc # "idle" => process'[op[p].at] \in Working
  PROVE  ExecInv'
  <1> USE DEF records, handlers
  <1>1. TypeOK'
    BY DEF ExecInv, TypeOK, SameButCut
  <1>2. \A p \in Operations : Undisturbed(p)
    BY DEF Undisturbed, SameButCut
  <1>3. \A i \in Invocations : EffectFollows(i)'
    BY DEF ExecInv, EffectFollows
  <1> QED
    BY <1>1, <1>2, <1>3, FrameIsGood

LEMMA CancelIsGood ==
  ASSUME ExecInv, NEW o \in Operations, Cancel(o)
  PROVE  ExecInv'
  <1>1. SameButCut
    BY CutsAreSame DEF Cancel, ExecInv
  <1> QED
    BY <1>1, DomainIsGood DEF Cancel, domain, ExecInv, TypeOK, LockHeld, OpFollows, Placed

LEMMA HandlerIsGood ==
  ASSUME ExecInv, NEW i \in Invocations, Handle(i)
  PROVE  ExecInv'
  <1>1. CASE Claim(i)
    <2> DEFINE s == home[i].at
    <2> USE DEF records
    <2>1. s \in Startups
      <3>1. PICK o \in Operations : op[o].pc \in Recorded /\ op[o].inv = i
        BY <1>1 DEF Claim, Recorded
      <3> QED
        BY <3>1, Here DEF OpFollows, RecordFollows
    <2>2. SameButCut
      BY <1>1, <2>1, WatchesAreSame DEF Claim, ExecInv
    <2>3. epoch' \in [Startups -> Epochs]
      BY <1>1, <2>1, ExecutionAssumption DEF Claim, NewEpoch, ExecInv, TypeOK, Epochs
    <2>4. effect' \in [Invocations -> Effects] /\ claim' \in [Invocations -> Claims]
      BY <1>1 DEF Claim, ExecInv, TypeOK, Effects, Claims
    <2>5. TypeOK'
      BY <1>1, <2>2, <2>3, <2>4 DEF ExecInv, TypeOK, Claim, SameButCut
    <2>6. \A p \in Operations : Undisturbed(p)
      BY <1>1, <2>2 DEF Undisturbed, SameButCut, Claim, ExecInv, OpFollows, Placed, TypeOK
    <2>7. \A j \in Invocations : EffectFollows(j)'
      BY <1>1 DEF Claim, ExecInv, EffectFollows, TypeOK
    <2>8. LockHeld'
      BY <1>1 DEF Claim, ExecInv, LockHeld
    <2> QED
      BY <2>5, <2>6, <2>7, <2>8, FrameIsGood
  <1>2. CASE EndHandler(i)
    <2> USE DEF records, domain
    <2>1. PICK e \in {"succeeded", "failed", "unclear"} :
            /\ effect' = [effect EXCEPT ![i] = e]
            /\ \/ effect[i] = "running" /\ (i \in Owning => e = "failed")
               \/ effect[i] = "committing"
      BY <1>2 DEF EndHandler
    <2>2. effect' \in [Invocations -> Effects]
      BY <2>1 DEF ExecInv, TypeOK, Effects
    <2>3. TypeOK'
      BY <1>2, <2>2 DEF ExecInv, TypeOK, EndHandler
    <2>4. \A p \in Operations : Undisturbed(p)
      BY <1>2, <2>1 DEF Undisturbed, EndHandler, ExecInv, OpFollows, Placed, TypeOK
    <2>5. \A j \in Invocations : EffectFollows(j)'
      BY <1>2, <2>1 DEF EndHandler, ExecInv, EffectFollows, TypeOK
    <2>6. LockHeld'
      BY <1>2 DEF EndHandler, ExecInv, LockHeld
    <2> QED
      BY <2>3, <2>4, <2>5, <2>6, FrameIsGood
  <1> QED
    BY <1>1, <1>2 DEF Handle

LEMMA SecurityIsGood ==
  ASSUME ExecInv, NEW s \in Startups, BeginTransition(s) \/ EndTransition(s)
  PROVE  ExecInv'
  <1>1. SameButCut
    BY CutsAreSame, WatchesAreSame DEF BeginTransition, EndTransition, ExecInv
  <1>2. epoch' \in [Startups -> Epochs] /\ open' \in [Startups -> Nat]
    BY ExecutionAssumption
    DEF BeginTransition, EndTransition, NewEpoch, ExecInv, TypeOK, Epochs, handlers
  <1>3. UNCHANGED <<records, handlers, process, lock>>
    BY DEF BeginTransition, EndTransition
  <1> QED
    BY <1>1, <1>2, <1>3, DomainIsGood DEF ExecInv, TypeOK, LockHeld, OpFollows, Placed

(* The phases of a process that end no operation.                          *)
LEMMA PhaseIsGood ==
  ASSUME ExecInv, NEW s \in Startups,
         Startup(s) \/ Close(s) \/ Shutdown(s) \/ Drained(s) \/ Release(s)
  PROVE  ExecInv'
  <1> USE DEF handlers
  <1>1. SameButCut
    <2>1. CASE Close(s)
      BY <2>1, WatchesAreSame DEF Close, ExecInv
    <2>2. CASE Shutdown(s)
      <3> DEFINE P == {o \in Operations : op[o].at = s /\ Cancellable(o)}
      <3>1. op' = [o \in Operations |-> IF o \in P THEN [op[o] EXCEPT !.cut = TRUE] ELSE op[o]]
        BY <2>2 DEF Shutdown
      <3> QED
        BY <3>1, CutsAreSame DEF ExecInv
    <2>3. CASE Startup(s) \/ Drained(s) \/ Release(s)
      BY <2>3, CutsAreSame DEF Startup, Drained, Release, ExecInv
    <2> QED
      BY <2>1, <2>2, <2>3
  <1>2. PICK p \in Phases :
          /\ process' = [process EXCEPT ![s] = p]
          /\ \/ p \in Holding /\ lock' = lock /\ process[s] \in Holding
             \/ p \in Holding /\ lock = 0 /\ lock' = s
             \/ p = "released" /\ process[s] = "drained" /\ lock' = 0
          /\ process[s] \in Working =>
               p \in Working \/ \A o \in Operations : op[o].at # s
    <2> USE DEF Phase, Phases, Holding, Working
    <2>1. CASE Startup(s)
      BY <2>1 DEF Startup
    <2>2. CASE Close(s) \/ Shutdown(s)
      BY <2>2 DEF Close, Shutdown, Serving
    <2>3. CASE Drained(s)
      BY <2>3 DEF Drained
    <2>4. CASE Release(s)
      BY <2>4 DEF Release
    <2> QED
      BY <2>1, <2>2, <2>3, <2>4
  <1>3. /\ process' \in [Startups -> Phases] /\ process'[s] = p
        /\ \A t \in Startups \ {s} : process'[t] = process[t]
        /\ lock' \in 0 .. MaxStartups
    BY <1>2, ExecutionAssumption DEF ExecInv, TypeOK, Startups
  <1>4. LockHeld'
    <2> SUFFICES ASSUME NEW t \in Startups, process'[t] \in Holding PROVE lock' = t
      BY DEF LockHeld
    <2>1. 0 \notin Startups /\ "released" \notin Holding /\ "drained" \in Holding
      BY DEF Startups, Holding, Working
    <2>2. \A u \in Startups : process[u] \in Holding => lock = u
      BY DEF ExecInv, LockHeld
    <2> QED
      BY <1>2, <1>3, <2>1, <2>2
  <1>5. \A o \in Operations : op[o].pc # "idle" => process'[op[o].at] \in Working
    BY <1>2, <1>3 DEF ExecInv, OpFollows, Placed
  <1>6. UNCHANGED <<records, handlers, epoch, open>>
    BY DEF Startup, Close, Shutdown, Drained, Release
  <1> QED
    BY <1>1, <1>2, <1>4, <1>5, <1>6, <1>3, DomainIsGood DEF ExecInv, TypeOK

(* No recovery meets an operation under way: the process of the operation  *)
(* holds the lock, and has not drained.                                    *)
LEMMA RecoveryIsAlone ==
  ASSUME ExecInv, NEW s \in Startups, NEW o \in Operations, op[o].pc \in Recorded
  PROVE  home[op[o].inv].at \notin Proof(s)
  <1>1. /\ home[op[o].inv].at = op[o].at /\ op[o].at \in Startups
        /\ process[op[o].at] \in Working /\ lock = op[o].at
    BY Here DEF OpFollows, RecordFollows, ExecInv, LockHeld, Holding
  <1>2. process[s] \in Holding => s = op[o].at
    BY <1>1 DEF ExecInv, LockHeld
  <1> QED
    BY <1>1, <1>2 DEF Proof, Serving, Working, Holding

LEMMA RecoverIsGood ==
  ASSUME ExecInv, NEW s \in Startups, Recover(s) \/ ReconcileDecision(s)
  PROVE  ExecInv'
  <1> USE DEF handlers, domain
  <1>1. CASE RecoverInvocation(s)
    <2>1. PICK i \in Recoverable(s) : Become(i, "outcome_unknown")
      BY <1>1 DEF RecoverInvocation
    <2>2. i \in Invocations /\ \A o \in Operations : op[o].pc \in Recorded => op[o].inv # i
      BY <2>1, RecoveryIsAlone DEF Recoverable
    <2>3. TypeOK'
      BY <1>1, <2>1, <2>2 DEF RecoverInvocation, Become, ExecInv, TypeOK, Statuses, Outcomes
    <2>4. \A p \in Operations : Undisturbed(p)
      BY <1>1, <2>1, <2>2
      DEF Undisturbed, RecoverInvocation, Become, ExecInv, OpFollows, Placed, TypeOK, Recorded
    <2>5. \A j \in Invocations : EffectFollows(j)'
      BY <1>1, <2>1, <2>2 DEF RecoverInvocation, Become, ExecInv, EffectFollows, TypeOK
    <2>6. LockHeld'
      BY <1>1 DEF RecoverInvocation, ExecInv, LockHeld
    <2> QED
      BY <2>3, <2>4, <2>5, <2>6, FrameIsGood
  <1>2. CASE RecoverDecision(s) \/ ReconcileDecision(s)
    <2>1. PICK i \in Invocations : Undecided(i) /\ receipt' = [receipt EXCEPT ![i] = "refused"]
      BY <1>2 DEF RecoverDecision, ReconcileDecision, Revocable
    <2>2. TypeOK'
      BY <1>2, <2>1 DEF RecoverDecision, ReconcileDecision, ExecInv, TypeOK, Receipts
    <2>3. \A p \in Operations : Undisturbed(p)
      BY <1>2, <2>1
      DEF Undisturbed, RecoverDecision, ReconcileDecision, Undecided, ExecInv, OpFollows, Placed,
          TypeOK, Recorded
    <2>4. \A j \in Invocations : EffectFollows(j)'
      BY <1>2 DEF RecoverDecision, ReconcileDecision, ExecInv, EffectFollows
    <2>5. LockHeld'
      BY <1>2 DEF RecoverDecision, ReconcileDecision, ExecInv, LockHeld
    <2> QED
      BY <2>2, <2>3, <2>4, <2>5, FrameIsGood
  <1> QED
    BY <1>1, <1>2 DEF Recover

LEMMA CrashIsGood ==
  ASSUME ExecInv, NEW s \in Startups, Crash(s)
  PROVE  ExecInv'
  <1> USE DEF records
  <1>1. /\ process' \in [Startups -> Phases] /\ process'[s] = "dead"
        /\ \A t \in Startups \ {s} : process'[t] = process[t]
        /\ lock' \in 0 .. MaxStartups /\ (lock # s => lock' = lock)
        /\ open' \in [Startups -> Nat]
    BY ExecutionAssumption DEF Crash, Phase, ExecInv, TypeOK, Phases
  <1>2. /\ op' \in [Operations -> Calls]
        /\ \A p \in Operations : op'[p] = IF op[p].at = s THEN Idle ELSE op[p]
    BY IdleIsACall DEF Crash, ExecInv, TypeOK
  <1>3. /\ effect' \in [Invocations -> Effects]
        /\ \A i \in Invocations :
             /\ effect[i] \notin {"running", "committing"} \/ home[i].at # s => effect'[i] = effect[i]
             /\ effect'[i] \in {effect[i], "gone", "unclear"}
             /\ effect[i] = "running" => effect'[i] \in {"running", "gone"}
             /\ effect[i] = "committing" => effect'[i] \in {"committing", "unclear"}
    <2>1. effect' = [i \in Invocations |-> IF home[i].at = s THEN Lost(effect[i]) ELSE effect[i]]
      BY DEF Crash
    <2>2. \A i \in Invocations :
             /\ effect[i] \notin {"running", "committing"} \/ home[i].at # s => effect'[i] = effect[i]
             /\ effect'[i] \in {effect[i], "gone", "unclear"}
             /\ effect[i] = "running" => effect'[i] \in {"running", "gone"}
             /\ effect[i] = "committing" => effect'[i] \in {"committing", "unclear"}
      BY <2>1 DEF Lost
    <2>3. \A i \in Invocations : effect'[i] \in Effects
      BY <2>2 DEF ExecInv, TypeOK, Effects
    <2> QED
      BY <2>1, <2>2, <2>3
  <1>4. TypeOK'
    BY <1>1, <1>2, <1>3 DEF Crash, ExecInv, TypeOK
  <1>5. LockHeld'
    BY <1>1 DEF ExecInv, LockHeld, Holding, Working
  <1>6. \A i \in Invocations : EffectFollows(i)'
    BY <1>3 DEF Crash, ExecInv, EffectFollows
  <1>7. ASSUME NEW p \in Operations PROVE OpFollows(p)'
    <2>1. CASE op[p].at = s
      BY <1>2, <2>1 DEF Idle, OpFollows, Placed, RecordFollows, OutcomeFollows, Recorded
    <2>2. CASE op[p].at # s
      <3>1. OpFollows(p) /\ op'[p] = op[p]
        BY <1>2, <2>2 DEF ExecInv
      <3>2. Undisturbed(p)
        <4>1. op[p].pc # "idle" => op[p].inv \in Invocations /\ process'[op[p].at] \in Working
          BY <1>1, <2>2, <3>1 DEF OpFollows, Placed
        <4>2. op[p].pc \in Recorded => effect'[op[p].inv] = effect[op[p].inv]
          BY <1>3, <2>2, <3>1, <4>1 DEF OpFollows, RecordFollows, Recorded
        <4> QED
          BY <3>1, <4>1, <4>2 DEF Undisturbed, Crash
      <3> QED
        BY <3>1, <3>2, OpFrame
    <2> QED
      BY <2>1, <2>2
  <1>8. Apart'
    BY <1>2 DEF ExecInv, Apart, Idle, Recorded
  <1> QED
    BY <1>4, <1>5, <1>6, <1>7, <1>8 DEF ExecInv

-----------------------------------------------------------------------------
LEMMA StutterIsGood ==
  ASSUME ExecInv, UNCHANGED vars
  PROVE  ExecInv'
  <1> USE DEF vars, domain
  <1>1. SameButCut
    BY CutsAreSame DEF ExecInv
  <1> QED
    BY <1>1, DomainIsGood DEF ExecInv, TypeOK, LockHeld, OpFollows, Placed

LEMMA StepIsGood ==
  ASSUME ExecInv, [Next]_vars
  PROVE  ExecInv'
  <1>1. ASSUME NEW o \in Operations, Step(o) PROVE ExecInv'
    BY <1>1, PrepareIsGood, ReserveIsGood, AskIsGood, AnswerIsGood, QueueIsGood, AdmitIsGood,
       AwaitIsGood, AwaitClaimedIsGood, FinishIsGood, PanicIsGood
    DEF Step
  <1>2. ASSUME NEW s \in Startups, Host(s) PROVE ExecInv'
    BY <1>2, SecurityIsGood, PhaseIsGood, RecoverIsGood, CrashIsGood DEF Host, Drain
  <1> QED
    BY <1>1, <1>2, CancelIsGood, EnterIsGood, HandlerIsGood, StutterIsGood DEF Next

LEMMA ExecInvHolds ==
  Spec => []ExecInv
  BY InitIsGood, StepIsGood, PTL DEF Spec

(* The variables keep their types.                                         *)
THEOREM TypeCorrect ==
  Spec => []TypeOK
  <1>1. ExecInv => TypeOK
    BY DEF ExecInv
  <1> QED
    BY <1>1, ExecInvHolds, PTL

(* No retry, other operation or recovery of another process changes the    *)
(* record of an operation under way (ReserveEnvelope, the final compare    *)
(* and swap, DrainedGenerations and the lock of BindInstance).             *)
THEOREM RecordIsOwned ==
  Spec => []OwnerAlone
  BY InvImplies, ExecInvHolds, PTL

(* The ledger tells the truth of the handlers, whatever is cancelled,      *)
(* fails or crashes (awaitEnvelopeOutcome, CommitOwnership, the recovery   *)
(* of the coordinator).                                                    *)
THEOREM LedgerIsTrue ==
  Spec => []RecordIsTrue
  BY InvImplies, ExecInvHolds, PTL

(* A handler starts once, under the epoch its invocation was reserved in   *)
(* and the decision it consumed (AdmitExecution, WithDecision).            *)
THEOREM StartsAreAuthorised ==
  Spec => StartIsAuthorised
  <1>1. ASSUME ExecInv, [Next]_vars, NEW i \in Invocations, Starts(i)
        PROVE  /\ effect[i] = "none"
               /\ Serving(home[i].at) /\ ~Fenced(home[i].at)
               /\ home[i].epoch = epoch[home[i].at]
               /\ i \in Interactive => receipt[i] = "consumed"
    <2>1. PICK o \in Operations : AdmitExecution(o) /\ Begin(op[o].inv)
      <3>1. effect' # effect
        BY <1>1 DEF Starts
      <3>2. \A j \in Invocations : ~Handle(j)
        <4> SUFFICES ASSUME NEW j \in Invocations, Handle(j) PROVE FALSE
          OBVIOUS
        <4>1. PICK e \in {"committing", "succeeded", "failed", "unclear"} :
                effect' = [effect EXCEPT ![j] = e]
          BY DEF Handle, Claim, EndHandler
        <4> QED
          BY <1>1, <4>1 DEF Starts, ExecInv, TypeOK
      <3>3. \A s \in Startups : ~Crash(s)
        BY <1>1 DEF Starts, Crash, Lost, ExecInv, TypeOK
      <3>4. \E o \in Operations : AdmitExecution(o)
        BY <1>1, <3>1, <3>2, <3>3
        DEF Next, vars, handlers, records, Step, Host, Drain, Recover, Prepare, Reserve, Ask,
            Answer, Queue, Await, AwaitClaimed, Finish, Panic, Cancel, Enter, BeginTransition,
            EndTransition, Startup, Close, Shutdown, Drained, Release, RecoverDecision,
            RecoverInvocation, ReconcileDecision
      <3> QED
        BY <3>1, <3>4 DEF AdmitExecution, handlers
    <2>2. op[o].pc = "admit" /\ op[o].pc \in Recorded
      BY <2>1 DEF AdmitExecution, At, Recorded
    <2>3. op[o].inv = i
      BY <1>1, <2>1, <2>2, Here DEF Starts, Begin, ExecInv, TypeOK
    <2>4. Current(o) /\ ledger[i] = "queued"
      BY <1>1, <2>1, <2>3 DEF AdmitExecution, Starts, handlers
    <2> QED
      BY <1>1, <2>2, <2>3, <2>4, Here DEF Current, OpFollows, RecordFollows, EffectFollows
  <1>2. ExecInv /\ [Next]_vars =>
          [\A i \in Invocations : Starts(i) =>
             /\ effect[i] = "none"
             /\ Serving(home[i].at) /\ ~Fenced(home[i].at)
             /\ home[i].epoch = epoch[home[i].at]
             /\ i \in Interactive => receipt[i] = "consumed"]_vars
    BY <1>1
  <1> QED
    BY <1>2, ExecInvHolds, PTL DEF Spec, StartIsAuthorised

-----------------------------------------------------------------------------
(* The record of each invocation: what every step does to it.              *)

RecordStep == [Record!Next]_<<ledger, effect, claim>>

LEMMA RecordKept ==
  ASSUME UNCHANGED <<ledger, handlers>>
  PROVE  RecordStep
  BY DEF RecordStep, handlers

LEMMA ReserveRefines ==
  ASSUME NEW o \in Operations, NEW i \in Invocations, i = op[o].inv, Reserve(o)
  PROVE  RecordStep
  <1>1. CASE Leave(o) /\ UNCHANGED <<ledger, home>>
    BY <1>1, RecordKept DEF Reserve
  <1>2. ASSUME NEW status \in {"refused", "evaluating"}, Insert(o, status)
        PROVE  Record!Reserve(i)
    BY <1>2 DEF Record!Reserve, Record!Become, Insert, Become, Reserve, handlers
  <1> QED
    BY <1>1, <1>2 DEF Reserve, RecordStep, Record!Next

(* A command with a record that is refused, queued or started.             *)
LEMMA EarlyRefines ==
  ASSUME ExecInv, NEW o \in Operations, NEW i \in Invocations, i = op[o].inv,
         Ask(o) \/ Answer(o) \/ Queue(o) \/ AdmitExecution(o) \/ Panic(o)
  PROVE  RecordStep
  <1> USE DEF handlers
  <1>1. CASE Ask(o) \/ Answer(o) \/ Panic(o)
    BY <1>1, RecordKept DEF Ask, Answer, Panic, records
  <1>2. CASE Queue(o)
    <2>1. CASE UNCHANGED ledger
      BY <1>2, <2>1, RecordKept DEF Queue
    <2>2. CASE ~UNCHANGED ledger
      <3>1. Record!Queue(i)
        BY <1>2, <2>2 DEF Queue, Record!Queue, Record!Become, Become
      <3> QED
        BY <3>1 DEF RecordStep, Record!Next
    <2> QED
      BY <2>1, <2>2
  <1>3. CASE AdmitExecution(o)
    <2>1. CASE UNCHANGED <<ledger, handlers>>
      BY <2>1, RecordKept
    <2>2. CASE ~UNCHANGED <<ledger, handlers>>
      <3>1. ledger[i] = "queued" /\ Become(i, "running") /\ (Begin(i) \/ UNCHANGED handlers)
        BY <1>3, <2>2 DEF AdmitExecution
      <3>2. effect[i] = "none"
        BY <3>1 DEF ExecInv, EffectFollows
      <3>3. Record!Start(i)
        <4>1. CASE Begin(i)
          <5>1. \E l \in {"none", "pending"} : claim' = [claim EXCEPT ![i] = l]
            BY <4>1 DEF Begin
          <5> QED
            BY <3>1, <3>2, <4>1, <5>1 DEF Record!Start, Record!Become, Record!Handle, Become, Begin
        <4>2. CASE UNCHANGED handlers
          BY <3>1, <4>2 DEF Record!Start, Record!Become, Become
        <4> QED
          BY <3>1, <4>1, <4>2
      <3> QED
        BY <3>3 DEF RecordStep, Record!Next
    <2> QED
      BY <2>1, <2>2
  <1> QED
    BY <1>1, <1>2, <1>3

(* A started command that is waited for, given up and closed.              *)
LEMMA LateRefines ==
  ASSUME ExecInv, NEW o \in Operations, NEW i \in Invocations, i = op[o].inv,
         Await(o) \/ AwaitClaimed(o) \/ Finish(o)
  PROVE  RecordStep
  <1> USE DEF handlers
  <1>1. CASE AwaitClaimed(o)
    BY <1>1, RecordKept DEF AwaitClaimed, records
  <1>2. CASE Await(o)
    <2>1. CASE UNCHANGED claim
      BY <1>2, <2>1, RecordKept DEF Await, records
    <2>2. CASE ~UNCHANGED claim
      <3>1. claim' = [claim EXCEPT ![i] = IF @ = "pending" THEN "aborted" ELSE @]
        BY <1>2, <2>2 DEF Await
      <3>2. claim[i] = "pending" /\ claim' = [claim EXCEPT ![i] = "aborted"]
        BY <2>2, <3>1 DEF ExecInv, TypeOK
      <3>3. ledger[i] = "running"
        <4>1. op[o].pc = "await" /\ op[o].pc \in Recorded
          BY <1>2 DEF Await, At, Recorded
        <4> QED
          BY <4>1, Here DEF StageStatus
      <3>4. Record!GiveUp(i)
        BY <1>2, <3>2, <3>3 DEF Await, Record!GiveUp, records
      <3> QED
        BY <3>4 DEF RecordStep, Record!Next
    <2> QED
      BY <2>1, <2>2
  <1>3. CASE Finish(o)
    <2>1. CASE UNCHANGED ledger
      BY <1>3, <2>1, RecordKept DEF Finish
    <2>2. CASE ~UNCHANGED ledger
      <3>1. Become(i, op[o].to) /\ UNCHANGED <<effect, claim>>
        BY <1>3, <2>2 DEF Finish
      <3>2. op[o].pc = "finish" /\ op[o].pc \in Recorded
        BY <1>3 DEF Finish, At, Recorded
      <3>3. /\ OutcomeFollows(o) /\ EffectFollows(i)
            /\ ledger[i] = op[o].status /\ ledger[i] \in Unfinished
        BY <3>2, Here DEF OpFollows, StageStatus
      <3>4. CASE op[o].to = "outcome_unknown"
        <4>1. Record!Seal(i)
          BY <3>1, <3>3, <3>4 DEF Record!Seal, Record!Become, Become, Unfinished
        <4> QED
          BY <4>1 DEF RecordStep, Record!Next
      <3>5. CASE op[o].to \in {"refused", "failed"} /\ ledger[i] # "running"
        <4>1. Record!Refuse(i)
          BY <3>1, <3>3, <3>5 DEF Record!Refuse, Record!Become, Become, Unfinished
        <4> QED
          BY <4>1 DEF RecordStep, Record!Next
      <3>6. CASE ledger[i] = "running" /\ op[o].to \in {"succeeded", "failed"}
        <4>1. effect[i] = op[o].to
          BY <3>2, <3>3, <3>6 DEF OutcomeFollows
        <4>2. Record!Close(i)
          BY <3>1, <3>6, <4>1 DEF Record!Close, Record!Become, Become
        <4> QED
          BY <4>2 DEF RecordStep, Record!Next
      <3>7. ~(op[o].to = "succeeded" /\ ledger[i] # "running")
        BY <3>2, <3>3 DEF OutcomeFollows, EffectFollows, Unfinished
      <3>8. ~(op[o].to = "refused" /\ ledger[i] = "running")
        BY <3>2, <3>3 DEF OutcomeFollows
      <3> QED
        BY <3>2, <3>3, <3>4, <3>5, <3>6, <3>7, <3>8 DEF OutcomeFollows, Outcomes
    <2> QED
      BY <2>1, <2>2
  <1> QED
    BY <1>1, <1>2, <1>3

LEMMA HandlerRefines ==
  ASSUME ExecInv, NEW i \in Invocations, Handle(i)
  PROVE  RecordStep
  <1>1. CASE Claim(i)
    <2>1. PICK o \in Operations : op[o].pc \in {"await", "finish"} /\ op[o].inv = i
      BY <1>1 DEF Claim
    <2>2. ledger[i] \in Unfinished /\ EffectFollows(i)
      BY <2>1, Here DEF StageStatus, Recorded, Unfinished
    <2>3. ledger[i] = "running"
      BY <1>1, <2>2 DEF Claim, EffectFollows, Unfinished
    <2>4. Record!Commit(i)
      BY <1>1, <2>3 DEF Claim, Record!Commit, Record!Handle, records
    <2> QED
      BY <2>4 DEF RecordStep, Record!Next
  <1>2. CASE EndHandler(i)
    <2>1. PICK e \in {"succeeded", "failed", "unclear"} :
            /\ effect' = [effect EXCEPT ![i] = e]
            /\ \/ effect[i] = "running" /\ (i \in Owning => e = "failed")
               \/ effect[i] = "committing"
      BY <1>2 DEF EndHandler
    <2>2. effect[i] = "running" /\ i \notin Owning => claim[i] = "none"
      BY DEF ExecInv, EffectFollows, TypeOK, Claims
    <2>3. Record!End(i)
      BY <1>2, <2>1, <2>2 DEF EndHandler, Record!End, Record!Handle, records
    <2> QED
      BY <2>3 DEF RecordStep, Record!Next
  <1> QED
    BY <1>1, <1>2 DEF Handle

LEMMA HostRefines ==
  ASSUME ExecInv, NEW s \in Startups, Host(s)
  PROVE  RecordStep
  <1>1. CASE RecoverInvocation(s)
    <2>1. PICK i \in Recoverable(s) : Become(i, "outcome_unknown")
      BY <1>1 DEF RecoverInvocation
    <2>2. i \in Invocations /\ Record!Seal(i)
      BY <1>1, <2>1
      DEF RecoverInvocation, Recoverable, Active, Unfinished, Record!Seal, Record!Become, Become,
          handlers
    <2> QED
      BY <2>2 DEF RecordStep, Record!Next
  <1>2. CASE Crash(s)
    <2> DEFINE gone == {i \in Invocations : home[i].at = s}
    <2>1. effect' = [i \in Invocations |->
                       CASE i \in gone /\ effect[i] = "running" -> "gone"
                         [] i \in gone /\ effect[i] = "committing" -> "unclear"
                         [] OTHER -> effect[i]]
      BY <1>2 DEF Crash, Lost
    <2>2. UNCHANGED <<ledger, claim>> /\ gone \in SUBSET Invocations
      BY <1>2 DEF Crash, records
    <2>3. Record!Lose
      BY <2>1, <2>2 DEF Record!Lose
    <2> QED
      BY <2>3 DEF RecordStep, Record!Next
  <1>3. CASE ~RecoverInvocation(s) /\ ~Crash(s)
    <2>1. UNCHANGED <<ledger, handlers>>
      BY <1>3
      DEF Host, Drain, Recover, BeginTransition, EndTransition, Startup, Close, Shutdown, Drained,
          Release, RecoverDecision, ReconcileDecision, records
    <2> QED
      BY <2>1, RecordKept
  <1> QED
    BY <1>1, <1>2, <1>3

LEMMA NextRefines ==
  ASSUME ExecInv, [Next]_vars
  PROVE  RecordStep
  <1>1. ASSUME NEW o \in Operations, Step(o) PROVE RecordStep
    <2>1. CASE Prepare(o)
      BY <2>1, RecordKept DEF Prepare, records
    <2>2. CASE ~Prepare(o)
      <3>1. op[o].pc # "idle"
        BY <1>1, <2>2
        DEF Step, Reserve, Ask, Answer, Queue, AdmitExecution, Await, AwaitClaimed, Finish, Panic,
            At
      <3>2. PICK i \in Invocations : i = op[o].inv
        BY <3>1 DEF ExecInv, OpFollows, Placed
      <3> QED
        BY <1>1, <2>2, <3>2, ReserveRefines, EarlyRefines, LateRefines DEF Step
    <2> QED
      BY <2>1, <2>2
  <1>2. ASSUME NEW o \in Operations, NEW i \in Invocations, NEW s \in Startups,
               Cancel(o) \/ Enter(o, i, s)
        PROVE  RecordStep
    BY <1>2, RecordKept DEF Cancel, Enter, records
  <1>3. ASSUME NEW o \in Operations, Cancel(o) PROVE RecordStep
    BY <1>3, RecordKept DEF Cancel, records
  <1>4. CASE UNCHANGED vars
    BY <1>4, RecordKept DEF vars, records
  <1> QED
    BY <1>1, <1>2, <1>3, <1>4, HandlerRefines, HostRefines DEF Next

(* Whatever calls, cancels, retries, recovers or dies, each invocation has *)
(* the record CommandRecord promises (validEnvelopeTransition, the handle  *)
(* of AdmitExecution, CommitOwnership, normalizeEnvelopeOutcome).          *)
THEOREM CommandRefined ==
  Spec => CommandSpec
  <1>1. Init => Record!Init
    BY DEF Init, Record!Init
  <1>2. ExecInv /\ [Next]_vars => [Record!Next]_<<ledger, effect, claim>>
    BY NextRefines DEF RecordStep
  <1> QED
    BY <1>1, <1>2, ExecInvHolds, PTL DEF Spec, CommandSpec, Record!Spec

-----------------------------------------------------------------------------
(* Closing a process.                                                      *)

Waiting == {"asking", "await"}

(* A step of one operation in a process that goes on: it begins to wait    *)
(* only where it is admitted.                                              *)
LEMMA WaitBegins ==
  ASSUME WaitsAreCut, NEW o \in Operations, \A p \in Operations \ {o} : op'[p] = op[p],
         UNCHANGED process, op'[o].pc \in Waiting => Serving(op'[o].at)
  PROVE  WaitsAreCut'
  BY DEF WaitsAreCut, Serving, Waiting

LEMMA StepKeepsWaits ==
  ASSUME ExecInv, WaitsAreCut, NEW o \in Operations, Step(o)
  PROVE  WaitsAreCut'
  <1> USE DEF domain
  <1>1. ASSUME NEW pc \in Stages \ Waiting, NEW x \in Statuses,
               Goto(o, pc) \/ Advance(o, pc, x) \/ FinishAs(o, x) \/ Leave(o), UNCHANGED process
        PROVE  WaitsAreCut'
    <2>1. /\ \A p \in Operations \ {o} : op'[p] = op[p]
          /\ op'[o].pc \in {pc, "finish", "idle"}
      BY <1>1, Updates DEF ExecInv, Changed
    <2> QED
      BY <1>1, <2>1, WaitBegins DEF Waiting
  <1>2. ASSUME NEW pc \in Waiting, NEW x \in Statuses, Goto(o, pc) \/ Advance(o, pc, x),
               Current(o), UNCHANGED process
        PROVE  WaitsAreCut'
    <2>1. /\ \A p \in Operations \ {o} : op'[p] = op[p]
          /\ op'[o].at = op[o].at
      BY <1>2, Updates DEF ExecInv, Changed, Waiting, Stages, Recorded
    <2> QED
      BY <1>2, <2>1, WaitBegins DEF Current
  <1>3. CASE Prepare(o)
    <2>1. CASE Leave(o)
      BY <1>1, <1>3, <2>1 DEF Prepare, Stages, Waiting, Recorded, Statuses
    <2>2. CASE op' = [op EXCEPT ![o].pc = "reserve", ![o].epoch = epoch[op[o].at]]
      <3>1. /\ \A p \in Operations \ {o} : op'[p] = op[p]
            /\ op'[o].pc = "reserve"
        BY <2>2 DEF ExecInv, TypeOK, Calls
      <3> QED
        BY <1>3, <3>1, WaitBegins DEF Prepare, Waiting
    <2> QED
      BY <1>3, <2>1, <2>2 DEF Prepare
  <1>4. CASE Reserve(o) \/ Answer(o) \/ Queue(o) \/ Panic(o) \/ Finish(o)
    BY <1>1, <1>4
    DEF Reserve, Answer, Queue, Panic, Finish, Stages, Waiting, Recorded, Statuses, Unfinished,
        Outcomes
  <1>5. CASE Await(o) \/ AwaitClaimed(o)
    <2>1. Results(op[o].inv) \subseteq Statuses /\ "outcome_unknown" \in Statuses
      BY DEF Results, Statuses, Outcomes
    <2>2. UNCHANGED process /\ "claimed" \in Stages \ Waiting /\ "none" \in Statuses
      BY <1>5 DEF Await, AwaitClaimed, Stages, Waiting, Recorded, Statuses
    <2>3. Goto(o, "claimed") \/ \E to \in Statuses : FinishAs(o, to)
      BY <1>5, <2>1 DEF Await, AwaitClaimed
    <2> QED
      BY <1>1, <2>2, <2>3
  <1>6. CASE Ask(o)
    BY <1>1, <1>2, <1>6 DEF Ask, Stages, Waiting, Recorded, Statuses, Outcomes
  <1>7. CASE AdmitExecution(o)
    <2>1. CASE FinishAs(o, "refused")
      BY <1>1, <1>7, <2>1 DEF AdmitExecution, Stages, Waiting, Recorded, Statuses, Outcomes
    <2>2. CASE Advance(o, "await", "running") /\ Current(o)
      BY <1>2, <1>7, <2>2 DEF AdmitExecution, Waiting, Statuses, Unfinished
    <2>3. CASE op' = [op EXCEPT ![o].pc = "finish", ![o].status = "running",
                                ![o].to = "outcome_unknown"]
      <3>1. /\ \A p \in Operations \ {o} : op'[p] = op[p]
            /\ op'[o].pc = "finish"
        BY <2>3 DEF ExecInv, TypeOK, Calls
      <3> QED
        BY <1>7, <3>1, WaitBegins DEF AdmitExecution, Waiting
    <2> QED
      BY <1>7, <2>1, <2>2, <2>3 DEF AdmitExecution
  <1> QED
    BY <1>3, <1>4, <1>5, <1>6, <1>7 DEF Step

(* Nobody's cancellation is taken back, and a process that stops serving   *)
(* cancels those who wait in it.                                           *)
LEMMA CutsKeepWaits ==
  ASSUME ExecInv, WaitsAreCut, SameButCut,
         \A p \in Operations : op[p].cut => op'[p].cut,
         \A p \in Operations :
           op[p].pc \in Waiting /\ Serving(op[p].at) /\ process'[op[p].at] # "up" => op'[p].cut
  PROVE  WaitsAreCut'
  <1> SUFFICES ASSUME NEW p \in Operations, op'[p].pc \in Waiting, process'[op'[p].at] # "up"
               PROVE  op'[p].cut
    BY DEF WaitsAreCut, Waiting, Serving
  <1>1. op[p].pc = op'[p].pc /\ op[p].at = op'[p].at
    BY DEF SameButCut
  <1> QED
    BY <1>1 DEF WaitsAreCut, Waiting, Serving

LEMMA WatchesOnlyCut ==
  ASSUME ExecInv, NEW s \in Startups, CutWatches(s)
  PROVE  /\ SameButCut
         /\ \A p \in Operations : op[p].cut => op'[p].cut
         /\ \A p \in Operations : op[p].pc \in Waiting /\ op[p].at = s => op'[p].cut
  <1>1. \A p \in Operations : op[p] \in Calls
    BY DEF ExecInv, TypeOK
  <1> QED
    BY <1>1, WatchesAreSame DEF CutWatches, Watched, Waiting, ExecInv, Calls

LEMMA HostKeepsWaits ==
  ASSUME ExecInv, WaitsAreCut, NEW s \in Startups, Host(s)
  PROVE  WaitsAreCut'
  <1> USE DEF domain, records, handlers
  <1>0. process \in [Startups -> Phases] /\ \A p \in Operations : op[p] \in Calls
    BY DEF ExecInv, TypeOK
  <1>1. CASE BeginTransition(s) \/ Close(s)
    <2>1. CutWatches(s) /\ \A t \in Startups \ {s} : process'[t] = process[t]
      BY <1>0, <1>1 DEF BeginTransition, Close, Phase
    <2>2. \A p \in Operations : op[p].pc \in Waiting => op[p].at \in Startups
      BY DEF ExecInv, OpFollows, Placed, Waiting
    <2>3. \A p \in Operations :
            op[p].pc \in Waiting /\ Serving(op[p].at) /\ process'[op[p].at] # "up" => op[p].at = s
      BY <2>1, <2>2 DEF Serving
    <2> QED
      BY <2>1, <2>3, WatchesOnlyCut, CutsKeepWaits
  <1>2. CASE Shutdown(s)
    <2>1. \A p \in Operations : op[p].cut => op'[p].cut
      BY <1>0, <1>2 DEF Shutdown, Calls
    <2>2. \A t \in Startups : Serving(t) => process'[t] = "up"
      BY <1>0, <1>2 DEF Shutdown, Phase, Serving
    <2>3. SameButCut
      <3> DEFINE P == {o \in Operations : op[o].at = s /\ Cancellable(o)}
      <3>1. op' = [o \in Operations |-> IF o \in P THEN [op[o] EXCEPT !.cut = TRUE] ELSE op[o]]
        BY <1>2 DEF Shutdown
      <3> QED
        BY <3>1, CutsAreSame DEF ExecInv
    <2>4. \A p \in Operations : op[p].pc \in Waiting => op[p].at \in Startups
      BY DEF ExecInv, OpFollows, Placed, Waiting
    <2> QED
      BY <2>1, <2>2, <2>3, <2>4, CutsKeepWaits DEF Serving
  <1>3. CASE Startup(s) \/ Drained(s) \/ Release(s) \/ EndTransition(s)
             \/ Recover(s) \/ ReconcileDecision(s)
    <2>1. UNCHANGED op /\ \A t \in Startups : Serving(t) => process'[t] = "up"
      BY <1>0, <1>3
      DEF Startup, Drained, Release, EndTransition, Recover, RecoverDecision, RecoverInvocation,
          ReconcileDecision, Phase, Serving
    <2>2. \A p \in Operations : op[p].pc \in Waiting => op[p].at \in Startups
      BY DEF ExecInv, OpFollows, Placed, Waiting
    <2> QED
      BY <2>1, <2>2, CutsAreSame, CutsKeepWaits DEF ExecInv, Serving
  <1>4. CASE Crash(s)
    <2> SUFFICES ASSUME NEW p \in Operations, op'[p].pc \in Waiting, process'[op'[p].at] # "up"
                 PROVE  op'[p].cut
      BY DEF WaitsAreCut, Waiting, Serving
    <2>1. op'[p] = op[p] /\ op[p].at # s
      BY <1>4 DEF Crash, Idle, Waiting
    <2>2. op[p].at \in Startups
      BY <2>1 DEF ExecInv, OpFollows, Placed, Waiting
    <2>3. ~Serving(op[p].at)
      BY <1>0, <1>4, <2>1, <2>2 DEF Crash, Phase, Serving
    <2> QED
      BY <2>1, <2>3 DEF WaitsAreCut, Waiting
  <1> QED
    BY <1>1, <1>2, <1>3, <1>4 DEF Host, Drain

(* A process that closes waits for nobody that was not told to stop        *)
(* (CloseAndDrain, executionLifecycle.shutdown, watchEpochForLifetime):    *)
(* what the end of every drain rests on.                                   *)
THEOREM NobodyIsWaitedFor ==
  Spec => []WaitsAreCut
  <1>1. Init => WaitsAreCut
    BY DEF Init, Idle, WaitsAreCut
  <1>2. ExecInv /\ WaitsAreCut /\ [Next]_vars => WaitsAreCut'
    <2> SUFFICES ASSUME ExecInv, WaitsAreCut, [Next]_vars PROVE WaitsAreCut'
      OBVIOUS
    <2>1. ASSUME NEW o \in Operations, Cancel(o) PROVE WaitsAreCut'
      <3>1. SameButCut
        BY <2>1, CutsAreSame DEF Cancel, ExecInv
      <3>2. \A p \in Operations : op[p].cut => op'[p].cut
        BY <2>1 DEF Cancel, ExecInv, TypeOK, Calls
      <3> QED
        BY <2>1, <3>1, <3>2, CutsKeepWaits DEF Cancel, domain, Serving
    <2>2. ASSUME NEW o \in Operations, NEW i \in Invocations, NEW s \in Startups, Enter(o, i, s)
          PROVE  WaitsAreCut'
      <3>1. /\ \A p \in Operations \ {o} : op'[p] = op[p]
            /\ op'[o].pc = "prepare"
        BY <2>2 DEF Enter, Idle, ExecInv, TypeOK
      <3> QED
        BY <2>2, <3>1, WaitBegins DEF Enter, Waiting, domain
    <2>3. ASSUME NEW i \in Invocations, Handle(i) PROVE WaitsAreCut'
      <3>1. CASE Claim(i)
        <4>1. home[i].at \in Startups
          <5>1. PICK o \in Operations : op[o].pc \in Recorded /\ op[o].inv = i
            BY <3>1 DEF Claim, Recorded
          <5> QED
            BY <5>1, Here DEF OpFollows, RecordFollows
        <4>2. CutWatches(home[i].at) /\ UNCHANGED process
          BY <3>1 DEF Claim
        <4> QED
          BY <4>1, <4>2, WatchesOnlyCut, CutsKeepWaits DEF Serving
      <3>2. CASE EndHandler(i)
        BY <3>2 DEF EndHandler, domain, WaitsAreCut, Serving
      <3> QED
        BY <2>3, <3>1, <3>2 DEF Handle
    <2>4. CASE UNCHANGED vars
      BY <2>4 DEF vars, domain, WaitsAreCut, Serving
    <2> QED
      BY <2>1, <2>2, <2>3, <2>4, StepKeepsWaits, HostKeepsWaits DEF Next
  <1> QED
    BY <1>1, <1>2, ExecInvHolds, PTL DEF Spec

-----------------------------------------------------------------------------
(* The work of recovery.                                                   *)

(* What may be recovered of an invocation only ends, unless an operation   *)
(* of the process it is recorded for works on it.                          *)
Settles(i) ==
  \/ /\ home'[i] = home[i]
     /\ Active(i)' => Active(i)
     /\ Undecided(i)' => Undecided(i)
  \/ \E o \in Operations : op[o].pc # "idle" /\ home'[i].at = op[o].at

LEMMA StepSettles ==
  ASSUME ExecInv, NEW o \in Operations, Step(o), NEW i \in Invocations
  PROVE  Settles(i)
  <1> USE DEF records, handlers
  <1>0. /\ ledger \in [Invocations -> Statuses] /\ receipt \in [Invocations -> Receipts]
        /\ home \in [Invocations -> [at : 0 .. MaxStartups, epoch : Epochs]]
        /\ op[o].at \in 0 .. MaxStartups /\ op[o].epoch \in Epochs
    BY DEF ExecInv, TypeOK, Calls
  <1>1. CASE Prepare(o) \/ Await(o) \/ AwaitClaimed(o) \/ Panic(o)
    BY <1>1 DEF Prepare, Await, AwaitClaimed, Panic, Settles, Active, Undecided
  <1>2. CASE Reserve(o)
    <2>1. CASE UNCHANGED <<ledger, home>>
      BY <1>2, <2>1 DEF Reserve, Settles, Active, Undecided
    <2>2. ASSUME NEW status, Insert(o, status) PROVE Settles(i)
      <3>1. CASE i = op[o].inv
        <4>1. home'[i].at = op[o].at
          BY <1>0, <2>2, <3>1 DEF Insert
        <4> QED
          BY <1>2, <4>1 DEF Settles, Reserve, At
      <3>2. CASE i # op[o].inv
        <4>1. ledger'[i] = ledger[i] /\ home'[i] = home[i]
          BY <1>0, <2>2, <3>2 DEF Insert, Become
        <4> QED
          BY <1>2, <4>1 DEF Settles, Reserve, Active, Undecided
      <3> QED
        BY <3>1, <3>2
    <2> QED
      BY <1>2, <2>1, <2>2 DEF Reserve
  <1>3. CASE op[o].pc \in Recorded /\ UNCHANGED home
             /\ \A j \in Invocations \ {op[o].inv} :
                  ledger'[j] = ledger[j] /\ receipt'[j] = receipt[j]
    <2>1. CASE i = op[o].inv
      <3>1. home'[i].at = op[o].at
        BY <1>3, <2>1, Here DEF OpFollows, RecordFollows
      <3> QED
        BY <1>3, <3>1 DEF Settles, Recorded
    <2>2. CASE i # op[o].inv
      BY <1>3, <2>2 DEF Settles, Active, Undecided
    <2> QED
      BY <2>1, <2>2
  <1>4. CASE Ask(o) \/ Answer(o) \/ Queue(o) \/ AdmitExecution(o) \/ Finish(o)
    <2>1. op[o].pc \in Recorded
      BY <1>4 DEF Ask, Answer, Queue, AdmitExecution, Finish, At, Recorded
    <2>2. UNCHANGED home
      BY <1>4 DEF Ask, Answer, Queue, AdmitExecution, Finish
    <2>3. \A j \in Invocations \ {op[o].inv} :
            ledger'[j] = ledger[j] /\ receipt'[j] = receipt[j]
      BY <1>0, <1>4 DEF Ask, Answer, Queue, AdmitExecution, Finish, Become, Receive
    <2> QED
      BY <1>3, <2>1, <2>2, <2>3
  <1> QED
    BY <1>1, <1>2, <1>4 DEF Step

LEMMA NextSettles ==
  ASSUME ExecInv, [Next]_vars, NEW i \in Invocations
  PROVE  Settles(i)
  <1> USE DEF records, handlers, domain
  <1>0. ledger \in [Invocations -> Statuses] /\ receipt \in [Invocations -> Receipts]
    BY DEF ExecInv, TypeOK
  <1>1. CASE UNCHANGED records
    BY <1>1 DEF Settles, Active, Undecided
  <1>2. ASSUME NEW s \in Startups, Host(s) PROVE Settles(i)
    <2>1. CASE RecoverInvocation(s)
      BY <1>0, <2>1 DEF RecoverInvocation, Become, Settles, Active, Undecided, Unfinished
    <2>2. CASE RecoverDecision(s) \/ ReconcileDecision(s)
      BY <1>0, <2>2 DEF RecoverDecision, ReconcileDecision, Settles, Active, Undecided
    <2>3. CASE ~Recover(s) /\ ~ReconcileDecision(s)
      BY <1>1, <1>2, <2>3
      DEF Host, Drain, BeginTransition, EndTransition, Startup, Close, Shutdown, Drained, Release,
          Crash
    <2> QED
      BY <2>1, <2>2, <2>3 DEF Recover
  <1>3. ASSUME NEW o \in Operations, Cancel(o) PROVE Settles(i)
    BY <1>1, <1>3 DEF Cancel
  <1>4. ASSUME NEW o \in Operations, NEW j \in Invocations, NEW s \in Startups, Enter(o, j, s)
        PROVE  Settles(i)
    BY <1>1, <1>4 DEF Enter
  <1>5. ASSUME NEW j \in Invocations, Handle(j) PROVE Settles(i)
    BY <1>1, <1>5 DEF Handle, Claim, EndHandler
  <1> QED
    BY <1>1, <1>2, <1>3, <1>4, <1>5, StepSettles DEF Next, vars

(* The proof of which generations are closed does not change while its     *)
(* process serves: no other process starts.                                *)
LEMMA ProofIsKept ==
  ASSUME ExecInv, [Next]_vars, NEW s \in Startups, Serving(s), process'[s] = "up"
  PROVE  Proof(s)' = Proof(s)
  <1>1. lock = s /\ s # 0 /\ process \in [Startups -> Phases]
    BY ExecutionAssumption DEF ExecInv, LockHeld, Holding, Working, Serving, Startups, TypeOK
  <1>2. ASSUME NEW t \in Startups, process'[t] # process[t]
        PROVE  process[t] # "unborn" /\ process'[t] # "unborn"
    <2>1. PICK u \in Startups, p \in Phases \ {"unborn"} :
            process' = [process EXCEPT ![u] = p] /\ process[u] # "unborn"
      <3>1. PICK u \in Startups : Host(u)
        BY <1>2
        DEF Next, vars, domain, Step, Prepare, Reserve, Ask, Answer, Queue, AdmitExecution, Await,
            AwaitClaimed, Finish, Panic, Cancel, Enter, Handle, Claim, EndHandler
      <3>2. ~Startup(u)
        BY <1>1 DEF Startup
      <3>3. \E p \in Phases \ {"unborn"} :
              process' = [process EXCEPT ![u] = p] /\ process[u] # "unborn"
        BY <1>2, <3>1, <3>2
        DEF Host, Drain, Recover, BeginTransition, EndTransition, Close, Shutdown, Drained, Release,
            RecoverDecision, RecoverInvocation, ReconcileDecision, Crash, Phase, Phases, Serving,
            Alive, domain
      <3> QED
        BY <3>3
    <2> QED
      BY <1>1, <1>2, <2>1
  <1>3. \A t \in Startups : process'[t] = "unborn" <=> process[t] = "unborn"
    BY <1>2
  <1> QED
    BY <1>3 DEF Proof, Serving

(* Recovery only ever has less to do: no call of its own process, and      *)
(* nothing of one that is gone, adds to what it found (DrainedGenerations, *)
(* CoordinatorRecovery of the ledger and of the decisions).                *)
THEOREM RecoveryGetsLess ==
  Spec => WorkListsShrink
  <1>1. ASSUME ExecInv, [Next]_vars, NEW s \in Startups, Serving(s), process'[s] = "up"
        PROVE  Recoverable(s)' \subseteq Recoverable(s) /\ Revocable(s)' \subseteq Revocable(s)
    <2>1. Proof(s)' = Proof(s) /\ s \notin Proof(s)
      BY <1>1, ProofIsKept DEF Proof, Serving
    <2>2. \A o \in Operations : op[o].pc # "idle" => op[o].at = s
      BY <1>1 DEF ExecInv, OpFollows, Placed, LockHeld, Holding, Working, Serving
    <2>3. \A i \in Invocations :
            home'[i].at \in Proof(s) => /\ home'[i] = home[i]
                                        /\ Active(i)' => Active(i)
                                        /\ Undecided(i)' => Undecided(i)
      BY <1>1, <2>1, <2>2, NextSettles DEF Settles
    <2> QED
      BY <2>1, <2>3 DEF Recoverable, Revocable
  <1>2. ExecInv /\ [Next]_vars =>
          [\A s \in Startups : Serving(s) /\ process'[s] = "up" =>
             Recoverable(s)' \subseteq Recoverable(s) /\ Revocable(s)' \subseteq Revocable(s)]_vars
    BY <1>1
  <1> QED
    BY <1>2, ExecInvHolds, PTL DEF Spec, WorkListsShrink
=============================================================================
