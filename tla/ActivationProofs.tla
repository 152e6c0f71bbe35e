-------------------------- MODULE ActivationProofs --------------------------
(***************************************************************************)
(* Theorems about Activation, for any number of rules, runs, workspaces    *)
(* and facts.  Part names what each conjunct of the invariant is about;    *)
(* every part is preserved by a lemma of its own.                          *)
(***************************************************************************)
EXTENDS Activation, TLAPS

(* Facts are numbered without gaps, and only those numbered are there.     *)
Numbered ==
  /\ \A n \in Runs, s \in Sequences : outbox[<<n, s>>] = "absent" <=> s > written[n]
  /\ \A n \in Runs : phase[n] = "ended" => written[n] \in Sequences

(* A fact that waits to be claimed has an attempt left.                    *)
Counted ==
  \A f \in Facts : outbox[f] \in {"processing", "lapsed"} \/ attempts[f] < MaxAttempts

(* Only a running run proves that it is alive.                             *)
AliveRuns == \A n \in alive : phase[n] = "running"

(* A claim that recovery took back holds no lease.                         *)
InactiveIsBare == \A c \in Cycles : claim[c] = "inactive" => lease[c] = "none"

(* An active claim is one of an enabled rule.                              *)
ActiveIsEnabled == \A c \in Cycles : claim[c] = "active" => c[1] \in enabled

(* The ledger remembers what was delivered, and why a claim is active.     *)
LedgerAgrees ==
  /\ \A r \in Rules, n \in Runs, s \in Sequences :
       ledger[<<r, n, s>>] # "none" => outbox[<<n, s>>] \in {"delivered", "purged"}
  /\ \A r \in Rules, n \in Runs : claim[<<r, n>>] = "active" =>
       /\ cursor[<<r, n>>] \in Sequences
       /\ ledger[<<r, n, cursor[<<r, n>>]>>] = "activate"

(* The source of a claim in effect is still delivered.                     *)
SourceStays ==
  \A r \in Rules, n \in Runs : Effective(<<r, n>>) => outbox[<<n, cursor[<<r, n>>]>>] = "delivered"

(* What is undelivered or in effect has its run, or its job was deleted.   *)
RunStays ==
  /\ \A n \in Runs, s \in Sequences : outbox[<<n, s>>] \in Undelivered => n \in kept \cup deleted
  /\ \A r \in Rules, n \in Runs :
       Effective(<<r, n>>) /\ phase[n] # "ended" => n \in kept \cup deleted

IInv ==
  /\ TypeOK
  /\ Numbered
  /\ Counted
  /\ AliveRuns
  /\ InactiveIsBare
  /\ ActiveIsEnabled
  /\ LedgerAgrees
  /\ SourceStays
  /\ RunStays
  /\ TerminalIsObeyed

-----------------------------------------------------------------------------
(* The variables that hold no function.                                    *)
SetsTyped ==
  /\ alive \in SUBSET Runs /\ own \in SUBSET Runs
  /\ kept \in SUBSET Runs /\ deleted \in SUBSET Runs
  /\ enabled \in SUBSET Rules /\ granted \in SUBSET Rules /\ matched \in SUBSET Rules
  /\ workspace \in Workspaces
  /\ changes \in 0 .. MaxChanges
  /\ pc \in Stages
  /\ beats \in SUBSET Cycles /\ batch \in SUBSET Facts /\ scanned \in SUBSET Cycles
  /\ more \in BOOLEAN

RunsTyped ==
  /\ phase \in [Runs -> Phases]
  /\ written \in [Runs -> 0 .. MaxFacts]
  /\ old \in [Runs -> 0 .. MaxFacts]

DeliveriesTyped ==
  /\ outbox \in [Facts -> Deliveries]
  /\ attempts \in [Facts -> 0 .. MaxAttempts]

CyclesTyped ==
  /\ claim \in [Cycles -> Claims]
  /\ cursor \in [Cycles -> 0 .. MaxFacts]
  /\ lease \in [Cycles -> Leases]
  /\ ledger \in [Entries -> Outcomes]

LEMMA TypeParts ==
  TypeOK <=> SetsTyped /\ RunsTyped /\ DeliveriesTyped /\ CyclesTyped
  BY DEF TypeOK, SetsTyped, RunsTyped, DeliveriesTyped, CyclesTyped

LEMMA TypeInit ==
  Init => TypeOK
  <1> SUFFICES ASSUME Init PROVE TypeOK
    OBVIOUS
  <1> USE ActivationAssumption
  <1>1. RunsTyped
    BY DEF Init, RunsTyped, Phases
  <1>2. DeliveriesTyped
    BY DEF Init, DeliveriesTyped, Deliveries
  <1>3. CyclesTyped
    BY DEF Init, CyclesTyped, Claims, Leases, Outcomes
  <1>4. SetsTyped
    <2>1. changes = 0 /\ pc = "idle" /\ more = FALSE /\ workspace \in Workspaces
      BY DEF Init
    <2>2. /\ alive = {} /\ own = {} /\ kept = {} /\ deleted = {}
          /\ enabled \in SUBSET Rules /\ granted = Rules /\ matched = Rules
          /\ beats = {} /\ batch = {} /\ scanned = {}
      BY DEF Init
    <2>3. changes \in 0 .. MaxChanges /\ pc \in Stages /\ workspace \in Workspaces
      BY <2>1 DEF Stages
    <2>4. more \in BOOLEAN
      BY <2>1
    <2>5. /\ alive \in SUBSET Runs /\ own \in SUBSET Runs
          /\ kept \in SUBSET Runs /\ deleted \in SUBSET Runs
          /\ enabled \in SUBSET Rules /\ granted \in SUBSET Rules
          /\ matched \in SUBSET Rules
          /\ beats \in SUBSET Cycles /\ batch \in SUBSET Facts /\ scanned \in SUBSET Cycles
      BY <2>2
    <2> QED
      BY <2>3, <2>4, <2>5 DEF SetsTyped
  <1> QED
    BY <1>1, <1>2, <1>3, <1>4, TypeParts

LEMMA ExecutorTyped ==
  ASSUME TypeOK, NEW n \in Runs, Executor(n)
  PROVE  TypeOK'
  <1> USE ActivationAssumption
  <1>1. CyclesTyped' /\ UNCHANGED <<rules, changes, pass, deleted, old>>
    BY DEF Executor, Queue, Register, Write, Close, End, EndUnrecorded, Append,
           TypeOK, CyclesTyped, cycles, records, execution, rules, pass
  <1>2. /\ alive' \in SUBSET Runs /\ own' \in SUBSET Runs /\ kept' \in SUBSET Runs
        /\ phase' \in [Runs -> Phases]
    BY DEF Executor, Queue, Register, Write, Close, End, EndUnrecorded, Append,
           TypeOK, Phases, records, execution
  <1>3. written' \in [Runs -> 0 .. MaxFacts] /\ DeliveriesTyped'
    <2>1. CASE Append(n)
      <3>1. /\ written[n] \in 0 .. MaxFacts /\ written[n] < MaxFacts
            /\ written' = [written EXCEPT ![n] = @ + 1]
            /\ outbox' = [outbox EXCEPT ![<<n, written[n] + 1>>] = "pending"]
            /\ attempts' = attempts
        BY <2>1 DEF Append, TypeOK
      <3>2. written' \in [Runs -> 0 .. MaxFacts]
        BY <3>1 DEF TypeOK
      <3>3. outbox' \in [Facts -> Deliveries]
        BY <3>1 DEF TypeOK, Deliveries, Undelivered
      <3> QED
        BY <3>1, <3>2, <3>3 DEF TypeOK, DeliveriesTyped
    <2>2. CASE UNCHANGED <<written, deliveries>>
      BY <2>2 DEF TypeOK, DeliveriesTyped, deliveries
    <2> QED
      BY <2>1, <2>2 DEF Executor, Queue, Register, Write, Close, End, EndUnrecorded, execution
  <1> QED
    BY <1>1, <1>2, <1>3 DEF TypeOK, CyclesTyped, DeliveriesTyped, rules, pass

LEMMA TimeTyped ==
  ASSUME TypeOK, Time
  PROVE  TypeOK'
  <1> USE ActivationAssumption
  <1>1. ASSUME NEW c \in Cycles, LeaseAges(c) PROVE TypeOK'
    BY <1>1 DEF LeaseAges, TypeOK, Leases, Valid, execution, records, deliveries, rules, pass
  <1>2. ASSUME NEW f \in Facts, DeliveryLapses(f) PROVE TypeOK'
    BY <1>2 DEF DeliveryLapses, TypeOK, Deliveries, Undelivered,
                execution, records, cycles, rules, pass
  <1>3. ASSUME NEW n \in Runs, HorizonPasses(n) PROVE TypeOK'
    <2>1. old[n] \in 0 .. MaxFacts /\ written[n] \in 0 .. MaxFacts
      BY DEF TypeOK
    <2>2. old' \in [Runs -> 0 .. MaxFacts]
      BY <1>3, <2>1 DEF HorizonPasses, TypeOK
    <2> QED
      BY <1>3, <2>2 DEF HorizonPasses, TypeOK, execution, records, deliveries, cycles, rules, pass
  <1> QED
    BY <1>1, <1>2, <1>3 DEF Time

LEMMA RevokedTyped ==
  ASSUME CyclesTyped, NEW R
  PROVE  Revoked(R) \in [Cycles -> Claims]
  BY DEF CyclesTyped, Revoked, Claims, Spent

LEMMA SurroundingsTyped ==
  ASSUME TypeOK, Surroundings
  PROVE  TypeOK'
  <1> USE ActivationAssumption
  <1>1. Change => changes' \in 0 .. MaxChanges
    BY DEF Change, TypeOK
  <1>2. ASSUME NEW r \in Rules, Disable(r) \/ Enable(r) \/ GrantLost(r) \/ ConditionTurns(r)
        PROVE  TypeOK'
    <2>1. CASE Disable(r)
      BY <1>1, <2>1, RevokedTyped, TypeParts
      DEF Disable, TypeOK, execution, records, deliveries, pass
    <2>2. CASE Enable(r)
      BY <1>1, <2>2 DEF Enable, TypeOK, execution, records, deliveries, cycles, pass
    <2>3. CASE GrantLost(r)
      BY <1>1, <2>3 DEF GrantLost, TypeOK, execution, records, deliveries, cycles, pass
    <2>4. CASE ConditionTurns(r)
      BY <1>1, <2>4 DEF ConditionTurns, TypeOK, execution, records, deliveries, cycles, pass
    <2> QED
      BY <1>2, <2>1, <2>2, <2>3, <2>4
  <1>3. ASSUME NEW w \in Workspaces, SwitchWorkspace(w) PROVE TypeOK'
    BY <1>1, <1>3 DEF SwitchWorkspace, TypeOK, execution, records, deliveries, cycles, pass
  <1>4. ASSUME NEW n \in Runs, DeleteJob(n) PROVE TypeOK'
    BY <1>1, <1>4 DEF DeleteJob, TypeOK, execution, deliveries, cycles, rules, pass
  <1>5. CASE SessionEnds
    BY <1>1, <1>5 DEF SessionEnds, TypeOK, records, deliveries, cycles, rules, pass
  <1>6. CASE Crash
    <2>1. phase' \in [Runs -> Phases]
      BY <1>6 DEF Crash, TypeOK, Phases
    <2>2. pc' \in Stages /\ beats' \in SUBSET Cycles /\ batch' \in SUBSET Facts
          /\ scanned' \in SUBSET Cycles /\ more' \in BOOLEAN
      BY <1>6 DEF Crash, Stages
    <2> QED
      BY <1>1, <1>6, <2>1, <2>2 DEF Crash, TypeOK, records, deliveries, cycles, rules
  <1> QED
    BY <1>2, <1>3, <1>4, <1>5, <1>6 DEF Surroundings

-----------------------------------------------------------------------------
(* The maintenance pass.                                                   *)

LEMMA GiveBackTyped ==
  ASSUME DeliveriesTyped, NEW F, GiveBack(F)
  PROVE  DeliveriesTyped'
  BY ActivationAssumption DEF GiveBack, DeliveriesTyped, Deliveries, Undelivered, Settled

LEMMA SettleTyped ==
  ASSUME DeliveriesTyped, NEW n \in Runs, NEW s \in Sequences,
         NEW state \in Settled, Settle(n, s, state)
  PROVE  DeliveriesTyped'
  <1>1. outbox' \in [Facts -> Deliveries]
    BY DEF Settle, DeliveriesTyped, Deliveries
  <1>2. attempts' \in [Facts -> 0 .. MaxAttempts]
    <2>1. attempts' = [attempts EXCEPT ![<<n, s>>] = 0] /\ 0 \in 0 .. MaxAttempts
      BY ActivationAssumption DEF Settle
    <2> QED
      BY <2>1 DEF DeliveriesTyped
  <1> QED
    BY <1>1, <1>2 DEF DeliveriesTyped

LEMMA ClaimBatchTyped ==
  ASSUME TypeOK, Counted, ClaimBatch
  PROVE  TypeOK'
  <1> USE ActivationAssumption
  <1> DEFINE due == {f \in Facts : outbox[f] \in {"pending", "lapsed"}}
             over(rows) == {f \in rows : outbox[f] = "lapsed" /\ attempts[f] >= MaxAttempts}
  <1>1. PICK rows \in SUBSET due :
          /\ batch' = rows \ over(rows)
          /\ outbox' = [f \in Facts |-> IF f \in over(rows) THEN "dead"
                                        ELSE IF f \in rows THEN "processing" ELSE outbox[f]]
          /\ attempts' = [f \in Facts |-> IF f \in over(rows) THEN 0
                                          ELSE IF f \in rows THEN attempts[f] + 1
                                          ELSE attempts[f]]
          /\ more' = (more \/ Cardinality(due) > Batch)
    BY DEF ClaimBatch
  <1>2. outbox' \in [Facts -> Deliveries] /\ batch' \in SUBSET Facts /\ more' \in BOOLEAN
    BY <1>1 DEF TypeOK, Deliveries, Undelivered, Settled
  <1>3. attempts' \in [Facts -> 0 .. MaxAttempts]
    <2>1. \A f \in Facts : attempts[f] \in 0 .. MaxAttempts
      BY DEF TypeOK
    <2>2. \A f \in rows : f \in over(rows) \/ attempts[f] < MaxAttempts
      BY <2>1 DEF Counted
    <2> QED
      BY <1>1, <2>1, <2>2
  <1> QED
    BY <1>2, <1>3 DEF ClaimBatch, TypeOK, Stages, execution, records, cycles, rules

LEMMA ConsumeTyped ==
  ASSUME TypeOK, NEW n \in Runs, NEW s \in Sequences, Consume(n, s)
  PROVE  TypeOK'
  <1> USE ActivationAssumption
  <1> DEFINE lost == enabled \ granted
  <1>1. DeliveriesTyped'
    <2>1. Settle(n, s, "delivered")
      BY DEF Consume
    <2> QED
      BY <2>1, SettleTyped, TypeParts DEF Settled
  <1>2. claim' \in [Cycles -> Claims]
    <2>1. \A c \in Cycles : claim'[c] \in {"deactivated", "active", Revoked(lost)[c]}
      BY DEF Consume
    <2>2. Revoked(lost) \in [Cycles -> Claims]
      BY RevokedTyped, TypeParts
    <2>3. claim' = [c \in Cycles |-> claim'[c]]
      BY DEF Consume
    <2> QED
      BY <2>1, <2>2, <2>3 DEF Claims, Spent
  <1>3. cursor' \in [Cycles -> 0 .. MaxFacts]
    BY DEF Consume, TypeOK, Sequences
  <1>4. lease' \in [Cycles -> Leases]
    BY DEF Consume, TypeOK, Leases, Valid
  <1>5. ledger' \in [Entries -> Outcomes]
    BY DEF Consume, TypeOK, Outcomes, Barriers
  <1>6. CyclesTyped'
    BY <1>2, <1>3, <1>4, <1>5 DEF CyclesTyped
  <1>7. SetsTyped' /\ RunsTyped'
    BY DEF Consume, TypeOK, SetsTyped, RunsTyped, execution, records
  <1> QED
    BY <1>1, <1>6, <1>7 DEF TypeOK, SetsTyped, RunsTyped, DeliveriesTyped, CyclesTyped

LEMMA DeliveryTyped ==
  ASSUME TypeOK, NEW n \in Runs, NEW s \in Sequences, Delivery(n, s)
  PROVE  TypeOK'
  <1> USE ActivationAssumption
  <1>1. CASE Consume(n, s)
    BY <1>1, ConsumeTyped
  <1>2. CASE Bury(n, s) \/ Retry(n, s) \/ LeaseLost(n, s)
    <2>1. DeliveriesTyped'
      BY <1>2, SettleTyped, GiveBackTyped, TypeParts
      DEF Bury, Retry, LeaseLost, Settled, DeliveriesTyped, deliveries
    <2>2. batch' \in SUBSET Facts /\ pc' \in Stages /\ more' \in BOOLEAN
      BY <1>2 DEF Bury, Retry, LeaseLost, TypeOK, Stages
    <2>3. Undone
      BY <1>2 DEF Bury, Retry, LeaseLost
    <2> QED
      BY <2>1, <2>2, <2>3 DEF Undone, TypeOK, DeliveriesTyped, execution, records, cycles, rules
  <1> QED
    BY <1>1, <1>2 DEF Delivery

LEMMA PassTyped ==
  ASSUME TypeOK, Counted, Pass
  PROVE  TypeOK'
  <1> USE ActivationAssumption
  <1>1. CASE BeginPass
    BY <1>1 DEF BeginPass, Held, TypeOK, Stages, execution, records, deliveries, cycles, rules
  <1>2. ASSUME NEW r \in Rules, NEW n \in Runs, Renew(r, n) PROVE TypeOK'
    BY <1>2 DEF Renew, TypeOK, Leases, Valid, execution, records, deliveries, rules
  <1>3. CASE Requeue
    <2>1. DeliveriesTyped'
      BY <1>3, GiveBackTyped, TypeParts DEF Requeue
    <2> QED
      BY <1>3, <2>1 DEF Requeue, TypeOK, DeliveriesTyped, Stages, execution, records, cycles, rules
  <1>4. CASE ClaimBatch
    BY <1>4, ClaimBatchTyped
  <1>5. ASSUME NEW n \in Runs, NEW s \in Sequences, Delivery(n, s) PROVE TypeOK'
    BY <1>5, DeliveryTyped
  <1>6. CASE Purge
    <2>1. outbox' \in [Facts -> Deliveries]
      BY <1>6 DEF Purge, TypeOK, Deliveries
    <2> QED
      BY <1>6, <2>1 DEF Purge, TypeOK, Stages, execution, records, cycles, rules
  <1>7. CASE Recover
    <2>1. claim' \in [Cycles -> Claims] /\ lease' \in [Cycles -> Leases]
      BY <1>7 DEF Recover, TypeOK, Claims, Spent, Leases
    <2>2. scanned' \in SUBSET Cycles /\ pc' \in Stages
      BY <1>7 DEF Recover, Held, TypeOK, Stages
    <2> QED
      BY <1>7, <2>1, <2>2 DEF Recover, TypeOK, execution, records, deliveries, rules
  <1>8. CASE RetainRuns
    BY <1>8 DEF RetainRuns, TypeOK, Stages, execution, deliveries, cycles, rules
  <1>9. CASE RetainActivations
    <2>1. /\ claim' \in [Cycles -> Claims] /\ cursor' \in [Cycles -> 0 .. MaxFacts]
          /\ ledger' \in [Entries -> Outcomes]
      BY <1>9 DEF RetainActivations, TypeOK, Claims, Outcomes
    <2> QED
      BY <1>9, <2>1 DEF RetainActivations, TypeOK, Stages, execution, records, deliveries, rules
  <1>10. CASE Defer
    BY <1>10 DEF Defer, TypeOK, Stages, execution, records, deliveries, cycles, rules
  <1> QED
    BY <1>1, <1>2, <1>3, <1>4, <1>5, <1>6, <1>7, <1>8, <1>9, <1>10 DEF Pass

LEMMA TypeStep ==
  ASSUME TypeOK, Counted, [Next]_vars
  PROVE  TypeOK'
  <1>1. CASE Next
    BY <1>1, ExecutorTyped, TimeTyped, SurroundingsTyped, PassTyped DEF Next
  <1>2. CASE UNCHANGED vars
    BY <1>2 DEF TypeOK, vars, execution, records, deliveries, cycles, rules, pass
  <1> QED
    BY <1>1, <1>2

-----------------------------------------------------------------------------
Consumption == \E n \in Runs, s \in Sequences : Consume(n, s)

(* What no step but the executor's does to the delivery of a fact.         *)
Onward(f) ==
  /\ outbox'[f] = "absent" <=> outbox[f] = "absent"
  /\ outbox'[f] \in Undelivered => outbox[f] \in Undelivered
  /\ outbox[f] \in {"delivered", "purged"} => outbox'[f] \in {"delivered", "purged"}
  /\ outbox'[f] = "delivered" => outbox[f] = "delivered" \/ Consumption

LEMMA GiveBackOnward ==
  ASSUME TypeOK, NEW F, \A f \in F : outbox[f] \in Undelivered, GiveBack(F), NEW f \in Facts
  PROVE  Onward(f)
  BY DEF GiveBack, Onward, Undelivered

LEMMA DeliveryOnward ==
  ASSUME TypeOK, NEW n \in Runs, NEW s \in Sequences, Delivery(n, s), NEW f \in Facts
  PROVE  Onward(f)
  <1>1. CASE Consume(n, s)
    <2>1. outbox[<<n, s>>] = "processing" /\ outbox' = [outbox EXCEPT ![<<n, s>>] = "delivered"]
      BY <1>1 DEF Consume, Settle
    <2>2. Consumption
      BY <1>1 DEF Consumption
    <2> QED
      BY <2>1, <2>2 DEF Onward, TypeOK, Undelivered
  <1>2. CASE Bury(n, s)
    <2>1. outbox[<<n, s>>] = "processing" /\ outbox' = [outbox EXCEPT ![<<n, s>>] = "dead"]
      BY <1>2 DEF Bury, Settle
    <2> QED
      BY <2>1 DEF Onward, TypeOK, Undelivered
  <1>3. CASE Retry(n, s)
    BY <1>3, GiveBackOnward DEF Retry, Undelivered
  <1>4. CASE LeaseLost(n, s)
    BY <1>4 DEF LeaseLost, Onward, deliveries
  <1> QED
    BY <1>1, <1>2, <1>3, <1>4 DEF Delivery

LEMMA PassOnward ==
  ASSUME TypeOK, Pass, NEW f \in Facts
  PROVE  Onward(f)
  <1>1. CASE Requeue
    BY <1>1, GiveBackOnward DEF Requeue, Undelivered
  <1>2. CASE ClaimBatch
    <2> DEFINE due == {g \in Facts : outbox[g] \in {"pending", "lapsed"}}
    <2>1. PICK rows \in SUBSET due :
            outbox' = [g \in Facts |->
              IF g \in {h \in rows : outbox[h] = "lapsed" /\ attempts[h] >= MaxAttempts} THEN "dead"
              ELSE IF g \in rows THEN "processing" ELSE outbox[g]]
      BY <1>2 DEF ClaimBatch
    <2> QED
      BY <2>1 DEF Onward, Undelivered
  <1>3. ASSUME NEW n \in Runs, NEW s \in Sequences, Delivery(n, s) PROVE Onward(f)
    BY <1>3, DeliveryOnward
  <1>4. CASE Purge
    BY <1>4 DEF Purge, Onward, Settled, Undelivered
  <1>5. CASE UNCHANGED deliveries
    BY <1>5 DEF Onward, deliveries
  <1> QED
    BY <1>1, <1>2, <1>3, <1>4, <1>5
    DEF Pass, BeginPass, Renew, Recover, RetainRuns, RetainActivations, Defer

LEMMA OutsideOnward ==
  ASSUME TypeOK, Time \/ Surroundings, NEW f \in Facts
  PROVE  Onward(f)
  <1>1. ASSUME NEW g \in Facts, DeliveryLapses(g) PROVE Onward(f)
    BY <1>1 DEF DeliveryLapses, Onward, TypeOK, Undelivered
  <1>2. CASE UNCHANGED outbox
    BY <1>2 DEF Onward
  <1> QED
    BY <1>1, <1>2 DEF Time, LeaseAges, HorizonPasses, Surroundings, Disable, Enable, GrantLost,
       ConditionTurns, SwitchWorkspace, DeleteJob, SessionEnds, Crash, deliveries

(* A step of the executor writes at most one fact, the next of its run.    *)
Appends(n) ==
  /\ written[n] + 1 \in Sequences
  /\ written' = [written EXCEPT ![n] = @ + 1]
  /\ outbox' = [outbox EXCEPT ![<<n, written[n] + 1>>] = "pending"]
  /\ attempts' = attempts

LEMMA ExecutorWrites ==
  ASSUME TypeOK, AliveRuns, NEW n \in Runs, Executor(n)
  PROVE  /\ \A m \in Runs \ {n} : phase'[m] = phase[m]
         /\ phase[n] # "ended"
         /\ \/ Appends(n) /\ n \in kept'
            \/ UNCHANGED <<written, deliveries>> /\ phase'[n] # "ended"
         /\ UNCHANGED <<cycles, rules, deleted>>
         /\ kept \in SUBSET kept'
         /\ alive' \in SUBSET (alive \cup {n})
         /\ n \in alive' => phase'[n] = "running"
  <1>1. written[n] \in 0 .. MaxFacts
    BY DEF TypeOK
  <1>2. Append(n) => Appends(n)
    BY <1>1, ActivationAssumption DEF Append, Appends, Sequences
  <1>3. UNCHANGED <<cycles, rules, deleted>> /\ kept \in SUBSET kept'
    BY DEF Executor, Queue, Register, Write, Close, End, EndUnrecorded, Append,
           TypeOK, records
  <1>4. phase[n] # "ended" /\ \A m \in Runs \ {n} : phase'[m] = phase[m]
    BY DEF Executor, Queue, Register, Write, Close, End, EndUnrecorded, TypeOK, execution
  <1>5. /\ alive' \in SUBSET (alive \cup {n})
        /\ n \in alive' => phase'[n] = "running"
    BY DEF Executor, Queue, Register, Write, Close, End, EndUnrecorded,
           TypeOK, AliveRuns, execution
  <1>6. \/ Appends(n) /\ n \in kept'
        \/ UNCHANGED <<written, deliveries>> /\ phase'[n] # "ended"
    BY <1>2 DEF Executor, Queue, Register, Write, Close, End, EndUnrecorded, TypeOK, records,
       execution
  <1> QED
    BY <1>3, <1>4, <1>5, <1>6

-----------------------------------------------------------------------------
(* A claim that is active after a step which is no consumption was active  *)
(* before it, and on the same grounds.                                     *)
Quiet(r, n) ==
  claim'[<<r, n>>] = "active" =>
    /\ claim[<<r, n>>] = "active" /\ cursor'[<<r, n>>] = cursor[<<r, n>>]
    /\ lease'[<<r, n>>] \in Valid => lease[<<r, n>>] \in Valid
    /\ ledger'[<<r, n, cursor[<<r, n>>]>>] = ledger[<<r, n, cursor[<<r, n>>]>>]
    /\ r \in enabled => r \in enabled'

(* What recovery does to the cycles it rules over.                         *)
TakenBack(ruled) ==
  /\ claim' = [c \in Cycles |-> IF c \in ruled /\ claim[c] = "active"
                                THEN "inactive" ELSE claim[c]]
  /\ lease' = [c \in Cycles |-> IF c \in ruled THEN "none" ELSE lease[c]]

LEMMA RecoverTakes ==
  ASSUME Recover
  PROVE  \E ruled \in SUBSET Cycles : TakenBack(ruled)
  <1>1. PICK page \in SUBSET (Held \ scanned) :
          /\ claim' = [c \in Cycles |->
               IF c \in {d \in page : ~LiveClaim(d[1], d[2])} /\ claim[c] = "active"
               THEN "inactive" ELSE claim[c]]
          /\ lease' = [c \in Cycles |->
               IF c \in {d \in page : ~LiveClaim(d[1], d[2])} THEN "none" ELSE lease[c]]
    BY DEF Recover
  <1>2. {d \in page : ~LiveClaim(d[1], d[2])} \in SUBSET Cycles
    BY DEF Held
  <1> QED
    BY <1>1, <1>2 DEF TakenBack

LEMMA QuietSteps ==
  ASSUME TypeOK, LedgerAgrees, [Next]_vars, ~Consumption, NEW r \in Rules, NEW n \in Runs
  PROVE  Quiet(r, n)
  <1>0. <<r, n>> \in Cycles
    BY DEF Cycles
  <1>1. CASE UNCHANGED <<cycles, rules>>
    BY <1>1 DEF Quiet, cycles, rules
  <1>2. CASE \E m \in Runs : Executor(m)
    BY <1>1, <1>2 DEF Executor, Queue, Register, Write, Close, End, EndUnrecorded, Append
  <1>3. CASE Time
    <2>1. ASSUME NEW c \in Cycles, LeaseAges(c) PROVE Quiet(r, n)
      BY <2>1 DEF LeaseAges, Quiet, TypeOK, Valid, rules
    <2> QED
      BY <1>1, <1>3, <2>1 DEF Time, DeliveryLapses, HorizonPasses
  <1>4. CASE Surroundings
    <2>1. ASSUME NEW q \in Rules, Disable(q) PROVE Quiet(r, n)
      <3>1. /\ claim'[<<r, n>>] = IF r = q /\ claim[<<r, n>>] = "active"
                                  THEN "stale" ELSE claim[<<r, n>>]
            /\ enabled' = enabled \ {q} /\ UNCHANGED <<cursor, lease, ledger>>
        BY <1>0, <2>1 DEF Disable, Revoked
      <3> QED
        BY <3>1 DEF Quiet
    <2>2. ASSUME NEW q \in Rules, Enable(q) PROVE Quiet(r, n)
      BY <2>2 DEF Enable, Quiet, cycles
    <2> QED
      BY <1>1, <1>4, <2>1, <2>2 DEF Surroundings, GrantLost, ConditionTurns, SwitchWorkspace,
         DeleteJob, SessionEnds, Crash, Quiet, cycles, rules
  <1>5. CASE Pass
    <2>1. ASSUME NEW q \in Rules, NEW m \in Runs, Renew(q, m) PROVE Quiet(r, n)
      BY <2>1 DEF Renew, LiveClaim, Effective, Quiet, TypeOK, rules
    <2>2. CASE Recover
      <3>1. PICK ruled \in SUBSET Cycles : TakenBack(ruled)
        BY <2>2, RecoverTakes
      <3> QED
        BY <1>0, <2>2, <3>1 DEF TakenBack, Recover, Quiet, Valid, rules
    <2>3. CASE RetainActivations
      <3>1. claim'[<<r, n>>] = "active" =>
              claim[<<r, n>>] = "active" /\ cursor'[<<r, n>>] = cursor[<<r, n>>]
        <4>1. PICK gone \in SUBSET {c \in Cycles : claim[c] \in Spent} :
                /\ claim' = [c \in Cycles |-> IF c \in gone THEN "none" ELSE claim[c]]
                /\ cursor' = [c \in Cycles |-> IF c \in gone THEN 0 ELSE cursor[c]]
          BY <2>3 DEF RetainActivations
        <4> QED
          BY <1>0, <4>1 DEF Spent
      <3>2. claim[<<r, n>>] = "active" =>
              /\ <<r, n, cursor[<<r, n>>]>> \in Entries
              /\ ledger'[<<r, n, cursor[<<r, n>>]>>] = ledger[<<r, n, cursor[<<r, n>>]>>]
        BY <2>3 DEF RetainActivations, TypeOK, Entries, LedgerAgrees
      <3> QED
        BY <2>3, <3>1, <3>2 DEF RetainActivations, Quiet, rules
    <2>4. CASE \E m \in Runs, s \in Sequences : Delivery(m, s)
      BY <1>1, <2>4 DEF Consumption, Delivery, Bury, Retry, LeaseLost, Undone
    <2> QED
      BY <1>1, <1>5, <2>1, <2>2, <2>3, <2>4
      DEF Pass, BeginPass, Requeue, ClaimBatch, Purge, RetainRuns, Defer
  <1> QED
    BY <1>1, <1>2, <1>3, <1>4, <1>5 DEF Next, vars

(* What a consumption does to one cycle: it moves it, or leaves it.        *)
Taken(r, n, s) == Heeds(r, n, s) /\ Moves(r, n, s)

LEMMA ConsumeMoves ==
  ASSUME TypeOK, NEW n \in Runs, NEW s \in Sequences, Consume(n, s),
         NEW r \in Rules, Taken(r, n, s)
  PROVE  /\ claim'[<<r, n>>] = IF IsTerminal(n, s) THEN "deactivated" ELSE "active"
         /\ cursor'[<<r, n>>] = s
         /\ lease'[<<r, n>>] = IF IsTerminal(n, s) THEN "none"
                              ELSE IF claim[<<r, n>>] = "none" THEN "fresh" ELSE lease[<<r, n>>]
         /\ ledger'[<<r, n, s>>] = IF IsTerminal(n, s) THEN "deactivate" ELSE "activate"
         /\ ~IsTerminal(n, s) => Proved(r, n)
         /\ r \in enabled'
  BY DEF Taken, Consume, TypeOK, Cycles, Entries, Refuses, Heeds

LEMMA ConsumeLeaves ==
  ASSUME TypeOK, NEW n \in Runs, NEW s \in Sequences, Consume(n, s),
         NEW r \in Rules, NEW m \in Runs, m # n \/ ~Taken(r, n, s)
  PROVE  /\ claim'[<<r, m>>] = IF r \in enabled \ granted /\ claim[<<r, m>>] = "active"
                              THEN "stale" ELSE claim[<<r, m>>]
         /\ cursor'[<<r, m>>] = cursor[<<r, m>>]
         /\ lease'[<<r, m>>] = lease[<<r, m>>]
         /\ \A t \in Sequences : ledger[<<r, m, t>>] # "none" =>
              ledger'[<<r, m, t>>] = ledger[<<r, m, t>>]
         /\ \A t \in Sequences : <<m, t>> # <<n, s>> =>
              ledger'[<<r, m, t>>] = ledger[<<r, m, t>>]
         /\ r \in enabled \cap granted => r \in enabled'
  <1>1. <<r, m>> \in Cycles /\ \A t \in Sequences : <<r, m, t>> \in Entries
    BY DEF Cycles, Entries
  <1>2. claim'[<<r, m>>] = IF r \in enabled \ granted /\ claim[<<r, m>>] = "active"
                          THEN "stale" ELSE claim[<<r, m>>]
    BY <1>1 DEF Taken, Consume, Revoked
  <1>3. cursor'[<<r, m>>] = cursor[<<r, m>>] /\ lease'[<<r, m>>] = lease[<<r, m>>]
    BY <1>1 DEF Taken, Consume
  <1>4. \A t \in Sequences : ledger[<<r, m, t>>] # "none" \/ <<m, t>> # <<n, s>> =>
          ledger'[<<r, m, t>>] = ledger[<<r, m, t>>]
    BY <1>1 DEF Taken, Consume, Known
  <1>5. r \in enabled \cap granted => r \in enabled'
    BY DEF Consume
  <1> QED
    BY <1>2, <1>3, <1>4, <1>5

-----------------------------------------------------------------------------
(* The parts of the invariant, one by one.                                 *)

LEMMA RunsOutside ==
  ASSUME TypeOK, Time \/ Surroundings \/ Pass \/ UNCHANGED vars
  PROVE  /\ written' = written
         /\ UNCHANGED <<phase, alive>> \/ alive' = {}
         /\ \A n \in Runs : phase'[n] = "ended" <=> phase[n] = "ended"
  <1>1. CASE UNCHANGED execution
    BY <1>1 DEF execution
  <1>2. CASE Time
    BY <1>1, <1>2 DEF Time, LeaseAges, DeliveryLapses, HorizonPasses
  <1>3. CASE Surroundings
    <2>1. CASE SessionEnds
      BY <2>1 DEF SessionEnds
    <2>2. CASE Crash
      BY <2>2 DEF Crash, TypeOK
    <2> QED
      BY <1>1, <1>3, <2>1, <2>2
      DEF Surroundings, Disable, Enable, GrantLost, ConditionTurns, SwitchWorkspace, DeleteJob
  <1>4. CASE Pass
    <2>1. ASSUME NEW n \in Runs, NEW s \in Sequences, Delivery(n, s) PROVE UNCHANGED execution
      BY <2>1 DEF Delivery, Consume, Bury, Retry, LeaseLost, Undone
    <2> QED
      BY <1>1, <1>4, <2>1 DEF Pass, BeginPass, Renew, Requeue, ClaimBatch, Purge, Recover,
         RetainRuns, RetainActivations, Defer
  <1> QED
    BY <1>1, <1>2, <1>3, <1>4 DEF vars

LEMMA NumberedStep ==
  ASSUME TypeOK, AliveRuns, Numbered, [Next]_vars
  PROVE  Numbered'
  <1>1. ASSUME NEW n \in Runs, Executor(n) PROVE Numbered'
    <2>1. CASE Appends(n)
      <3>1. /\ \A m \in Runs \ {n} : phase'[m] = phase[m] /\ written'[m] = written[m]
            /\ written'[n] = written[n] + 1 /\ written'[n] \in Sequences
        BY <1>1, <2>1, ExecutorWrites DEF Appends, TypeOK
      <3>2. \A m \in Runs, s \in Sequences :
              outbox'[<<m, s>>] = IF m = n /\ s = written[n] + 1 THEN "pending"
                                 ELSE outbox[<<m, s>>]
        BY <2>1 DEF Appends, TypeOK, Facts
      <3>3. \A m \in Runs : written[m] \in 0 .. MaxFacts
        BY DEF TypeOK
      <3>4. \A m \in Runs, s \in Sequences : outbox'[<<m, s>>] = "absent" <=> s > written'[m]
        <4> SUFFICES ASSUME NEW m \in Runs, NEW s \in Sequences
                     PROVE  outbox'[<<m, s>>] = "absent" <=> s > written'[m]
          OBVIOUS
        <4>1. CASE m = n
          <5>1. outbox[<<n, s>>] = "absent" <=> s > written[n]
            BY DEF Numbered
          <5> QED
            BY <3>1, <3>2, <3>3, <4>1, <5>1, ActivationAssumption DEF Sequences
        <4>2. CASE m # n
          BY <3>1, <3>2, <4>2 DEF Numbered
        <4> QED
          BY <4>1, <4>2
      <3> QED
        BY <3>1, <3>4 DEF Numbered
    <2>2. CASE UNCHANGED <<written, deliveries>> /\ phase'[n] # "ended"
      BY <1>1, <2>2, ExecutorWrites DEF Numbered, deliveries
    <2> QED
      BY <1>1, <2>1, <2>2, ExecutorWrites
  <1>2. CASE Time \/ Surroundings \/ Pass \/ UNCHANGED vars
    <2>1. \A m \in Runs, s \in Sequences :
            outbox'[<<m, s>>] = "absent" <=> outbox[<<m, s>>] = "absent"
      <3>1. \A f \in Facts : Onward(f) \/ outbox' = outbox
        BY <1>2, OutsideOnward, PassOnward DEF vars, deliveries
      <3> QED
        BY <3>1 DEF Onward, Facts
    <2>2. /\ written' = written
          /\ \A m \in Runs : phase'[m] = "ended" => phase[m] = "ended"
      BY <1>2, RunsOutside
    <2> QED
      BY <2>1, <2>2 DEF Numbered
  <1> QED
    BY <1>1, <1>2 DEF Next

LEMMA AliveStep ==
  ASSUME TypeOK, AliveRuns, [Next]_vars
  PROVE  AliveRuns'
  <1>1. ASSUME NEW n \in Runs, Executor(n) PROVE AliveRuns'
    BY <1>1, ExecutorWrites DEF AliveRuns, TypeOK
  <1>2. CASE Time \/ Surroundings \/ Pass \/ UNCHANGED vars
    BY <1>2, RunsOutside DEF AliveRuns
  <1> QED
    BY <1>1, <1>2 DEF Next

LEMMA BareStep ==
  ASSUME TypeOK, InactiveIsBare, [Next]_vars
  PROVE  InactiveIsBare'
  <1>0. CASE UNCHANGED <<claim, lease>>
    BY <1>0 DEF InactiveIsBare
  <1>1. ASSUME NEW c \in Cycles, LeaseAges(c) PROVE InactiveIsBare'
    BY <1>1 DEF LeaseAges, InactiveIsBare, TypeOK, Valid
  <1>2. ASSUME NEW q \in Rules, Disable(q) PROVE InactiveIsBare'
    BY <1>2 DEF Disable, Revoked, InactiveIsBare
  <1>3. ASSUME NEW q \in Rules, NEW m \in Runs, Renew(q, m) PROVE InactiveIsBare'
    BY <1>3 DEF Renew, LiveClaim, Effective, InactiveIsBare, TypeOK
  <1>4. ASSUME NEW n \in Runs, NEW s \in Sequences, Consume(n, s) PROVE InactiveIsBare'
    <2>1. ASSUME NEW r \in Rules, NEW m \in Runs
          PROVE  claim'[<<r, m>>] = "inactive" => lease'[<<r, m>>] = "none"
      <3>1. <<r, m>> \in Cycles
        BY DEF Cycles
      <3>2. CASE m = n /\ Taken(r, n, s)
        BY <1>4, <3>2, ConsumeMoves
      <3>3. CASE m # n \/ ~Taken(r, n, s)
        BY <1>4, <3>1, <3>3, ConsumeLeaves DEF InactiveIsBare
      <3> QED
        BY <3>2, <3>3
    <2> QED
      BY <2>1 DEF InactiveIsBare, Cycles
  <1>5. CASE Recover
    BY <1>5, RecoverTakes DEF TakenBack, InactiveIsBare
  <1>6. CASE RetainActivations
    <2>1. \A c \in Cycles : claim'[c] = "inactive" => claim[c] = "inactive"
      <3>1. PICK gone \in SUBSET {c \in Cycles : claim[c] \in Spent} :
              claim' = [c \in Cycles |-> IF c \in gone THEN "none" ELSE claim[c]]
        BY <1>6 DEF RetainActivations
      <3> QED
        BY <3>1
    <2> QED
      BY <1>6, <2>1 DEF RetainActivations, InactiveIsBare
  <1> QED
    BY <1>0, <1>1, <1>2, <1>3, <1>4, <1>5, <1>6
    DEF Next, Executor, Queue, Register, Write, Close, End, EndUnrecorded, Append,
        Time, DeliveryLapses, HorizonPasses, Surroundings, Enable,
        GrantLost, ConditionTurns, SwitchWorkspace, DeleteJob, SessionEnds, Crash,
        Pass, BeginPass, Requeue, ClaimBatch, Delivery, Bury, Retry,
        LeaseLost, Undone, Purge, RetainRuns, Defer, vars, cycles

LEMMA GiveBackCounted ==
  ASSUME TypeOK, Counted, NEW F, GiveBack(F)
  PROVE  Counted'
  <1>1. \A f \in Facts : attempts[f] \in 0 .. MaxAttempts
    BY DEF TypeOK
  <1> QED
    BY <1>1, ActivationAssumption DEF GiveBack, Counted

LEMMA CountedStep ==
  ASSUME TypeOK, AliveRuns, Numbered, Counted, [Next]_vars
  PROVE  Counted'
  <1> USE ActivationAssumption
  <1>0. CASE UNCHANGED deliveries
    BY <1>0 DEF Counted, deliveries
  <1>1. ASSUME NEW n \in Runs, Executor(n) PROVE Counted'
    <2>1. CASE Appends(n)
      <3>1. outbox[<<n, written[n] + 1>>] = "absent" /\ <<n, written[n] + 1>> \in Facts
        BY <2>1 DEF Appends, Numbered, TypeOK, Facts
      <3> QED
        BY <2>1, <3>1 DEF Appends, Counted, TypeOK
    <2> QED
      BY <1>0, <1>1, <2>1, ExecutorWrites
  <1>2. ASSUME NEW g \in Facts, DeliveryLapses(g) PROVE Counted'
    BY <1>2 DEF DeliveryLapses, Counted, TypeOK
  <1>3. CASE Requeue
    BY <1>3, GiveBackCounted DEF Requeue
  <1>4. CASE ClaimBatch
    <2>1. PICK rows \in SUBSET {f \in Facts : outbox[f] \in {"pending", "lapsed"}} :
            LET over == {f \in rows : outbox[f] = "lapsed" /\ attempts[f] >= MaxAttempts}
            IN  /\ outbox' = [f \in Facts |-> IF f \in over THEN "dead"
                                            ELSE IF f \in rows THEN "processing" ELSE outbox[f]]
                /\ attempts' = [f \in Facts |-> IF f \in over THEN 0
                                              ELSE IF f \in rows THEN attempts[f] + 1
                                              ELSE attempts[f]]
      BY <1>4 DEF ClaimBatch
    <2> QED
      BY <2>1 DEF Counted
  <1>5. ASSUME NEW n \in Runs, NEW s \in Sequences, Delivery(n, s) PROVE Counted'
    <2>1. ASSUME NEW state \in Settled, Settle(n, s, state) PROVE Counted'
      <3>1. \A f \in Facts : /\ outbox'[f] = IF f = <<n, s>> THEN state ELSE outbox[f]
                             /\ attempts'[f] = IF f = <<n, s>> THEN 0 ELSE attempts[f]
        BY <2>1 DEF Settle, TypeOK
      <3> QED
        BY <3>1 DEF Counted
    <2>2. CASE Consume(n, s) \/ Bury(n, s)
      BY <2>1, <2>2 DEF Consume, Bury, Settled
    <2>3. CASE Retry(n, s)
      BY <2>3, GiveBackCounted DEF Retry
    <2> QED
      BY <1>0, <1>5, <2>2, <2>3 DEF Delivery, LeaseLost
  <1>6. CASE Purge
    <2>1. /\ UNCHANGED attempts
          /\ \A f \in Facts : outbox'[f] = outbox[f] \/ outbox[f] \in Settled
      BY <1>6 DEF Purge
    <2> QED
      BY <2>1 DEF Counted, Settled
  <1>7. CASE Surroundings
    BY <1>0, <1>7 DEF Surroundings, Disable, Enable, GrantLost,
       ConditionTurns, SwitchWorkspace, DeleteJob, SessionEnds, Crash
  <1>8. CASE Time
    BY <1>0, <1>2, <1>8 DEF Time, LeaseAges, HorizonPasses
  <1>9. CASE Pass
    BY <1>0, <1>3, <1>4, <1>5, <1>6, <1>9
    DEF Pass, BeginPass, Renew, Recover, RetainRuns, RetainActivations, Defer
  <1> QED
    BY <1>0, <1>1, <1>7, <1>8, <1>9 DEF Next, vars

LEMMA EnabledStep ==
  ASSUME TypeOK, ActiveIsEnabled, LedgerAgrees, [Next]_vars
  PROVE  ActiveIsEnabled'
  <1> SUFFICES ASSUME NEW r \in Rules, NEW n \in Runs, claim'[<<r, n>>] = "active"
               PROVE  r \in enabled'
    BY DEF ActiveIsEnabled, Cycles
  <1>1. <<r, n>> \in Cycles
    BY DEF Cycles
  <1>2. ASSUME NEW m \in Runs, NEW s \in Sequences, Consume(m, s) PROVE r \in enabled'
    <2>1. CASE m = n /\ Taken(r, m, s)
      BY <1>2, <2>1, ConsumeMoves
    <2>2. CASE m # n \/ ~Taken(r, m, s)
      BY <1>1, <1>2, <2>2, ConsumeLeaves DEF ActiveIsEnabled
    <2> QED
      BY <2>1, <2>2
  <1>3. CASE ~Consumption
    BY <1>1, <1>3, QuietSteps DEF Quiet, ActiveIsEnabled
  <1> QED
    BY <1>2, <1>3 DEF Consumption

LEMMA LedgerStep ==
  ASSUME TypeOK, AliveRuns, Numbered, LedgerAgrees, [Next]_vars
  PROVE  LedgerAgrees'
  <1>1. ASSUME NEW r \in Rules, NEW n \in Runs, NEW s \in Sequences,
               ledger'[<<r, n, s>>] # "none"
        PROVE  outbox'[<<n, s>>] \in {"delivered", "purged"}
    <2>0. <<n, s>> \in Facts /\ <<r, n, s>> \in Entries
      BY DEF Facts, Entries
    <2>1. CASE ledger[<<r, n, s>>] # "none"
      <3>1. outbox[<<n, s>>] \in {"delivered", "purged"}
        BY <2>1 DEF LedgerAgrees
      <3>2. ASSUME NEW m \in Runs, Executor(m) PROVE outbox'[<<n, s>>] = outbox[<<n, s>>]
        <4>1. CASE Appends(m)
          <5>1. outbox[<<m, written[m] + 1>>] = "absent"
            BY <4>1 DEF Appends, Numbered, TypeOK
          <5> QED
            BY <2>0, <3>1, <4>1, <5>1 DEF Appends, TypeOK
        <4> QED
          BY <3>2, <4>1, ExecutorWrites DEF deliveries
      <3>3. CASE UNCHANGED vars
        BY <3>1, <3>3 DEF vars, deliveries
      <3> QED
        BY <2>0, <3>1, <3>2, <3>3, PassOnward, OutsideOnward DEF Next, Onward
    <2>2. CASE ledger[<<r, n, s>>] = "none"
      <3>1. ASSUME NEW m \in Runs, NEW t \in Sequences, Consume(m, t)
            PROVE  outbox'[<<n, s>>] = "delivered"
        <4>1. <<n, s>> = <<m, t>>
          BY <1>1, <2>0, <2>2, <3>1 DEF Consume
        <4> QED
          BY <2>0, <3>1, <4>1 DEF Consume, Settle, TypeOK
      <3>2. CASE ~Consumption
        <4>1. CASE RetainActivations
          <5>1. PICK aged : ledger' = [e \in Entries |-> IF e \in aged THEN "none" ELSE ledger[e]]
            BY <4>1 DEF RetainActivations
          <5> QED
            BY <1>1, <2>0, <2>2, <5>1
        <4>2. ~RetainActivations => UNCHANGED ledger
          <5>1. Surroundings => UNCHANGED ledger
            BY DEF Surroundings, Disable, Enable, GrantLost,
               ConditionTurns, SwitchWorkspace, DeleteJob, SessionEnds, Crash, cycles
          <5>2. (\E m \in Runs : Executor(m)) \/ Time => UNCHANGED ledger
            BY DEF Executor, Queue, Register, Write, Close, End, EndUnrecorded, Append,
               Time, LeaseAges, DeliveryLapses, HorizonPasses, cycles
          <5>3. Pass /\ ~RetainActivations => UNCHANGED ledger
            BY <3>2 DEF Pass, BeginPass, Renew, Requeue, ClaimBatch, Consumption, Delivery, Bury,
               Retry, LeaseLost, Undone, Purge, Recover, RetainRuns, Defer, cycles
          <5> QED
            BY <5>1, <5>2, <5>3 DEF Next, vars, cycles
        <4> QED
          BY <1>1, <2>2, <4>1, <4>2
      <3> QED
        BY <3>1, <3>2 DEF Consumption
    <2> QED
      BY <2>1, <2>2
  <1>2. ASSUME NEW r \in Rules, NEW n \in Runs, claim'[<<r, n>>] = "active"
        PROVE  /\ cursor'[<<r, n>>] \in Sequences
               /\ ledger'[<<r, n, cursor'[<<r, n>>]>>] = "activate"
    <2>1. ASSUME NEW m \in Runs, NEW s \in Sequences, Consume(m, s)
          PROVE  /\ cursor'[<<r, n>>] \in Sequences
                 /\ ledger'[<<r, n, cursor'[<<r, n>>]>>] = "activate"
      <3>1. CASE m = n /\ Taken(r, m, s)
        <4>1. cursor'[<<r, m>>] = s /\ ledger'[<<r, m, s>>] = "activate"
          BY <1>2, <2>1, <3>1, ConsumeMoves
        <4> QED
          BY <3>1, <4>1
      <3>2. CASE m # n \/ ~Taken(r, m, s)
        BY <1>2, <2>1, <3>2, ConsumeLeaves DEF LedgerAgrees
      <3> QED
        BY <3>1, <3>2
    <2>2. CASE ~Consumption
      BY <1>2, <2>2, QuietSteps DEF Quiet, LedgerAgrees
    <2> QED
      BY <2>1, <2>2 DEF Consumption
  <1> QED
    BY <1>1, <1>2 DEF LedgerAgrees

LEMMA SourceStep ==
  ASSUME TypeOK, AliveRuns, Numbered, LedgerAgrees, SourceStays, [Next]_vars
  PROVE  SourceStays'
  <1> SUFFICES ASSUME NEW r \in Rules, NEW n \in Runs,
                      claim'[<<r, n>>] = "active", lease'[<<r, n>>] \in Valid
               PROVE  outbox'[<<n, cursor'[<<r, n>>]>>] = "delivered"
    BY DEF SourceStays, Effective
  <1>1. ASSUME NEW m \in Runs, NEW s \in Sequences, Consume(m, s)
        PROVE  outbox'[<<n, cursor'[<<r, n>>]>>] = "delivered"
    <2>1. outbox' = [outbox EXCEPT ![<<m, s>>] = "delivered"]
      BY <1>1 DEF Consume, Settle
    <2>2. CASE m = n /\ Taken(r, m, s)
      <3>0. Taken(r, m, s)
        BY <2>2
      <3>1. cursor'[<<r, m>>] = s
        BY <1>1, <3>0, ConsumeMoves
      <3>2. <<m, s>> \in Facts
        BY DEF Facts
      <3> QED
        BY <2>1, <2>2, <3>1, <3>2 DEF TypeOK
    <2>3. CASE m # n \/ ~Taken(r, m, s)
      <3>1. Effective(<<r, n>>) /\ cursor'[<<r, n>>] = cursor[<<r, n>>]
        BY <1>1, <2>3, ConsumeLeaves DEF Effective
      <3> QED
        BY <2>1, <3>1 DEF SourceStays, LedgerAgrees, Effective, TypeOK, Facts
    <2> QED
      BY <2>2, <2>3
  <1>2. CASE ~Consumption
    <2>1. /\ Effective(<<r, n>>) /\ cursor'[<<r, n>>] = cursor[<<r, n>>]
          /\ cursor[<<r, n>>] \in Sequences
      BY <1>2, QuietSteps DEF Quiet, Effective, LedgerAgrees
    <2>2. <<n, cursor[<<r, n>>]>> \in Facts /\ outbox[<<n, cursor[<<r, n>>]>>] = "delivered"
      BY <2>1 DEF Facts, SourceStays
    <2> DEFINE f == <<n, cursor[<<r, n>>]>>
    <2>3. outbox'[f] = "delivered"
      <3>1. ASSUME NEW m \in Runs, Executor(m) PROVE outbox'[f] = "delivered"
        <4>1. CASE Appends(m)
          <5>1. outbox[<<m, written[m] + 1>>] = "absent"
            BY <4>1 DEF Appends, Numbered, TypeOK
          <5> QED
            BY <2>2, <4>1, <5>1 DEF Appends, TypeOK
        <4> QED
          BY <2>2, <3>1, <4>1, ExecutorWrites DEF deliveries
      <3>2. CASE Purge
        <4>1. Sustains(n, cursor[<<r, n>>])
          BY <2>1 DEF Sustains
        <4> QED
          BY <2>2, <3>2, <4>1 DEF Purge
      <3>3. outbox' = outbox \/ Surroundings \/ Time \/ Pass \/ \E m \in Runs : Executor(m)
        BY DEF Next, vars, deliveries
      <3>4. CASE Pass /\ ~Purge
        <4>1. ASSUME NEW F, \A g \in F : outbox[g] \in Undelivered, GiveBack(F)
              PROVE  outbox'[f] = "delivered"
          BY <2>2, <4>1 DEF GiveBack, Undelivered
        <4>2. CASE ClaimBatch
          <5>1. PICK rows \in SUBSET {g \in Facts : outbox[g] \in {"pending", "lapsed"}} :
                  outbox' = [g \in Facts |->
                    IF g \in {h \in rows : outbox[h] = "lapsed" /\ attempts[h] >= MaxAttempts}
                    THEN "dead" ELSE IF g \in rows THEN "processing" ELSE outbox[g]]
            BY <4>2 DEF ClaimBatch
          <5> QED
            BY <2>2, <5>1
        <4>3. CASE Requeue
          BY <4>1, <4>3 DEF Requeue, Undelivered
        <4>4. ASSUME NEW m \in Runs, NEW s \in Sequences, Delivery(m, s)
              PROVE  outbox'[f] = "delivered"
          <5>1. CASE Bury(m, s)
            BY <2>2, <5>1 DEF Bury, Settle, TypeOK
          <5>2. CASE Retry(m, s)
            BY <4>1, <5>2 DEF Retry, Undelivered
          <5>3. CASE LeaseLost(m, s)
            BY <2>2, <5>3 DEF LeaseLost, deliveries
          <5> QED
            BY <1>2, <4>4, <5>1, <5>2, <5>3 DEF Delivery, Consumption
        <4>5. UNCHANGED deliveries => outbox'[f] = "delivered"
          BY <2>2 DEF deliveries
        <4> QED
          BY <3>4, <4>2, <4>3, <4>4, <4>5
          DEF Pass, BeginPass, Renew, Recover, RetainRuns, RetainActivations, Defer
      <3>5. CASE Surroundings \/ Time
        <4>1. ASSUME NEW g \in Facts, DeliveryLapses(g) PROVE outbox'[f] = "delivered"
          BY <2>2, <4>1 DEF DeliveryLapses, TypeOK
        <4>2. UNCHANGED deliveries => outbox'[f] = "delivered"
          BY <2>2 DEF deliveries
        <4> QED
          BY <3>5, <4>1, <4>2 DEF Time, LeaseAges, HorizonPasses, Surroundings, Disable, Enable,
             GrantLost, ConditionTurns, SwitchWorkspace, DeleteJob, SessionEnds, Crash
      <3> QED
        BY <2>2, <3>1, <3>2, <3>3, <3>4, <3>5
    <2> QED
      BY <2>1, <2>3
  <1> QED
    BY <1>1, <1>2 DEF Consumption

LEMMA RunStep ==
  ASSUME TypeOK, AliveRuns, Numbered, LedgerAgrees, RunStays, [Next]_vars
  PROVE  RunStays'
  <1>1. ASSUME NEW n \in Runs, n \in kept \cup deleted
        PROVE  n \in kept' \cup deleted' \/ (RetainRuns /\ Retainable(n))
    <2>0. CASE UNCHANGED records
      BY <1>1, <2>0 DEF records
    <2>1. CASE \E m \in Runs : Executor(m)
      BY <1>1, <2>1, ExecutorWrites
    <2>2. CASE Time
      BY <2>0, <2>2 DEF Time, LeaseAges, DeliveryLapses, HorizonPasses
    <2>3. CASE Surroundings
      <3>1. ASSUME NEW m \in Runs, DeleteJob(m) PROVE n \in kept' \cup deleted'
        BY <1>1, <3>1 DEF DeleteJob
      <3> QED
        BY <2>0, <2>3, <3>1 DEF Surroundings, Disable, Enable, GrantLost, ConditionTurns,
           SwitchWorkspace, SessionEnds, Crash
    <2>4. CASE Pass
      <3>1. CASE RetainRuns
        BY <1>1, <3>1 DEF RetainRuns
      <3>2. ASSUME NEW m \in Runs, NEW s \in Sequences, Delivery(m, s) PROVE UNCHANGED records
        BY <3>2 DEF Delivery, Consume, Bury, Retry, LeaseLost, Undone
      <3> QED
        BY <2>0, <2>4, <3>1, <3>2 DEF Pass, BeginPass, Renew, Requeue, ClaimBatch, Purge,
           Recover, RetainActivations, Defer
    <2> QED
      BY <2>0, <2>1, <2>2, <2>3, <2>4 DEF Next, vars
  <1>2. RetainRuns => UNCHANGED <<execution, deliveries, cycles>>
    BY DEF RetainRuns
  <1>3. ASSUME NEW n \in Runs, NEW s \in Sequences, outbox'[<<n, s>>] \in Undelivered
        PROVE  n \in kept' \cup deleted'
    <2>0. <<n, s>> \in Facts
      BY DEF Facts
    <2>1. CASE outbox[<<n, s>>] \in Undelivered
      <3>1. n \in kept \cup deleted
        BY <2>1 DEF RunStays
      <3>2. ~Retainable(n)
        BY <2>1 DEF Retainable
      <3> QED
        BY <1>1, <3>1, <3>2
    <2>2. CASE outbox[<<n, s>>] \notin Undelivered
      <3>1. PICK m \in Runs : Executor(m)
        BY <1>3, <2>0, <2>2, PassOnward, OutsideOnward DEF Next, Onward, vars, deliveries
      <3>2. Appends(m) /\ m \in kept'
        BY <1>3, <2>2, <3>1, ExecutorWrites DEF deliveries
      <3>3. n = m
        BY <1>3, <2>0, <2>2, <3>2 DEF Appends, TypeOK
      <3> QED
        BY <3>2, <3>3
    <2> QED
      BY <2>1, <2>2
  <1>4. ASSUME NEW r \in Rules, NEW n \in Runs, Effective(<<r, n>>)', phase'[n] # "ended"
        PROVE  n \in kept' \cup deleted'
    <2>1. ASSUME NEW m \in Runs, NEW s \in Sequences, Consume(m, s)
          PROVE  n \in kept' \cup deleted'
      <3>1. kept' = kept /\ deleted' = deleted /\ phase' = phase /\ m \in kept
        BY <2>1 DEF Consume, Verified, records, execution
      <3>2. CASE m = n
        BY <3>1, <3>2
      <3>3. CASE m # n
        <4>1. Effective(<<r, n>>)
          BY <1>4, <2>1, <3>3, ConsumeLeaves DEF Effective
        <4> QED
          BY <1>4, <3>1, <4>1 DEF RunStays
      <3> QED
        BY <3>2, <3>3
    <2>2. CASE ~Consumption
      <3>1. Effective(<<r, n>>)
        BY <1>4, <2>2, QuietSteps DEF Quiet, Effective
      <3>2. phase[n] # "ended"
        BY <1>4, ExecutorWrites, RunsOutside DEF Next
      <3>3. ~Retainable(n)
        BY <3>1, <3>2 DEF Retainable
      <3> QED
        BY <1>1, <3>1, <3>2, <3>3 DEF RunStays
    <2> QED
      BY <2>1, <2>2 DEF Consumption
  <1> QED
    BY <1>3, <1>4 DEF RunStays

LEMMA TerminalStep ==
  ASSUME TypeOK, Numbered, AliveRuns, ActiveIsEnabled, LedgerAgrees, TerminalIsObeyed,
         [Next]_vars
  PROVE  TerminalIsObeyed'
  <1> SUFFICES ASSUME NEW n \in Runs, NEW r \in Rules,
                      phase'[n] = "ended", outbox'[<<n, written'[n]>>] = "delivered"
               PROVE  claim'[<<r, n>>] # "active"
    BY DEF TerminalIsObeyed
  <1>0. <<r, n>> \in Cycles
    BY DEF Cycles
  <1>1. ASSUME NEW m \in Runs, Executor(m) PROVE claim'[<<r, n>>] # "active"
    <2>1. UNCHANGED claim
      BY <1>1, ExecutorWrites DEF cycles
    <2>2. CASE m = n
      <3>1. Appends(n)
        BY <1>1, <2>2, ExecutorWrites
      <3>2. written'[n] = written[n] + 1 /\ outbox'[<<n, written[n] + 1>>] = "pending"
        BY <3>1 DEF Appends, TypeOK, Facts
      <3> QED
        BY <3>2
    <2>3. CASE m # n
      <3>1. phase'[n] = phase[n]
        BY <1>1, <2>3, ExecutorWrites
      <3>2. written'[n] = written[n] /\ written[n] \in Sequences
        <4>1. CASE Appends(m)
          BY <2>3, <3>1, <4>1 DEF Appends, Numbered, TypeOK
        <4> QED
          BY <1>1, <3>1, <4>1, ExecutorWrites DEF Numbered
      <3>3. outbox'[<<n, written[n]>>] = outbox[<<n, written[n]>>]
        <4>1. CASE Appends(m)
          BY <2>3, <3>2, <4>1 DEF Appends, TypeOK, Facts
        <4> QED
          BY <1>1, <4>1, ExecutorWrites DEF deliveries
      <3> QED
        BY <2>1, <3>1, <3>2, <3>3 DEF TerminalIsObeyed
    <2> QED
      BY <2>2, <2>3
  <1>2. CASE Time \/ Surroundings \/ Pass \/ UNCHANGED vars
    <2>1. written'[n] = written[n] /\ phase[n] = "ended" /\ written[n] \in Sequences
      BY <1>2, RunsOutside DEF Numbered
    <2>2. n \notin alive
      BY <2>1 DEF AliveRuns
    <2>3. ASSUME NEW m \in Runs, NEW s \in Sequences, Consume(m, s)
          PROVE  claim'[<<r, n>>] # "active"
      <3>1. CASE m = n /\ Taken(r, m, s)
        <4>1. Taken(r, n, s) /\ Consume(n, s)
          BY <2>3, <3>1
        <4>2. IsTerminal(n, s)
          BY <2>2, <4>1, ConsumeMoves DEF Proved
        <4> QED
          BY <4>1, <4>2, ConsumeMoves
      <3>2. CASE m # n \/ ~Taken(r, m, s)
        <4> SUFFICES ASSUME claim'[<<r, n>>] = "active" PROVE FALSE
          OBVIOUS
        <4>1. claim[<<r, n>>] = "active" /\ r \in enabled \cap granted
          BY <1>0, <2>3, <3>2, ConsumeLeaves DEF ActiveIsEnabled
        <4>2. outbox[<<n, written[n]>>] # "delivered"
          BY <2>1, <4>1 DEF TerminalIsObeyed
        <4>3. m = n /\ s = written[n] /\ outbox[<<n, s>>] = "processing"
          BY <2>1, <2>3, <4>2 DEF Consume, Settle, TypeOK, Facts
        <4>4. Heeds(r, n, s)
          BY <2>1, <4>1, <4>3 DEF Heeds, IsTerminal
        <4>5. /\ cursor[<<r, n>>] \in Sequences
              /\ outbox[<<n, cursor[<<r, n>>]>>] \in {"delivered", "purged"}
          BY <4>1 DEF LedgerAgrees
        <4>6. cursor[<<r, n>>] < s
          BY <4>3, <4>5 DEF Numbered, Sequences, TypeOK
        <4>7. Moves(r, n, s)
          <5>1. ~Known(r, n, s)
            BY <4>3 DEF Known, LedgerAgrees
          <5>2. ~Behind(r, n, s)
            <6>1. ~(s <= cursor[<<r, n>>])
              BY <4>5, <4>6 DEF Sequences
            <6> QED
              BY <4>1, <6>1 DEF Behind
          <5>3. ~Closed(r, n)
            BY <4>1 DEF Closed
          <5> QED
            BY <5>1, <5>2, <5>3 DEF Moves
        <4> QED
          BY <3>2, <4>3, <4>4, <4>7 DEF Taken
      <3> QED
        BY <3>1, <3>2
    <2>4. CASE ~Consumption
      <3>1. claim'[<<r, n>>] = "active" => claim[<<r, n>>] = "active"
        BY <2>4, QuietSteps DEF Quiet
      <3>2. outbox[<<n, written[n]>>] = "delivered"
        <4>1. <<n, written[n]>> \in Facts
          BY <2>1 DEF Facts
        <4> QED
          BY <1>2, <2>1, <2>4, <4>1, PassOnward, OutsideOnward DEF Onward, vars, deliveries
      <3> QED
        BY <2>1, <3>1, <3>2 DEF TerminalIsObeyed
    <2> QED
      BY <2>3, <2>4 DEF Consumption
  <1> QED
    BY <1>1, <1>2 DEF Next

LEMMA SpentStep ==
  ASSUME TypeOK, InactiveIsBare, LedgerAgrees, [Next]_vars,
         NEW c \in Cycles, Begun(c), ~Effective(c)
  PROVE  ~Effective(c)'
  <1> PICK r \in Rules, n \in Runs : c = <<r, n>>
    BY DEF Cycles
  <1> SUFFICES ASSUME claim'[<<r, n>>] = "active", lease'[<<r, n>>] \in Valid PROVE FALSE
    BY DEF Effective
  <1>1. claim[<<r, n>>] # "none" \/ Barrier(r, n) # {}
    BY DEF Begun
  <1>2. ~(claim[<<r, n>>] = "active" /\ lease[<<r, n>>] \in Valid)
    BY DEF Effective
  <1>3. ASSUME NEW m \in Runs, NEW s \in Sequences, Consume(m, s) PROVE FALSE
    <2>1. CASE m = n /\ Taken(r, m, s)
      <3>1. Taken(r, n, s) /\ Consume(n, s)
        BY <1>3, <2>1
      <3>2. ~IsTerminal(n, s) /\ Proved(r, n)
        BY <3>1, ConsumeMoves
      <3>3. claim[<<r, n>>] \in {"none", "active", "inactive"} /\ ~Closed(r, n)
        BY <3>1 DEF Taken, Moves, Closed, TypeOK, Claims, Spent
      <3>4. claim[<<r, n>>] # "none"
        BY <1>1, <3>3 DEF Closed
      <3>5. lease[<<r, n>>] \in Valid
        BY <3>2, <3>4 DEF Proved
      <3> QED
        BY <1>2, <3>3, <3>4, <3>5 DEF InactiveIsBare, Valid
    <2>2. CASE m # n \/ ~Taken(r, m, s)
      BY <1>2, <1>3, <2>2, ConsumeLeaves
    <2> QED
      BY <2>1, <2>2
  <1>4. CASE ~Consumption
    BY <1>2, <1>4, QuietSteps DEF Quiet
  <1> QED
    BY <1>3, <1>4 DEF Consumption

-----------------------------------------------------------------------------
LEMMA IInvInit ==
  Init => IInv
  <1> SUFFICES ASSUME Init PROVE IInv
    OBVIOUS
  <1>1. Numbered
    BY ActivationAssumption DEF Init, Numbered, Facts, Sequences
  <1>2. Counted
    BY ActivationAssumption DEF Init, Counted
  <1>3. AliveRuns /\ InactiveIsBare /\ ActiveIsEnabled
    BY DEF Init, AliveRuns, InactiveIsBare, ActiveIsEnabled
  <1>4. \A r \in Rules, n \in Runs : claim[<<r, n>>] = "none"
    BY DEF Init, Cycles
  <1>5. LedgerAgrees
    BY <1>4 DEF Init, LedgerAgrees, Entries
  <1>6. SourceStays /\ RunStays
    BY <1>4 DEF Init, SourceStays, RunStays, Effective, Facts, Undelivered
  <1>7. TerminalIsObeyed
    BY <1>4 DEF TerminalIsObeyed
  <1> QED
    BY <1>1, <1>2, <1>3, <1>5, <1>6, <1>7, TypeInit DEF IInv

LEMMA IInvStep ==
  IInv /\ [Next]_vars => IInv'
  BY TypeStep, NumberedStep, CountedStep, AliveStep, BareStep, EnabledStep, LedgerStep,
     SourceStep, RunStep, TerminalStep DEF IInv

(* The parts about single entries, put together.                           *)
LEMMA IInvImplies ==
  IInv => SourcesAreKept
  <1> SUFFICES ASSUME IInv PROVE SourcesAreKept
    OBVIOUS
  <1>1. ASSUME NEW c \in Cycles, Effective(c)
        PROVE  /\ outbox[<<c[2], cursor[c]>>] = "delivered"
               /\ ledger[<<c[1], c[2], cursor[c]>>] = "activate"
               /\ phase[c[2]] # "ended" => c[2] \in kept \cup deleted
    <2> PICK r \in Rules, n \in Runs : c = <<r, n>>
      BY DEF Cycles
    <2>1. c[1] = r /\ c[2] = n
      OBVIOUS
    <2>2. claim[<<r, n>>] = "active" /\ Effective(<<r, n>>)
      BY <1>1 DEF Effective
    <2> QED
      BY <2>1, <2>2 DEF IInv, SourceStays, LedgerAgrees, RunStays
  <1>2. ASSUME NEW f \in Facts, outbox[f] \in Undelivered PROVE f[1] \in kept \cup deleted
    <2> PICK n \in Runs, s \in Sequences : f = <<n, s>>
      BY DEF Facts
    <2> QED
      BY <1>2 DEF IInv, RunStays
  <1> QED
    BY <1>1, <1>2 DEF SourcesAreKept

LEMMA Invariance ==
  Spec => []IInv
  BY IInvInit, IInvStep, PTL DEF Spec

-----------------------------------------------------------------------------
(* The variables keep their types; an attempt is never counted past the    *)
(* limit.                                                                  *)
THEOREM TypeCorrect ==
  Spec => []TypeOK
  <1>1. IInv => TypeOK
    BY DEF IInv
  <1> QED
    BY Invariance, <1>1, PTL

(* Retention: what a claim in effect or an undelivered fact comes from is  *)
(* never removed from under it by a maintenance pass.                      *)
THEOREM SourcesKept ==
  Spec => []SourcesAreKept
  BY Invariance, IInvImplies, PTL

(* Consumer: the terminal fact of a run, once delivered, has ended every   *)
(* active claim on the run.                                                *)
THEOREM TerminalObeyed ==
  Spec => []TerminalIsObeyed
  <1>1. IInv => TerminalIsObeyed
    BY DEF IInv
  <1> QED
    BY Invariance, <1>1, PTL

(* Cycles: what is spent or has lapsed does not take effect again while    *)
(* its ledger remembers it.                                                *)
THEOREM SpentIsSpent ==
  Spec => SpentForGood
  <1>1. IInv /\ [Next]_vars =>
          [\A c \in Cycles : Begun(c) /\ ~Effective(c) => ~Effective(c)']_vars
    BY SpentStep DEF IInv
  <1> QED
    BY Invariance, <1>1, PTL DEF Spec, SpentForGood

-----------------------------------------------------------------------------
(* The attempts of a fact.                                                 *)

Advances(f) ==
  /\ outbox[f] \in Settled \cup {"purged"} => outbox'[f] \in {outbox[f], "purged"}
  /\ outbox[f] \in Undelivered /\ outbox'[f] \in Undelivered => attempts'[f] >= attempts[f]
  /\ outbox[f] # "processing" /\ outbox'[f] = "processing" => attempts'[f] = attempts[f] + 1

LEMMA GiveBackAdvances ==
  ASSUME TypeOK, NEW F, \A g \in F : outbox[g] \in Undelivered, GiveBack(F), NEW f \in Facts
  PROVE  Advances(f)
  <1>1. attempts[f] \in Nat
    BY ActivationAssumption DEF TypeOK
  <1> QED
    BY <1>1 DEF GiveBack, Advances, Undelivered, Settled

LEMMA ClaimBatchAdvances ==
  ASSUME TypeOK, ClaimBatch, NEW f \in Facts
  PROVE  Advances(f)
  <1>1. attempts[f] \in Nat
    BY ActivationAssumption DEF TypeOK
  <1>2. PICK rows \in SUBSET {g \in Facts : outbox[g] \in {"pending", "lapsed"}} :
          LET over == {g \in rows : outbox[g] = "lapsed" /\ attempts[g] >= MaxAttempts}
          IN  /\ outbox' = [g \in Facts |-> IF g \in over THEN "dead"
                                          ELSE IF g \in rows THEN "processing" ELSE outbox[g]]
              /\ attempts' = [g \in Facts |-> IF g \in over THEN 0
                                            ELSE IF g \in rows THEN attempts[g] + 1
                                            ELSE attempts[g]]
    BY DEF ClaimBatch
  <1>3. \/ outbox'[f] = "dead" /\ outbox[f] = "lapsed"
        \/ /\ outbox'[f] = "processing" /\ outbox[f] \in {"pending", "lapsed"}
           /\ attempts'[f] = attempts[f] + 1
        \/ outbox'[f] = outbox[f] /\ attempts'[f] = attempts[f]
    BY <1>2
  <1> QED
    BY <1>1, <1>3 DEF Advances, Undelivered, Settled

LEMMA DeliveryAdvances ==
  ASSUME TypeOK, NEW n \in Runs, NEW s \in Sequences, Delivery(n, s), NEW f \in Facts
  PROVE  Advances(f)
  <1>1. attempts[f] \in Nat
    BY ActivationAssumption DEF TypeOK
  <1>2. CASE Consume(n, s) \/ Bury(n, s)
    <2>1. PICK state \in Settled : outbox[<<n, s>>] = "processing" /\ Settle(n, s, state)
      BY <1>2 DEF Consume, Bury, Settled
    <2>2. /\ outbox'[f] = IF f = <<n, s>> THEN state ELSE outbox[f]
          /\ attempts'[f] = IF f = <<n, s>> THEN 0 ELSE attempts[f]
      BY <2>1 DEF Settle, TypeOK
    <2> QED
      BY <1>1, <2>1, <2>2 DEF Advances, Undelivered, Settled
  <1>3. CASE Retry(n, s)
    BY <1>3, GiveBackAdvances DEF Retry, Undelivered
  <1>4. CASE LeaseLost(n, s)
    BY <1>1, <1>4 DEF LeaseLost, Advances, deliveries
  <1> QED
    BY <1>2, <1>3, <1>4 DEF Delivery

LEMMA StepAdvances ==
  ASSUME TypeOK, AliveRuns, Numbered, [Next]_vars, NEW f \in Facts
  PROVE  Advances(f)
  <1>1. attempts[f] \in Nat
    BY ActivationAssumption DEF TypeOK
  <1>2. CASE UNCHANGED deliveries
    BY <1>1, <1>2 DEF Advances, deliveries
  <1>3. ASSUME NEW n \in Runs, Executor(n) PROVE Advances(f)
    <2>1. CASE Appends(n)
      <3>1. outbox[<<n, written[n] + 1>>] = "absent" /\ <<n, written[n] + 1>> \in Facts
        BY <2>1 DEF Appends, Numbered, TypeOK, Facts
      <3>2. /\ outbox'[f] = IF f = <<n, written[n] + 1>> THEN "pending" ELSE outbox[f]
            /\ attempts'[f] = attempts[f]
        BY <2>1 DEF Appends, TypeOK
      <3> QED
        BY <1>1, <3>1, <3>2 DEF Advances, Undelivered, Settled
    <2> QED
      BY <1>2, <1>3, <2>1, ExecutorWrites
  <1>4. CASE Time
    <2>1. ASSUME NEW g \in Facts, DeliveryLapses(g) PROVE Advances(f)
      <3>1. /\ outbox[g] = "processing" /\ UNCHANGED attempts
            /\ outbox'[f] = IF f = g THEN "lapsed" ELSE outbox[f]
        BY <2>1 DEF DeliveryLapses, TypeOK
      <3> QED
        BY <1>1, <3>1 DEF Advances, Undelivered, Settled
    <2> QED
      BY <1>2, <1>4, <2>1 DEF Time, LeaseAges, HorizonPasses
  <1>5. CASE Surroundings
    BY <1>2, <1>5 DEF Surroundings, Disable, Enable, GrantLost, ConditionTurns,
                      SwitchWorkspace, DeleteJob, SessionEnds, Crash
  <1>6. CASE Requeue
    BY <1>6, GiveBackAdvances DEF Requeue, Undelivered
  <1>7. CASE Purge
    <2>1. UNCHANGED attempts
      BY <1>7 DEF Purge
    <2>2. outbox'[f] = IF outbox[f] \in Settled /\ f[2] <= old[f[1]] /\ ~Sustains(f[1], f[2])
                       THEN "purged" ELSE outbox[f]
      BY <1>7 DEF Purge
    <2> QED
      BY <1>1, <2>1, <2>2 DEF Advances, Undelivered, Settled
  <1>8. CASE Pass
    BY <1>2, <1>6, <1>7, <1>8, ClaimBatchAdvances, DeliveryAdvances
    DEF Pass, BeginPass, Renew, Recover, RetainRuns, RetainActivations, Defer
  <1> QED
    BY <1>2, <1>3, <1>4, <1>5, <1>8 DEF Next, vars

(* commandjobevents.Store: a fact is claimed at most maxAttempts times,    *)
(* whatever lapses, fails or crashes, and settles for good.                *)
THEOREM AttemptsSpent ==
  Spec => AttemptsAreSpent
  <1>1. IInv /\ [Next]_vars => [\A f \in Facts : Advances(f)]_vars
    BY StepAdvances DEF IInv
  <1> QED
    BY Invariance, <1>1, PTL DEF Spec, AttemptsAreSpent, Advances

-----------------------------------------------------------------------------
(* Runs that are over.                                                     *)

LEMMA OverIsOver ==
  ASSUME TypeOK, [Next]_vars, NEW n \in Runs, phase[n] \in Over
  PROVE  phase'[n] \in Over
  <1>1. CASE UNCHANGED phase
    BY <1>1
  <1>2. ASSUME NEW m \in Runs, Executor(m) PROVE phase'[n] \in Over
    BY <1>2 DEF Executor, Queue, Register, Write, Close, End, EndUnrecorded, TypeOK, Over,
                execution
  <1>3. CASE Crash
    BY <1>3 DEF Crash, TypeOK, Over
  <1>4. ASSUME NEW m \in Runs, NEW s \in Sequences, Delivery(m, s) PROVE UNCHANGED phase
    BY <1>4 DEF Delivery, Consume, Bury, Retry, LeaseLost, Undone, execution
  <1> QED
    BY <1>1, <1>2, <1>3, <1>4
    DEF Next, Time, LeaseAges, DeliveryLapses, HorizonPasses, Surroundings, Disable, Enable,
        GrantLost, ConditionTurns, SwitchWorkspace, DeleteJob, SessionEnds, Pass, BeginPass,
        Renew, Requeue, ClaimBatch, Purge, Recover, RetainRuns, RetainActivations, Defer,
        vars, execution

(* Without a run that proves it is alive leases only age.                  *)
LEMMA LeasesAge ==
  ASSUME TypeOK, [Next]_vars, NEW r \in Rules, NEW n \in Runs, n \notin alive
  PROVE  /\ lease'[<<r, n>>] \in Valid => lease[<<r, n>>] \in Valid
         /\ lease'[<<r, n>>] = "fresh" => lease[<<r, n>>] = "fresh"
  <1> DEFINE Ages == /\ lease'[<<r, n>>] \in Valid => lease[<<r, n>>] \in Valid
                     /\ lease'[<<r, n>>] = "fresh" => lease[<<r, n>>] = "fresh"
  <1>1. <<r, n>> \in Cycles
    BY DEF Cycles
  <1>2. CASE UNCHANGED lease
    BY <1>2
  <1>3. ASSUME NEW c \in Cycles, LeaseAges(c) PROVE Ages
    BY <1>1, <1>3 DEF LeaseAges, TypeOK, Valid
  <1>4. ASSUME NEW q \in Rules, NEW m \in Runs, Renew(q, m) PROVE Ages
    <2>1. lease' = [lease EXCEPT ![<<q, m>>] = IF LiveClaim(q, m) THEN "fresh" ELSE @]
      BY <1>4 DEF Renew
    <2>2. m = n => ~LiveClaim(q, m)
      BY DEF LiveClaim
    <2> QED
      BY <1>1, <2>1, <2>2 DEF TypeOK
  <1>5. ASSUME NEW m \in Runs, NEW s \in Sequences, Consume(m, s) PROVE Ages
    <2>1. CASE m = n /\ Taken(r, m, s)
      <3>1. Taken(r, n, s) /\ Consume(n, s)
        BY <1>5, <2>1
      <3>2. IsTerminal(n, s)
        <4>1. ~IsTerminal(n, s) => Proved(r, n)
          BY <3>1, ConsumeMoves
        <4> QED
          BY <4>1 DEF Proved
      <3>3. lease'[<<r, n>>] = "none"
        BY <3>1, <3>2, ConsumeMoves
      <3> QED
        BY <3>3 DEF Valid
    <2>2. CASE m # n \/ ~Taken(r, m, s)
      BY <1>5, <2>2, ConsumeLeaves
    <2> QED
      BY <2>1, <2>2
  <1>6. CASE Recover
    BY <1>1, <1>6, RecoverTakes DEF TakenBack, Valid
  <1> QED
    BY <1>2, <1>3, <1>4, <1>5, <1>6
    DEF Next, Executor, Queue, Register, Write, Close, End, EndUnrecorded, Append,
        Time, DeliveryLapses, HorizonPasses, Surroundings, Disable, Enable,
        GrantLost, ConditionTurns, SwitchWorkspace, DeleteJob, SessionEnds, Crash,
        Pass, BeginPass, Requeue, ClaimBatch, Delivery, Bury, Retry,
        LeaseLost, Undone, Purge, RetainRuns, RetainActivations, Defer, vars, cycles

LEMMA ClaimsStayDown ==
  ASSUME TypeOK, LedgerAgrees, [Next]_vars, NEW r \in Rules, NEW n \in Runs, n \notin alive,
         claim'[<<r, n>>] = "active"
  PROVE  claim[<<r, n>>] = "active"
  <1>1. ASSUME NEW m \in Runs, NEW s \in Sequences, Consume(m, s)
        PROVE  claim[<<r, n>>] = "active"
    <2>1. CASE m = n /\ Taken(r, m, s)
      <3>1. Taken(r, n, s) /\ Consume(n, s)
        BY <1>1, <2>1
      <3> QED
        BY <3>1, ConsumeMoves DEF Proved
    <2>2. CASE m # n \/ ~Taken(r, m, s)
      BY <1>1, <2>2, ConsumeLeaves
    <2> QED
      BY <2>1, <2>2
  <1>2. CASE ~Consumption
    BY <1>2, QuietSteps DEF Quiet
  <1> QED
    BY <1>1, <1>2 DEF Consumption

(* Consumer and ReconciliationAdapter ask the executor for the proof of a  *)
(* running run (Manager.commandRuntime): once it is gone, neither a late   *)
(* fact nor a heartbeat switches anything on.                              *)
THEOREM TheEndIsTheEnd ==
  Spec => NothingBeginsAfterTheEnd
  <1>1. ASSUME IInv, [Next]_vars, NEW c \in Cycles, phase[c[2]] \in Over
        PROVE  /\ phase'[c[2]] \in Over
               /\ claim'[c] = "active" => claim[c] = "active"
               /\ lease'[c] \in Valid => lease[c] \in Valid
               /\ lease'[c] = "fresh" => lease[c] = "fresh"
    <2> PICK r \in Rules, n \in Runs : c = <<r, n>>
      BY DEF Cycles
    <2>1. phase[n] \in Over
      BY <1>1
    <2>2. n \notin alive
      BY <1>1, <2>1 DEF IInv, AliveRuns, Over
    <2>3. phase'[n] \in Over
      BY <1>1, <2>1, OverIsOver DEF IInv
    <2>4. claim'[<<r, n>>] = "active" => claim[<<r, n>>] = "active"
      BY <1>1, <2>2, ClaimsStayDown DEF IInv
    <2>5. /\ lease'[<<r, n>>] \in Valid => lease[<<r, n>>] \in Valid
          /\ lease'[<<r, n>>] = "fresh" => lease[<<r, n>>] = "fresh"
      BY <1>1, <2>2, LeasesAge DEF IInv
    <2> QED
      BY <2>3, <2>4, <2>5
  <1>2. IInv /\ [Next]_vars =>
          [\A c \in Cycles : phase[c[2]] \in Over =>
             /\ phase'[c[2]] \in Over
             /\ claim'[c] = "active" => claim[c] = "active"
             /\ lease'[c] \in Valid => lease[c] \in Valid
             /\ lease'[c] = "fresh" => lease[c] = "fresh"]_vars
    BY <1>1
  <1> QED
    BY Invariance, <1>2, PTL DEF Spec, NothingBeginsAfterTheEnd
=============================================================================
