----------------------------- MODULE Activation -----------------------------
(***************************************************************************)
(* The layers a run of a job switches on: the facts its executor leaves in *)
(* the outbox (commandjobevents), the claims and leases the consumer keeps *)
(* for each rule that watches the run (commandjobactivation), and the      *)
(* maintenance pass (commandmaintenance) that renews leases, delivers      *)
(* facts, removes what is old, takes claims back and prunes run records.   *)
(*                                                                         *)
(* A fact is a pair <<run, sequence>>, a cycle a pair <<rule, run>>: what  *)
(* one rule has made of one run.  One step stands for one transaction or   *)
(* one section of the gate; passes are one at a time, and everything else  *)
(* happens between their steps.  Time is what lapses: the lease of a       *)
(* delivery, the lease of a cycle, the replay horizon of a run's facts.    *)
(***************************************************************************)
EXTENDS Integers, FiniteSets

CONSTANTS
  Rules,       \* event rules of the user
  Runs,
  Workspaces,
  Global,      \* scope of a rule of no workspace
  Scope,       \* [Rules -> Workspaces \cup {Global}]
  MaxFacts,    \* bound on the facts of a run, the terminal one included
  MaxAttempts, \* Store.maxAttempts
  Batch,       \* facts a pass claims
  Page,        \* leases a pass examines
  MaxChanges   \* bound on the changes of the surroundings

ASSUME ActivationAssumption ==
  /\ Global \notin Workspaces
  /\ Scope \in [Rules -> Workspaces \cup {Global}]
  /\ MaxFacts \in Nat \ {0} /\ MaxAttempts \in Nat \ {0}
  /\ Batch \in Nat \ {0} /\ Page \in Nat \ {0} /\ MaxChanges \in Nat

VARIABLES
  phase,     \* of the execution of each run
  written,   \* facts each run has left
  alive,     \* runs in Manager.commandRuntime, their watch not cancelled
  own,       \* runs admitted in the session that is still current
  kept,      \* runs with a row in job_runs
  deleted,   \* runs whose job was deleted
  outbox,    \* delivery state of each fact
  attempts,  \* of each fact not yet settled; nothing reads them after
  old,       \* how many facts of each run are past their replay deadline
  claim,     \* state of the claim of each cycle
  cursor,    \* its sequence: the fact it comes from
  lease,
  ledger,    \* what each fact did to each cycle
  enabled,   \* rules enabled
  granted,   \* rules whose grant validates
  matched,   \* rules whose condition holds
  workspace, \* the current one
  changes,
  pc,        \* of the maintenance pass
  beats,     \* cycles the heartbeat has yet to renew
  batch,     \* facts claimed and not consumed
  scanned,   \* MaintenanceRecoveryAdapter.cursor: leases already examined
  more       \* whether a stage of the pass left work

execution == <<phase, written, alive, own>>
records == <<kept, deleted>>
deliveries == <<outbox, attempts>>
cycles == <<claim, cursor, lease, ledger>>
rules == <<enabled, granted, matched, workspace>>
pass == <<pc, beats, batch, scanned, more>>
vars == <<execution, records, deliveries, old, cycles, rules, changes, pass>>

-----------------------------------------------------------------------------
Sequences == 1 .. MaxFacts
Facts == Runs \X Sequences
Cycles == Rules \X Runs
Entries == Rules \X Runs \X Sequences

Phases == {"none", "queued", "running", "closing", "ended", "lost"}
Undelivered == {"pending", "processing", "lapsed"}
Settled == {"delivered", "dead"}
Deliveries == {"absent", "purged"} \cup Undelivered \cup Settled
Spent == {"inactive", "deactivated", "stale"}
Claims == {"none", "active"} \cup Spent
Valid == {"fresh", "due"}
Leases == {"none", "lapsed"} \cup Valid
Barriers == {"activate", "deactivate", "barred"}
Outcomes == {"none", "ignored"} \cup Barriers
Stages == {"idle", "heartbeat", "claim", "consume", "recover", "retain", "activations"}

TypeOK ==
  /\ phase \in [Runs -> Phases]
  /\ written \in [Runs -> 0 .. MaxFacts]
  /\ alive \in SUBSET Runs /\ own \in SUBSET Runs
  /\ kept \in SUBSET Runs /\ deleted \in SUBSET Runs
  /\ outbox \in [Facts -> Deliveries]
  /\ attempts \in [Facts -> 0 .. MaxAttempts]
  /\ old \in [Runs -> 0 .. MaxFacts]
  /\ claim \in [Cycles -> Claims]
  /\ cursor \in [Cycles -> 0 .. MaxFacts]
  /\ lease \in [Cycles -> Leases]
  /\ ledger \in [Entries -> Outcomes]
  /\ enabled \in SUBSET Rules /\ granted \in SUBSET Rules /\ matched \in SUBSET Rules
  /\ workspace \in Workspaces
  /\ changes \in 0 .. MaxChanges
  /\ pc \in Stages
  /\ beats \in SUBSET Cycles /\ batch \in SUBSET Facts /\ scanned \in SUBSET Cycles
  /\ more \in BOOLEAN

Init ==
  /\ phase = [n \in Runs |-> "none"]
  /\ written = [n \in Runs |-> 0]
  /\ alive = {} /\ own = {} /\ kept = {} /\ deleted = {}
  /\ outbox = [f \in Facts |-> "absent"]
  /\ attempts = [f \in Facts |-> 0]
  /\ old = [n \in Runs |-> 0]
  /\ claim = [c \in Cycles |-> "none"]
  /\ cursor = [c \in Cycles |-> 0]
  /\ lease = [c \in Cycles |-> "none"]
  /\ ledger = [e \in Entries |-> "none"]
  /\ enabled \in SUBSET Rules /\ granted = Rules /\ matched = Rules
  /\ workspace \in Workspaces
  /\ changes = 0
  /\ pc = "idle" /\ beats = {} /\ batch = {} /\ scanned = {} /\ more = FALSE

-----------------------------------------------------------------------------
(* The executor.  A run proves it is alive between the writing of its      *)
(* queued fact and the moment before its terminal one.                     *)

Append(n) ==
  /\ written[n] < MaxFacts
  /\ written' = [written EXCEPT ![n] = @ + 1]
  /\ outbox' = [outbox EXCEPT ![<<n, written[n] + 1>>] = "pending"]
  /\ UNCHANGED <<attempts, old, cycles, rules, changes, pass>>

Queue(n) ==
  /\ phase[n] = "none"
  /\ phase' = [phase EXCEPT ![n] = "queued"]
  /\ own' = own \cup {n}
  /\ kept' = kept \cup {n}
  /\ Append(n)
  /\ UNCHANGED <<alive, deleted>>

(* registerCommandRuntime refuses a watch that is cancelled.               *)
Register(n) ==
  /\ phase[n] = "queued"
  /\ phase' = [phase EXCEPT ![n] = "running"]
  /\ alive' = alive \cup ({n} \cap own)
  /\ UNCHANGED <<written, own, records, deliveries, old, cycles, rules, changes, pass>>

(* started and retry_scheduled; a run whose row is gone cannot write.      *)
Write(n) ==
  /\ phase[n] = "running" /\ n \in kept
  /\ written[n] < MaxFacts - 1
  /\ Append(n)
  /\ UNCHANGED <<phase, alive, own, records>>

Close(n) ==
  /\ phase[n] = "running"
  /\ phase' = [phase EXCEPT ![n] = "closing"]
  /\ alive' = alive \ {n}
  /\ UNCHANGED <<written, own, records, deliveries, old, cycles, rules, changes, pass>>

End(n) ==
  /\ phase[n] = "closing" /\ n \in kept
  /\ phase' = [phase EXCEPT ![n] = "ended"]
  /\ Append(n)
  /\ UNCHANGED <<alive, own, records>>

(* The terminal fact could not be written: the error is only logged.       *)
EndUnrecorded(n) ==
  /\ phase[n] = "closing"
  /\ phase' = [phase EXCEPT ![n] = "lost"]
  /\ UNCHANGED <<written, alive, own, records, deliveries, old, cycles, rules, changes, pass>>

-----------------------------------------------------------------------------
(* The surroundings: time, the session, the rules, the process.            *)

LeaseAges(c) ==
  /\ lease[c] \in Valid
  /\ lease' = [lease EXCEPT ![c] = IF @ = "fresh" THEN "due" ELSE "lapsed"]
  /\ UNCHANGED <<execution, records, deliveries, old, claim, cursor, ledger, rules, changes, pass>>

DeliveryLapses(f) ==
  /\ outbox[f] = "processing"
  /\ outbox' = [outbox EXCEPT ![f] = "lapsed"]
  /\ UNCHANGED <<execution, records, attempts, old, cycles, rules, changes, pass>>

(* Facts of a run pass their replay deadlines in the order they occurred.  *)
HorizonPasses(n) ==
  /\ old[n] < written[n]
  /\ old' = [old EXCEPT ![n] = @ + 1]
  /\ UNCHANGED <<execution, records, deliveries, cycles, rules, changes, pass>>

Change ==
  /\ changes < MaxChanges
  /\ changes' = changes + 1

(* Claims of rule r that are active become stale; their leases stay.       *)
Revoked(R) == [c \in Cycles |-> IF c[1] \in R /\ claim[c] = "active" THEN "stale" ELSE claim[c]]

(* Disabling a rule, its layer, or editing it.                             *)
Disable(r) ==
  /\ Change
  /\ r \in enabled
  /\ enabled' = enabled \ {r}
  /\ claim' = Revoked({r})
  /\ UNCHANGED <<execution, records, deliveries, old, cursor, lease, ledger>>
  /\ UNCHANGED <<granted, matched, workspace, pass>>

Enable(r) ==
  /\ Change
  /\ r \notin enabled
  /\ enabled' = enabled \cup {r}
  /\ granted' = granted \cup {r}
  /\ UNCHANGED <<execution, records, deliveries, old, cycles, matched, workspace, pass>>

GrantLost(r) ==
  /\ Change
  /\ granted' = granted \ {r}
  /\ UNCHANGED <<execution, records, deliveries, old, cycles, enabled, matched, workspace, pass>>

ConditionTurns(r) ==
  /\ Change
  /\ matched' = IF r \in matched THEN matched \ {r} ELSE matched \cup {r}
  /\ UNCHANGED <<execution, records, deliveries, old, cycles, enabled, granted, workspace, pass>>

SwitchWorkspace(w) ==
  /\ Change
  /\ w # workspace
  /\ workspace' = w
  /\ UNCHANGED <<execution, records, deliveries, old, cycles, enabled, granted, matched, pass>>

(* The watches of the session are cancelled, never the runs.               *)
SessionEnds ==
  /\ Change
  /\ own' = {} /\ alive' = {}
  /\ UNCHANGED <<phase, written, records, deliveries, old, cycles, rules, pass>>

(* Deleting a job removes its runs, whatever they sustain.                 *)
DeleteJob(n) ==
  /\ Change
  /\ n \in kept
  /\ kept' = kept \ {n}
  /\ deleted' = deleted \cup {n}
  /\ UNCHANGED <<execution, deliveries, old, cycles, rules, pass>>

(* What was in memory is gone; the runs it executed write no more facts.   *)
Crash ==
  /\ Change
  /\ own' = {} /\ alive' = {}
  /\ phase' = [n \in Runs |-> IF phase[n] \in {"none", "ended"} THEN phase[n] ELSE "lost"]
  /\ pc' = "idle" /\ beats' = {} /\ batch' = {} /\ scanned' = {} /\ more' = FALSE
  /\ UNCHANGED <<written, records, deliveries, old, cycles, rules>>

-----------------------------------------------------------------------------
(* What the consumer reads in its transactions.                            *)

IsTerminal(n, s) == phase[n] = "ended" /\ s = written[n]

(* authorizeCommandJob: the run of the current session, the rule of the    *)
(* current workspace.                                                      *)
Authorized(r, n) == n \in own /\ Scope[r] \in {Global, workspace}

Effective(c) == claim[c] = "active" /\ lease[c] \in Valid

(* Facts in the ledger that stand in for a claim that was removed.         *)
Barrier(r, n) == {s \in Sequences : ledger[<<r, n, s>>] \in Barriers}

Known(r, n, s) == ledger[<<r, n, s>>] # "none"

Behind(r, n, s) ==
  IF claim[<<r, n>>] = "none" THEN \E t \in Barrier(r, n) : s <= t ELSE s <= cursor[<<r, n>>]

(* Mutant: a cycle whose claim was removed may begin again.                *)
ClosedMutant(r, n) == claim[<<r, n>>] \in {"deactivated", "stale"}

Closed(r, n) ==
  \/ claim[<<r, n>>] \in {"deactivated", "stale"}
  \/ claim[<<r, n>>] = "none" /\ Barrier(r, n) # {}

(* apply: the fact moves the cycle.                                        *)
Moves(r, n, s) == ~Known(r, n, s) /\ ~Behind(r, n, s) /\ ~Closed(r, n)

(* A claim that exists must hold a valid lease.                            *)
Proved(r, n) == n \in alive /\ (claim[<<r, n>>] # "none" => lease[<<r, n>>] \in Valid)

(* Mutant: the condition is asked of the terminal fact too.                *)
HeedsMutant(r, n, s) == r \in enabled \cap granted \cap matched

Heeds(r, n, s) == r \in enabled \cap granted /\ (r \in matched \/ IsTerminal(n, s))

(* The rule returns an error, and the transaction rolls back for all.      *)
Refuses(r, n, s) ==
  /\ r \in enabled
  /\ \/ ~Authorized(r, n)
     \/ Heeds(r, n, s) /\ Moves(r, n, s) /\ ~IsTerminal(n, s) /\ ~Proved(r, n)

(* VerifiedFactTx and verifyJob.                                           *)
Verified(n, s) == old[n] < s /\ n \in kept

(* Mutant: the proof of the running process is not asked for.              *)
LiveClaimMutant(r, n) ==
  /\ Effective(<<r, n>>)
  /\ outbox[<<n, cursor[<<r, n>>]>>] # "purged"
  /\ n \in kept
  /\ Authorized(r, n)
  /\ r \in enabled \cap granted \cap matched

(* liveClaim.                                                              *)
LiveClaim(r, n) ==
  /\ Effective(<<r, n>>)
  /\ outbox[<<n, cursor[<<r, n>>]>>] # "purged"
  /\ n \in kept \cap alive
  /\ Authorized(r, n)
  /\ r \in enabled \cap granted \cap matched

-----------------------------------------------------------------------------
(* The maintenance pass.                                                   *)

Held == {c \in Cycles : lease[c] # "none"}

BeginPass ==
  /\ pc = "idle"
  /\ pc' = "heartbeat"
  /\ beats' = Held
  /\ more' = FALSE
  /\ UNCHANGED <<execution, records, deliveries, old, cycles, rules, changes, batch, scanned>>

(* renewRuntimeWithTTL, one lease at a time.                               *)
Renew(r, n) ==
  /\ pc = "heartbeat" /\ <<r, n>> \in beats
  /\ beats' = beats \ {<<r, n>>}
  /\ lease' = [lease EXCEPT ![<<r, n>>] = IF LiveClaim(r, n) THEN "fresh" ELSE @]
  /\ UNCHANGED <<execution, records, deliveries, old, claim, cursor, ledger, rules, changes>>
  /\ UNCHANGED <<pc, batch, scanned, more>>

(* Mutant: a fact that goes back counts its attempts anew.                 *)
GiveBackMutant(F) ==
  /\ outbox' = [f \in Facts |-> IF f \in F THEN "pending" ELSE outbox[f]]
  /\ attempts' = [f \in Facts |-> IF f \in F THEN 0 ELSE attempts[f]]

(* Facts of F go back to the queue; the last attempt buries them.          *)
GiveBack(F) ==
  LET spent == {f \in F : attempts[f] >= MaxAttempts}
  IN  /\ outbox' = [f \in Facts |-> IF f \in spent THEN "dead"
                                    ELSE IF f \in F THEN "pending" ELSE outbox[f]]
      /\ attempts' = [f \in Facts |-> IF f \in spent THEN 0 ELSE attempts[f]]

Requeue ==
  /\ pc = "heartbeat" /\ beats = {}
  /\ GiveBack({f \in Facts : outbox[f] = "lapsed"})
  /\ pc' = "claim"
  /\ UNCHANGED <<execution, records, old, cycles, rules, changes>>
  /\ UNCHANGED <<beats, batch, scanned, more>>

(* ClaimBatch, oldest first.                                               *)
ClaimBatch ==
  /\ pc = "claim"
  /\ LET due == {f \in Facts : outbox[f] \in {"pending", "lapsed"}}
     IN  \E rows \in SUBSET due :
           /\ Cardinality(rows) = (IF Cardinality(due) > Batch THEN Batch ELSE Cardinality(due))
           /\ \A f \in rows, g \in due : g[1] = f[1] /\ g[2] < f[2] => g \in rows
           /\ LET over == {f \in rows : outbox[f] = "lapsed" /\ attempts[f] >= MaxAttempts}
              IN  /\ batch' = rows \ over
                  /\ outbox' = [f \in Facts |-> IF f \in over THEN "dead"
                                                ELSE IF f \in rows THEN "processing" ELSE outbox[f]]
                  /\ attempts' = [f \in Facts |-> IF f \in over THEN 0
                                                  ELSE IF f \in rows THEN attempts[f] + 1
                                                  ELSE attempts[f]]
           /\ more' = (more \/ Cardinality(due) > Batch)
  /\ pc' = "consume"
  /\ UNCHANGED <<execution, records, old, cycles, rules, changes, beats, scanned>>

Turn(n, s) == /\ pc = "consume" /\ <<n, s>> \in batch
              /\ \A t \in Sequences : t < s => <<n, t>> \notin batch

Settle(n, s, state) == /\ outbox' = [outbox EXCEPT ![<<n, s>>] = state]
                       /\ attempts' = [attempts EXCEPT ![<<n, s>>] = 0]

(* One transaction: every enabled rule takes the fact, and it is           *)
(* delivered.  A rule whose grant does not validate is disabled.           *)
Consume(n, s) ==
  LET lost == enabled \ granted
      takers == {r \in Rules : Heeds(r, n, s)}
      moved == {r \in takers : Moves(r, n, s)}
      fell == {r \in takers \ moved : ~Known(r, n, s)}
  IN  /\ Turn(n, s)
      /\ outbox[<<n, s>>] = "processing"
      /\ Verified(n, s)
      /\ \A r \in Rules : ~Refuses(r, n, s)
      /\ enabled' = enabled \ lost
      /\ claim' = [c \in Cycles |->
                    IF c[2] = n /\ c[1] \in moved
                    THEN IF IsTerminal(n, s) THEN "deactivated" ELSE "active"
                    ELSE Revoked(lost)[c]]
      /\ cursor' = [c \in Cycles |-> IF c[2] = n /\ c[1] \in moved THEN s ELSE cursor[c]]
      /\ lease' = [c \in Cycles |->
                    IF c[2] = n /\ c[1] \in moved
                    THEN IF IsTerminal(n, s) THEN "none"
                         ELSE IF claim[c] = "none" THEN "fresh" ELSE lease[c]
                    ELSE lease[c]]
      /\ ledger' = [e \in Entries |->
                     IF e[2] # n \/ e[3] # s THEN ledger[e]
                     ELSE IF e[1] \in moved
                          THEN IF IsTerminal(n, s) THEN "deactivate" ELSE "activate"
                     ELSE IF e[1] \in fell
                          THEN IF Behind(e[1], n, s) THEN "ignored" ELSE "barred"
                     ELSE ledger[e]]
      /\ Settle(n, s, "delivered")
      /\ batch' = batch \ {<<n, s>>}
      /\ UNCHANGED <<execution, records, old, granted, matched, workspace, changes>>
      /\ UNCHANGED <<pc, beats, scanned, more>>

Undone == UNCHANGED <<execution, records, old, cycles, rules, changes, beats, scanned>>

(* A fact that can never be valid.                                         *)
Bury(n, s) ==
  /\ Turn(n, s)
  /\ outbox[<<n, s>>] = "processing"
  /\ ~Verified(n, s)
  /\ Settle(n, s, "dead")
  /\ batch' = batch \ {<<n, s>>}
  /\ UNCHANGED <<pc, more>> /\ Undone

(* Retry: the fact goes back whole, or is buried by its last attempt.      *)
Retry(n, s) ==
  /\ Turn(n, s)
  /\ outbox[<<n, s>>] = "processing"
  /\ Verified(n, s)
  /\ \E r \in Rules : Refuses(r, n, s)
  /\ GiveBack({<<n, s>>})
  /\ batch' = batch \ {<<n, s>>}
  /\ more' = (more \/ attempts[<<n, s>>] < MaxAttempts)
  /\ UNCHANGED pc /\ Undone

(* ErrLeaseLost ends the pass.                                             *)
LeaseLost(n, s) ==
  /\ Turn(n, s)
  /\ outbox[<<n, s>>] = "lapsed"
  /\ pc' = "idle" /\ batch' = {}
  /\ UNCHANGED <<deliveries, more>> /\ Undone

(* Mutant: the source of any claim but a fresh one is removed.             *)
SustainsMutant(n, s) == \E r \in Rules : lease[<<r, n>>] = "fresh" /\ cursor[<<r, n>>] = s

(* PurgeExpired spares the source of a claim in effect.                    *)
Sustains(n, s) == \E r \in Rules : Effective(<<r, n>>) /\ cursor[<<r, n>>] = s

Purge ==
  /\ pc = "consume" /\ batch = {}
  /\ outbox' = [f \in Facts |-> IF /\ outbox[f] \in Settled
                                   /\ f[2] <= old[f[1]] /\ ~Sustains(f[1], f[2])
                                THEN "purged" ELSE outbox[f]]
  /\ pc' = "recover"
  /\ UNCHANGED <<execution, records, attempts, old, cycles, rules, changes>>
  /\ UNCHANGED <<beats, batch, scanned, more>>

(* reconcileBatch: a page of leases; a full page leaves work.  Nothing is  *)
(* removed in a pass that left work.                                       *)
Recover ==
  /\ pc = "recover"
  /\ LET rest == Held \ scanned
         full == Cardinality(rest) >= Page
     IN  \E page \in SUBSET rest :
           LET ruled == {c \in page : ~LiveClaim(c[1], c[2])}
           IN  /\ Cardinality(page) = (IF full THEN Page ELSE Cardinality(rest))
               /\ claim' = [c \in Cycles |-> IF c \in ruled /\ claim[c] = "active"
                                             THEN "inactive" ELSE claim[c]]
               /\ lease' = [c \in Cycles |-> IF c \in ruled THEN "none" ELSE lease[c]]
               /\ scanned' = IF full THEN scanned \cup page ELSE {}
               /\ pc' = IF more \/ full THEN "idle" ELSE "retain"
  /\ UNCHANGED <<execution, records, deliveries, old, cursor, ledger, rules, changes>>
  /\ UNCHANGED <<beats, batch, more>>

(* retainableRunQuery.                                                     *)
Retainable(n) ==
  /\ n \in kept
  /\ \A s \in Sequences : outbox[<<n, s>>] \notin Undelivered
  /\ phase[n] = "ended" \/ \A r \in Rules : ~Effective(<<r, n>>)

RetainRuns ==
  /\ pc = "retain"
  /\ \E gone \in SUBSET {n \in Runs : Retainable(n)} : kept' = kept \ gone
  /\ pc' = "activations"
  /\ UNCHANGED <<execution, deleted, deliveries, old, cycles, rules, changes, beats, batch, scanned, more>>

(* Retain: claims that are over, by age or by number; entries of the       *)
(* ledger past their deadline, unless an active claim comes from their     *)
(* fact.                                                                   *)
RetainActivations ==
  /\ pc = "activations"
  /\ \E gone \in SUBSET {c \in Cycles : claim[c] \in Spent} :
       /\ claim' = [c \in Cycles |-> IF c \in gone THEN "none" ELSE claim[c]]
       /\ cursor' = [c \in Cycles |-> IF c \in gone THEN 0 ELSE cursor[c]]
  /\ \E aged \in SUBSET {e \in Entries :
                           /\ ledger[e] # "none" /\ e[3] <= old[e[2]]
                           /\ ~(/\ claim[<<e[1], e[2]>>] = "active"
                                /\ cursor[<<e[1], e[2]>>] = e[3])} :
       ledger' = [e \in Entries |-> IF e \in aged THEN "none" ELSE ledger[e]]
  /\ pc' = "idle"
  /\ UNCHANGED <<execution, records, deliveries, old, lease, rules, changes, beats, batch, scanned, more>>

(* Cleaning that failed is put off: retention.deferred.                    *)
Defer ==
  /\ pc = "retain"
  /\ pc' = "idle"
  /\ UNCHANGED <<execution, records, deliveries, old, cycles, rules, changes, beats, batch, scanned, more>>
-----------------------------------------------------------------------------
Executor(n) == \/ Queue(n) \/ Register(n) \/ Write(n) \/ Close(n)
               \/ End(n) \/ EndUnrecorded(n)

Time == \/ \E c \in Cycles : LeaseAges(c)
        \/ \E f \in Facts : DeliveryLapses(f)
        \/ \E n \in Runs : HorizonPasses(n)

Surroundings == \/ \E r \in Rules : Disable(r) \/ Enable(r) \/ GrantLost(r) \/ ConditionTurns(r)
                \/ \E w \in Workspaces : SwitchWorkspace(w)
                \/ \E n \in Runs : DeleteJob(n)
                \/ SessionEnds \/ Crash

Delivery(n, s) == Consume(n, s) \/ Bury(n, s) \/ Retry(n, s) \/ LeaseLost(n, s)

Pass == \/ BeginPass
        \/ \E r \in Rules, n \in Runs : Renew(r, n)
        \/ Requeue \/ ClaimBatch
        \/ \E n \in Runs, s \in Sequences : Delivery(n, s)
        \/ Purge \/ Recover \/ RetainRuns \/ RetainActivations \/ Defer

Next == (\E n \in Runs : Executor(n)) \/ Time \/ Surroundings \/ Pass

Spec == Init /\ [][Next]_vars

(* The manager's loop runs one pass after another, and the lease of a      *)
(* delivery is a matter of time.  Nothing is asked of the runs, of the     *)
(* user, or of the leases of the cycles.                                   *)
FairSpec == Spec /\ WF_vars(Pass) /\ \A f \in Facts : WF_vars(DeliveryLapses(f))

-----------------------------------------------------------------------------
(* A cycle that has begun and is not in effect never takes effect again:   *)
(* no late renewal, no fact delivered out of order or again, no removal of *)
(* its claim brings the layer back while its ledger remembers it.          *)
Begun(c) == claim[c] # "none" \/ Barrier(c[1], c[2]) # {}
SpentForGood == [][\A c \in Cycles : Begun(c) /\ ~Effective(c) => ~Effective(c)']_vars

(* The tables agree across the three removals of a pass: the claim in      *)
(* effect has its fact in the outbox, its entry in the ledger and, unless  *)
(* the run ended or its job was deleted, its run; and a fact not yet       *)
(* delivered has its run.                                                  *)
SourcesAreKept ==
  /\ \A c \in Cycles : Effective(c) =>
       /\ outbox[<<c[2], cursor[c]>>] = "delivered"
       /\ ledger[<<c[1], c[2], cursor[c]>>] = "activate"
       /\ phase[c[2]] # "ended" => c[2] \in kept \cup deleted
  /\ \A f \in Facts : outbox[f] \in Undelivered => f[1] \in kept \cup deleted

(* Once the terminal fact of a run is delivered no rule has an active      *)
(* claim on the run, whatever was delivered before, after or again.        *)
TerminalIsObeyed ==
  \A n \in Runs :
    phase[n] = "ended" /\ outbox[<<n, written[n]>>] = "delivered"
      => \A r \in Rules : claim[<<r, n>>] # "active"

(* Every claim of a fact by a pass costs one of its attempts, which no     *)
(* retry, lapse or crash gives back, and a fact that was delivered or      *)
(* buried is never taken up again.                                         *)
AttemptsAreSpent ==
  [][\A f \in Facts :
       /\ outbox[f] \in Settled \cup {"purged"} => outbox'[f] \in {outbox[f], "purged"}
       /\ outbox[f] \in Undelivered /\ outbox'[f] \in Undelivered =>
            attempts'[f] >= attempts[f]
       /\ outbox[f] # "processing" /\ outbox'[f] = "processing" =>
            attempts'[f] = attempts[f] + 1]_vars

(* Nothing begins for a run that is over, not even for a rule that knew    *)
(* nothing of it: a fact delivered late makes no claim active, and no      *)
(* heartbeat of a pass under way extends a lease.                          *)
Over == {"closing", "ended", "lost"}
NothingBeginsAfterTheEnd ==
  [][\A c \in Cycles : phase[c[2]] \in Over =>
       /\ phase'[c[2]] \in Over
       /\ claim'[c] = "active" => claim[c] = "active"
       /\ lease'[c] \in Valid => lease[c] \in Valid
       /\ lease'[c] = "fresh" => lease[c] = "fresh"]_vars

(* No fact stays undelivered for ever.                                     *)
FactsSettle == \A f \in Facts : outbox[f] \in Undelivered ~> outbox[f] \notin Undelivered

(* A run that is over, its terminal fact delivered or not, ends without an *)
(* active claim.                                                           *)
ClaimsEnd ==
  \A c \in Cycles :
    phase[c[2]] \in {"closing", "ended", "lost"} ~> claim[c] # "active"

(* The documents say that two rules that watch one run have independent    *)
(* cycles: a fact one of them is ready to take is not lost because of the  *)
(* other.                                                                  *)
Ready(r, n, s) == /\ Verified(n, s) /\ Heeds(r, n, s) /\ Moves(r, n, s)
                  /\ ~Refuses(r, n, s)
RulesAreIndependent ==
  [][\A r \in Rules, n \in Runs, s \in Sequences :
       outbox[<<n, s>>] = "processing" /\ Ready(r, n, s) => outbox'[<<n, s>>] # "dead"]_vars
=============================================================================
