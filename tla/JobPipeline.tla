----------------------------- MODULE JobPipeline -----------------------------
(***************************************************************************)
(* The execution pipeline of internal/jobs while the manager is started:   *)
(* triggers and events fire activations of jobs, each activation goes      *)
(* through executeJob (checks, concurrency slot, second check) and through *)
(* JobExecutor.Execute (circuit breaker, tool, events), and the events it  *)
(* publishes fire further activations.  Edits of the registry (toggle,     *)
(* save, delete, pipeline switch) interleave with all of it.               *)
(*                                                                         *)
(* An activation is named by its chain: the sequence of <<job, number>>    *)
(* pairs from the root trigger down to the activated job.  The number      *)
(* tells root occurrences and fan-out items apart.  The ChainHistory that  *)
(* the code carries in the event payload is the chain without its last     *)
(* element.                                                                *)
(***************************************************************************)
EXTENDS Naturals, Sequences, FiniteSets

CONSTANTS
  Jobs,           \* job slugs
  Events,         \* names of events
  NoEvent,        \* an event field left empty in the job
  Listens,        \* [Jobs -> SUBSET Events]: events of the job's event triggers
  Timed,          \* jobs with a cron or interval trigger
  OnSuccess,      \* [Jobs -> Events \cup {NoEvent}]
  OnFailure,      \* [Jobs -> Events \cup {NoEvent}]
  FanOut,         \* [Jobs -> Nat \ {0}]: items for_each yields; the code emits
                  \* one event when there is no for_each or it yields nothing
  Skips,          \* jobs whose error policy is "skip"
  McpJobs,        \* jobs whose tool comes from an MCP server and may be absent
  Piped,          \* jobs that belong to the (one) pipeline
  DomainEvents,   \* events of the task lists, published by users and tools
  Publishes,      \* [Jobs -> Nat]: domain events the tool of a job publishes
  CronRoots,      \* root occurrences: bound on the triggers from outside
  IntervalRoots,
  DomainRoots,
  ManualRoots,
  Slots,          \* capacity of the run limiter
  MaxDepth,       \* CircuitBreaker.maxChainDepth
  RateLimit,      \* [Jobs -> Nat]: runs per hour of each job
  MaxEdits        \* bound on the registry edits of a behaviour

Roots == CronRoots \cup IntervalRoots \cup DomainRoots \cup ManualRoots

ASSUME PipelineAssumption ==
  /\ IsFiniteSet(Jobs)
  /\ NoEvent \notin Events
  /\ Listens \in [Jobs -> SUBSET Events]
  /\ OnSuccess \in [Jobs -> Events \cup {NoEvent}]
  /\ OnFailure \in [Jobs -> Events \cup {NoEvent}]
  /\ FanOut \in [Jobs -> Nat \ {0}]
  /\ Publishes \in [Jobs -> Nat]
  /\ RateLimit \in [Jobs -> Nat \ {0}]
  /\ Timed \subseteq Jobs /\ Skips \subseteq Jobs /\ McpJobs \subseteq Jobs
  /\ Piped \subseteq Jobs /\ DomainEvents \subseteq Events
  /\ Slots \in Nat \ {0} /\ MaxDepth \in Nat \ {0} /\ MaxEdits \in Nat
  /\ Roots \subseteq Nat /\ IsFiniteSet(Roots)
  /\ ManualRoots \cap (CronRoots \cup IntervalRoots \cup DomainRoots) = {}
  /\ IntervalRoots \cap (CronRoots \cup DomainRoots) = {}
  /\ CronRoots \cap DomainRoots = {}

VARIABLES
  run,        \* activations in flight -> [pc, item]
  cancelled,  \* interval activations whose ticker context was cancelled
  fired,      \* root occurrences already used
  used,       \* tokens in the limiter's channel
  recent,     \* runs recorded by the circuit breaker in the last hour
  registry,   \* in-memory registry entries
  subs,       \* jobs whose triggers are registered (bus and scheduler)
  pipelineOn, \* persisted state of the pipeline
  edit,       \* the registry edit in progress (holder of runtimeMu)
  edits       \* edits begun

vars == <<run, cancelled, fired, used, recent, registry, subs, pipelineOn,
          edit, edits>>

-----------------------------------------------------------------------------
(* Activations.                                                            *)

Activation == Seq(Jobs \X Nat) \ {<<>>}

Job(a) == a[Len(a)][1]
Depth(a) == Len(a) - 1
InHistory(a) == \E i \in 1 .. Len(a) - 1 : a[i][1] = Job(a)

(* RunJob enters Execute directly: no enabled check, no slot.              *)
Manual(a) == Len(a) = 1 /\ a[1][2] \in ManualRoots
(* Only a ticker's own activation carries the ticker's context; event      *)
(* handlers run under context.WithoutCancel.                               *)
FromInterval(a) == Len(a) = 1 /\ a[1][2] \in IntervalRoots
FromEvent(a) == Len(a) > 1 \/ a[1][2] \in DomainRoots

(* Positions between runLimiter.acquire and its release.                   *)
InSlot == {"admitted", "approved", "starting", "rated", "running",
           "succeeding", "failing", "skipping", "completed", "failed"}
PCs == InSlot \cup {"fired", "waiting"}

HoldsSlot(a) == ~Manual(a) /\ run[a].pc \in InSlot
Holders == {a \in DOMAIN run : HoldsSlot(a)}

At(p) == [pc |-> p, item |-> 0]
Goto(a, p) == run' = [run EXCEPT ![a] = At(p)]
(* The activations kids, added to the table f at position p.  A chain is   *)
(* never reused: a root fires once, a publisher emits an item once.        *)
Spawn(f, kids, p) ==
  [c \in DOMAIN f \cup kids |-> IF c \in DOMAIN f THEN f[c] ELSE At(p)]

Drop(a) == /\ run' = [c \in DOMAIN run \ {a} |-> run[c]]
           /\ cancelled' = cancelled \ {a}

-----------------------------------------------------------------------------
(* Registry entries.                                                       *)

Statuses == {"idle", "running", "error"}
Entry == [present : BOOLEAN, enabled : BOOLEAN, pipeOn : BOOLEAN,
          status : Statuses]

(* effectiveJobEnabled, and the nil check of registry.Get before it.       *)
Effective(j, e) == e.present /\ e.enabled /\ (j \in Piped => e.pipeOn)
Enabled(j) == Effective(j, registry[j])

(* jobRunnable may also refuse a job whose MCP tool is not there.          *)
Refusable(j) == ~Enabled(j) \/ j \in McpJobs

NoEdit == [pc |-> "idle"]
Edit == [pc : {"unregister", "set", "register"},
         op : {"toggle", "save", "delete", "pipeline"},
         job : Jobs, todo : SUBSET Jobs, val : BOOLEAN, copy : Entry]

(* EventBus.Publish copies the handlers of the event: who hears e now.     *)
Subscribers(e) == {j \in subs : e \in Listens[j]}

-----------------------------------------------------------------------------
Init ==
  /\ run = [a \in {} |-> At("fired")]
  /\ cancelled = {}
  /\ fired = {}
  /\ used = 0
  /\ recent = [j \in Jobs |-> 0]
  /\ pipelineOn \in BOOLEAN
  /\ \E on \in [Jobs -> BOOLEAN] :
       registry = [j \in Jobs |-> [present |-> TRUE, enabled |-> on[j],
                     pipeOn |-> (j \in Piped => pipelineOn), status |-> "idle"]]
  /\ subs = {j \in Jobs : Enabled(j)}
  /\ edit = NoEdit
  /\ edits = 0

-----------------------------------------------------------------------------
(* Roots.                                                                  *)

FireRoot(r, kids) ==
  /\ r \notin fired
  /\ fired' = fired \cup {r}
  /\ run' = Spawn(run, kids, "fired")
  /\ UNCHANGED <<cancelled, used, recent, registry, subs, pipelineOn, edit, edits>>

(* The cron library runs each firing in a goroutine of its own.            *)
FireCron(j, r) == /\ j \in Timed \cap subs
                  /\ r \in CronRoots
                  /\ FireRoot(r, {<<<<j, r>>>>})

(* One goroutine per ticker runs the job inline: its firings never overlap *)
(* unless the ticker was replaced.                                         *)
FireInterval(j, r) ==
  /\ j \in Timed \cap subs
  /\ r \in IntervalRoots
  /\ \A a \in DOMAIN run : FromInterval(a) /\ Job(a) = j => a \in cancelled
  /\ FireRoot(r, {<<<<j, r>>>>})

FireDomain(e, r) == /\ e \in DomainEvents
                    /\ r \in DomainRoots
                    /\ FireRoot(r, {<<<<j, r>>>> : j \in Subscribers(e)})

FireManual(j, r) ==
  /\ r \in ManualRoots \ fired
  /\ registry[j].present
  /\ fired' = fired \cup {r}
  /\ run' = Spawn(run, {<<<<j, r>>>>}, "approved")
  /\ UNCHANGED <<cancelled, used, recent, registry, subs, pipelineOn, edit, edits>>

-----------------------------------------------------------------------------
(* executeJob.                                                             *)

pipelineState == <<recent, registry, subs, pipelineOn, edit, edits, fired>>

(* First checks passed; the activation asks for a slot.                    *)
Enqueue(a) == /\ run[a].pc = "fired"
              /\ Enabled(Job(a))
              /\ a \notin cancelled
              /\ Goto(a, "waiting")
              /\ UNCHANGED <<cancelled, used, pipelineState>>

(* The `when` of the event trigger is false, the job is not runnable, or   *)
(* the context was already cancelled.                                      *)
Ignore(a) == /\ run[a].pc = "fired"
             /\ FromEvent(a) \/ Refusable(Job(a)) \/ a \in cancelled
             /\ Drop(a)
             /\ UNCHANGED <<used, pipelineState>>

Acquire(a) == /\ run[a].pc = "waiting"
              /\ used < Slots
              /\ used' = used + 1
              /\ Goto(a, "admitted")
              /\ UNCHANGED <<cancelled, pipelineState>>

AbortWait(a) == /\ run[a].pc = "waiting"
                /\ a \in cancelled
                /\ Drop(a)
                /\ UNCHANGED <<used, pipelineState>>

(* release never blocks: it takes a token if there is one.                 *)
Release(a) == used' = IF Manual(a) \/ used = 0 THEN used ELSE used - 1

(* The second jobRunnable, with the registry as it is after the wait.      *)
Approve(a) == /\ run[a].pc = "admitted"
              /\ Enabled(Job(a))
              /\ Goto(a, "approved")
              /\ UNCHANGED <<cancelled, used, pipelineState>>

(* Mutant: the early return of the second check forgets the slot.          *)
RefuseMutant(a) == /\ run[a].pc = "admitted"
                   /\ Refusable(Job(a))
                   /\ Drop(a)
                   /\ UNCHANGED <<used, pipelineState>>
Refuse(a) == /\ run[a].pc = "admitted"
             /\ Refusable(Job(a))
             /\ Release(a)
             /\ Drop(a)
             /\ UNCHANGED pipelineState

-----------------------------------------------------------------------------
(* JobExecutor.Execute.                                                    *)

SetStatus(j, s) ==
  registry' = IF registry[j].present
              THEN [registry EXCEPT ![j].status = s] ELSE registry

executorState == <<cancelled, used, subs, pipelineOn, edit, edits, fired>>

(* The queued row is persisted and onRunStart marks the entry.             *)
Begin(a) == /\ run[a].pc = "approved"
            /\ SetStatus(Job(a), "running")
            /\ Goto(a, "starting")
            /\ UNCHANGED <<recent, executorState>>

(* The queued row could not be persisted: no callback, no event.           *)
BeginFails(a) == /\ run[a].pc = "approved"
                 /\ Release(a)
                 /\ Drop(a)
                 /\ UNCHANGED pipelineState

(* Mutant: off by one.                                                     *)
RateExceededMutant(j) == recent[j] > RateLimit[j]
RateExceeded(j) == recent[j] >= RateLimit[j]

CheckRate(a) ==
  /\ run[a].pc = "starting"
  /\ Goto(a, IF RateExceeded(Job(a)) THEN "failing" ELSE "rated")
  /\ UNCHANGED <<recent, registry, executorState>>

(* Mutants: depth off by one; no depth check and a loop detection that     *)
(* only looks at the publisher.                                            *)
ChainRefusedMutant(a) == Depth(a) > 0 /\ (Depth(a) > MaxDepth \/ InHistory(a))
ChainRefusedMutant2(a) == Depth(a) > 0 /\ a[Len(a) - 1][1] = Job(a)
(* Depth and loop, both read from the activation's own history.            *)
ChainRefused(a) == Depth(a) > 0 /\ (Depth(a) >= MaxDepth \/ InHistory(a))

CheckChain(a) ==
  /\ run[a].pc = "rated"
  /\ IF ChainRefused(a)
     THEN /\ Goto(a, "failing")
          /\ UNCHANGED recent
     ELSE /\ Goto(a, "running")
          /\ recent' = [recent EXCEPT ![Job(a)] = @ + 1]
  /\ UNCHANGED <<registry, executorState>>

(* The identity of a delegated run, or the row of an attempt, cannot be    *)
(* had: the run fails and publishes nothing.                               *)
Abandon(a) == /\ run[a].pc \in {"starting", "running"}
              /\ Goto(a, "failed")
              /\ UNCHANGED <<recent, registry, executorState>>

Kids(a, e, k) == {Append(a, <<j, k>>) : j \in Subscribers(e)}

(* The tool changes a task list: the domain event carries the chain of the *)
(* run, from the provenance in the tool's context.  Numbers from FanOut on *)
(* keep these activations apart from those of emitSuccess.                 *)
ToolPublishes(a, e) ==
  /\ run[a].pc = "running"
  /\ run[a].item < Publishes[Job(a)]
  /\ run' = Spawn([run EXCEPT ![a].item = @ + 1],
                  Kids(a, e, FanOut[Job(a)] + run[a].item), "fired")
  /\ UNCHANGED <<recent, registry, executorState>>

(* The tool, with its retries.                                             *)
ToolSucceeds(a) == /\ run[a].pc = "running"
                   /\ Goto(a, "succeeding")
                   /\ UNCHANGED <<recent, registry, executorState>>

(* The "skip" policy does not cover a dry run that cannot be recorded.     *)
ToolFails(a) == /\ run[a].pc = "running"
                /\ \/ Goto(a, "failing")
                   \/ Job(a) \in Skips /\ Goto(a, "skipping")
                /\ UNCHANGED <<recent, registry, executorState>>

(* emitSuccess, one item at a time: emit_when may filter the item out.     *)
EmitItem(a) ==
  /\ run[a].pc = "succeeding"
  /\ OnSuccess[Job(a)] # NoEvent
  /\ run[a].item < FanOut[Job(a)]
  /\ \E kids \in {{}, Kids(a, OnSuccess[Job(a)], run[a].item)} :
       run' = Spawn([run EXCEPT ![a].item = @ + 1], kids, "fired")
  /\ UNCHANGED <<recent, registry, executorState>>

(* Mutant: the publisher waits for the runs its events triggered.          *)
EmitEndsMutant(a) ==
  /\ run[a].pc = "succeeding"
  /\ OnSuccess[Job(a)] = NoEvent \/ run[a].item >= FanOut[Job(a)]
  /\ \A c \in DOMAIN run : Len(c) > Len(a) => SubSeq(c, 1, Len(a)) # a
  /\ Goto(a, "completed")
  /\ UNCHANGED <<recent, registry, executorState>>
EmitEnds(a) ==
  /\ run[a].pc = "succeeding"
  /\ OnSuccess[Job(a)] = NoEvent \/ run[a].item >= FanOut[Job(a)]
  /\ Goto(a, "completed")
  /\ UNCHANGED <<recent, registry, executorState>>

(* emitFailure: also what the circuit breaker's refusals go through.       *)
EmitFailure(a) ==
  /\ run[a].pc \in {"failing", "skipping"}
  /\ LET kids == IF OnFailure[Job(a)] = NoEvent THEN {}
                 ELSE Kids(a, OnFailure[Job(a)], 0)
         end == IF run[a].pc = "failing" THEN "failed" ELSE "completed"
     IN run' = Spawn([run EXCEPT ![a] = At(end)], kids, "fired")
  /\ UNCHANGED <<recent, registry, executorState>>

(* Deferred finalization: onRunEnd, then the slot.                         *)
Finish(a) ==
  /\ run[a].pc \in {"completed", "failed"}
  /\ SetStatus(Job(a), IF run[a].pc = "failed" THEN "error" ELSE "idle")
  /\ Release(a)
  /\ Drop(a)
  /\ UNCHANGED <<recent, subs, pipelineOn, edit, edits, fired>>

(* The oldest recorded run leaves the one-hour window.                     *)
Expire(j) == /\ recent[j] > 0
             /\ recent' = [recent EXCEPT ![j] = @ - 1]
             /\ UNCHANGED <<run, registry, executorState>>

-----------------------------------------------------------------------------
(* Registry edits, serialized by runtimeMu.                                *)

BeginEdit(op, j, todo, val, copy) ==
  /\ edit = NoEdit
  /\ edits < MaxEdits
  /\ edits' = edits + 1
  /\ edit' = [pc |-> "unregister", op |-> op, job |-> j, todo |-> todo,
              val |-> val, copy |-> copy]
  /\ UNCHANGED <<run, cancelled, fired, used, recent, registry, subs>>

(* ToggleJob copies the entry, then persists, then applies the copy.       *)
BeginToggle(j, on) ==
  /\ registry[j].present
  /\ BeginEdit("toggle", j, {}, on, [registry[j] EXCEPT !.enabled = on])
  /\ UNCHANGED pipelineOn

(* SaveJob reloads the entry from the database.                            *)
BeginSave(j, on) ==
  /\ BeginEdit("save", j, {}, on,
               [present |-> TRUE, enabled |-> on,
                pipeOn |-> (j \in Piped => pipelineOn), status |-> "idle"])
  /\ UNCHANGED pipelineOn

BeginDelete(j) ==
  /\ registry[j].present
  /\ registry[j].status # "running"
  /\ BeginEdit("delete", j, {}, FALSE,
               [registry[j] EXCEPT !.present = FALSE, !.status = "idle"])
  /\ UNCHANGED pipelineOn

(* SavePipeline switches its jobs one after the other.                     *)
BeginPipeline(on) ==
  \E j \in {i \in Piped : registry[i].present} :
    /\ BeginEdit("pipeline", j,
                 {i \in Piped \ {j} : registry[i].present}, on, registry[j])
    /\ pipelineOn' = on

(* Mutant: the handlers of the old version stay on the bus.                *)
UnsubscribedMutant == subs
Unsubscribed == subs \ {edit.job}

Unregister ==
  /\ edit.pc = "unregister"
  /\ subs' = Unsubscribed
  /\ cancelled' = cancelled \cup
       {a \in DOMAIN run : FromInterval(a) /\ Job(a) = edit.job}
  /\ edit' = [edit EXCEPT !.pc = "set",
       !.copy = IF edit.op = "pipeline"
                THEN [registry[edit.job] EXCEPT !.pipeOn = edit.val] ELSE @]
  /\ UNCHANGED <<run, fired, used, recent, registry, pipelineOn, edits>>

SetEntry ==
  /\ edit.pc = "set"
  /\ registry' = [registry EXCEPT ![edit.job] = edit.copy]
  /\ edit' = [edit EXCEPT !.pc = "register"]
  /\ UNCHANGED <<run, cancelled, fired, used, recent, subs, pipelineOn, edits>>

(* Mutant: registration looks at the job's own switch only.                *)
ResubscribedMutant == IF edit.copy.present /\ edit.copy.enabled
                      THEN subs \cup {edit.job} ELSE subs
(* registerTriggersLocked starts with the check of effectiveJobEnabled.    *)
Resubscribed == IF Effective(edit.job, edit.copy)
                THEN subs \cup {edit.job} ELSE subs

Register ==
  /\ edit.pc = "register"
  /\ subs' = Resubscribed
  /\ IF edit.todo = {} THEN edit' = NoEdit
     ELSE \E j \in edit.todo :
            edit' = [edit EXCEPT !.pc = "unregister", !.job = j, !.todo = @ \ {j}]
  /\ UNCHANGED <<run, cancelled, fired, used, recent, registry, pipelineOn, edits>>

-----------------------------------------------------------------------------
Fire == \E r \in Roots :
          \/ \E j \in Jobs : FireCron(j, r) \/ FireInterval(j, r) \/ FireManual(j, r)
          \/ \E e \in Events : FireDomain(e, r)

Step(a) == \/ Enqueue(a) \/ Ignore(a) \/ Acquire(a) \/ AbortWait(a)
           \/ Approve(a) \/ Refuse(a) \/ Begin(a) \/ BeginFails(a)
           \/ CheckRate(a) \/ CheckChain(a) \/ ToolSucceeds(a) \/ ToolFails(a)
           \/ \E e \in DomainEvents : ToolPublishes(a, e)
           \/ Abandon(a) \/ EmitItem(a) \/ EmitEnds(a) \/ EmitFailure(a) \/ Finish(a)

EditStep == Unregister \/ SetEntry \/ Register

BeginAnEdit == \/ \E j \in Jobs : BeginDelete(j)
               \/ \E j \in Jobs, on \in BOOLEAN : BeginToggle(j, on) \/ BeginSave(j, on)
               \/ \E on \in BOOLEAN : BeginPipeline(on)

(* Every root was used, every chain ended, no edit is left to begin.       *)
Quiescent == run = [a \in {} |-> At("fired")] /\ edit = NoEdit
AtRest == Quiescent /\ UNCHANGED vars

Next == \/ Fire
        \/ \E a \in DOMAIN run : Step(a)
        \/ \E j \in Jobs : Expire(j)
        \/ BeginAnEdit
        \/ EditStep
        \/ AtRest

(* Goroutines are scheduled fairly; the channel of the limiter serves its  *)
(* waiters, tools return or time out, and edits run to their end.  Nothing *)
(* obliges triggers to fire, users to edit or the window to slide.         *)
Fairness == /\ WF_vars(EditStep)
            /\ WF_vars(\E a \in DOMAIN run : Step(a))

Spec == Init /\ [][Next]_vars
FairSpec == Spec /\ Fairness

-----------------------------------------------------------------------------
TypeOK ==
  /\ DOMAIN run \subseteq Activation
  /\ run \in [DOMAIN run -> [pc : PCs, item : Nat]]
  /\ IsFiniteSet(DOMAIN run)
  /\ cancelled \subseteq DOMAIN run
  /\ fired \subseteq Roots
  /\ used \in Nat
  /\ recent \in [Jobs -> Nat]
  /\ registry \in [Jobs -> Entry]
  /\ subs \subseteq Jobs
  /\ pipelineOn \in BOOLEAN
  /\ edit \in {NoEdit} \cup Edit
  /\ edits \in 0 .. MaxEdits

(* The limiter neither leaks nor forges tokens, on any return of           *)
(* executeJob: tokens in the channel are the activations between acquire   *)
(* and release, and they never exceed its capacity.                        *)
SlotsBalanced ==
  /\ used = Cardinality(Holders)
  /\ used <= Slots

(* CheckRateLimit and RecordRun are separate critical sections, so runs    *)
(* that checked together all record: a job may pass its hourly limit, but  *)
(* only by what can be between the two sections at once.                   *)
Rated(j) == {a \in DOMAIN run : Job(a) = j /\ run[a].pc = "rated"}
RateOvershootBounded ==
  \A j \in Jobs : recent[j] + Cardinality(Rated(j))
                    < RateLimit[j] + Slots + Cardinality(ManualRoots)

(* A job's tool runs at most once along a chain of events, and never       *)
(* deeper than the circuit breaker allows.                                 *)
ChainCut ==
  \A a \in DOMAIN run :
    run[a].pc \in {"running", "succeeding", "skipping", "completed"} /\ Depth(a) > 0
      => ~InHistory(a) /\ Depth(a) < MaxDepth

(* Refusing an activation ends its chain: a chain outgrows the allowed     *)
(* depth only by the failure handlers of its last job.                     *)
ChainIsFinite ==
  \A a \in DOMAIN run :
    Depth(a) <= MaxDepth + Cardinality({j \in Jobs : OnFailure[j] # NoEvent})

(* A wiring in which failure handlers do not wait for each other in a      *)
(* circle: along the events of OnFailure the rank of a job goes down.      *)
FailureHandlersEnd ==
  \E rank \in [Jobs -> 0 .. Cardinality({j \in Jobs : OnFailure[j] # NoEvent})] :
    \A j, k \in Jobs :
      OnFailure[j] # NoEvent /\ OnFailure[j] \in Listens[k] => rank[k] < rank[j]

(* Outside an edit the triggers registered are those of the effectively    *)
(* enabled jobs.                                                           *)
RegistrationFollowsRegistry ==
  edit = NoEdit => subs = {j \in Jobs : Enabled(j)}

(* No trigger fires a job that is disabled or deleted, except while the    *)
(* edit that changes that very job is being applied.                       *)
NoFiringWhenDisabled ==
  [][\A a \in DOMAIN run' \ DOMAIN run :
       Manual(a) \/ Enabled(Job(a)) \/ (edit # NoEdit /\ edit.job = Job(a))]_vars

(* Every chain comes to an end, whatever waits for slots: the publisher    *)
(* holds no slot for the runs it triggers.                                 *)
ChainsEnd == <>[](DOMAIN run = {})

=============================================================================
