# Verification of the assistant's core

This directory holds TLA+ models of `inclunet/assistente`, a desktop assistant
written in Go (`internal/`, `controllers/`, `cmd/asst`) with a React front end.
The program talks to language models and tools, keeps conversations, and runs
*jobs*: unattended automations fired by schedules, events, hotkeys or users.

The models cover five places where the program is concurrent and can fail half
way: the jobs engine with its start and stop, the durable records of job runs,
the questions the backend asks people on the screen and in messengers, the
execution of commands with the runtime, the ledger and the processes around it,
and the layers of commands that a run of a job keeps active.
TLC checks them on small instances; TLAPS proves the safety properties for
every value of the constants.

## Inventory

Sizes are lines of Go without tests; "hard" names the behaviour that makes the
component difficult to test.

| Component | Where | State it keeps | Operations | Hard |
|---|---|---|---|---|
| Jobs: execution pipeline | `internal/jobs` (11.7K with the rest of the package): `manager.go` executeJob, `executor.go`, `circuit.go`, `eventbus.go`, `scheduler.go`, `registry.go` | registry entries, bus handlers, cron entries and tickers, the limiter's channel, hourly counters | fire, wait for a slot, execute with retries, publish events, toggle, save, delete, switch pipelines | chains of events through several paths, shared slots, edits during runs, one status field for overlapping runs |
| Jobs: life cycle | `manager.go` Start/Stop, `scheduler.go` Stop, `eventbus.go` Close | started, stopping, the retention loop, the bus of the session | Start, Stop | drains runs while holding two locks; interval and manual runs outlive Stop; concurrent callers |
| Jobs: durable run records | `executor.go`, `repository.go` (PersistRunState) | run rows, run events, outbox | queued, running, retrying, terminal | crash or failed write between two transitions |
| Jobs: command origins | `command_event_origin.go`, `command_provenance.go`, `command_service_identity.go` | origins in contexts, runtime proofs | capture, inherit, revalidate | session changes between capture and use |
| Jobs: maintenance | `command_maintenance_*.go`, `internal/commandmaintenance` | cursors, budgets | retention passes, compaction of run events | cancelled passes, cursors |
| Questionnaires | `internal/questionnaire` (0.7K), `messaging/channel_questions.go`, the dialog in `useBackendQuestionnaire.ts` and `App.tsx` | pending maps, display token, answer channels, the dialog | request, respond, time out, cancel; register, send, answer by message | answer against timeout, late events against the next dialog, questions answered before they are seen |
| Chat turns | `internal/chat` (10.1K), `internal/turnlease` | leases, streams, timelines | admit, stream, cancel, publish, reconcile | cancellation against the last items, recovery pages |
| Tool executor and invocation ledger | `internal/tools`, `internal/toolinvocations` | invocation rows | start, complete, hydrate | result after timeout |
| Command runtime | `internal/commandruntime` (0.8K), its ports in `internal/app`, the gate of `internal/commandsecurity` | the snapshot, registered generations, published projection, security epoch | bootstrap, reset, stop; transitions of session and vault | resets that overtake a bootstrap, sessions that change under it |
| Command execution and ledger | `internal/commandexecution`, `internal/commandledger`, `internal/commanddecision`, `internal/commandsecurity`, `internal/commandinstance` | ledger rows, decisions, commit claims, epochs, the instance lock | reserve, decide, queue, run, finish, claim, drain, recover | cancellation against results and commits, dead processes, recovery beside running commands |
| Command activation | `internal/commandjobevents`, `internal/commandjobactivation`, `internal/commandactivation`, the passes of `internal/commandmaintenance` and `commandruntime/maintenance.go` | outbox of facts, claims, leases, the ledger of activations, budgets | leave a fact, claim, deliver, retry, bury, purge; renew, revoke, recover, retain | redelivery, runs that die, three removals of one pass that must not take each other's sources |
| Subagents | `internal/subagent` (1.9K) | runs, waiters | start, wait, cancel | cancellation against completion |
| MCP, ACP | `internal/mcp`, `internal/acp` | connections, catalogues, agent sessions | connect, sync, own a turn | reconnects |
| Terminal | `internal/terminal` (1.9K) | shell sessions | run, interrupt, close | close against output |
| Messaging | `internal/messaging` (2.8K) | gateways, pending questions | deliver, reconcile | duplicate delivery |
| Hotkeys, desktop instance, speech, LLM providers, OAuth, credentials, database, skills, updater, command deck, controllers, Wails/HTTP APIs, CLI, front end | the rest | mostly operating system handles, vendor connections, rows | | mostly I/O and presentation |

How they interact: triggers (cron, tickers, hotkeys, the event bus) call
`Manager.executeJob`; it consults the registry, takes a slot of the limiter and
calls `JobExecutor.Execute`, which consults the circuit breaker, persists the
run, calls one tool through the tool executor and publishes events on the bus,
whose handlers call `executeJob` again in goroutines of their own. Tools may
change task lists, whose domain events reach the same bus with the chain of the
run. The UI's requests edit jobs and pipelines through the manager, serialised
by `runtimeMu`. `Start` and `Stop` own the scheduler and the bus. Login and
logout begin a transition of the security epoch, reset the command runtime and
bootstrap it again; a bootstrap recovers the rows dead processes left, projects
the commands of the session and enables the inputs. A command that is executed
is admitted under the epoch it was reserved in; the end of the process closes
the epochs, drains the executor, recovers its own rows and gives the lock of
the database back.

What makes each correct, in one line: a chain of runs is cut and ends; the
limiter is exact; triggers follow the registry; a refusal refuses what it says;
a run's record keeps its history; Stop ends and leaves nothing that was not
told to; a question is answered at most once and the screen is freed; one map
of commands is visible, that of the current session; a command's record is
true, whoever died; a turn has one owner; a delivered command is not delivered
again.

## Modules

| Module | Role |
|---|---|
| `JobPipeline` | the execution pipeline of a started manager, with registry edits |
| `MCJobPipeline` | wirings of jobs for TLC; one `JobPipeline_*.cfg` per question |
| `JobPipelineProofs` | TLAPS proofs of the seven safety properties of `JobPipeline` |
| `JobLifecycle` | Start and Stop of the manager, with what they start, cancel and wait for |
| `MCJobLifecycle` | two callers, one job, two runs for TLC (`JobLifecycle_lifecycle.cfg`) |
| `JobLifecycleProofs` | TLAPS proofs of the safety properties of `JobLifecycle` |
| `RunRecord` | what the durable record of a run promises |
| `JobRun` | `Execute` as the writer of run records, with failures, removals, sessions and crashes |
| `MCJobRun` | two runs for TLC (`JobRun_record.cfg`) |
| `JobRunProofs` | TLAPS proofs of the three invariants of `JobRun` and of its refinement of `RunRecord` |
| `Question` | what whoever asks a person something is promised |
| `Questionnaire` | `questionnaire.Manager`, the events it emits and the dialog that shows them |
| `MCQuestionnaire` | interchangeable questions for TLC (`Questionnaire_*.cfg`) |
| `QuestionnaireProofs` | TLAPS proofs of the safety properties of `Questionnaire` and of its refinement of `Question` |
| `ChannelQuestions` | `messaging.ChannelQuestions`: the same promise kept in the conversations of a messenger |
| `MCChannelQuestions` | questions in two conversations for TLC (`ChannelQuestions_*.cfg`) |
| `ChannelQuestionsProofs` | TLAPS proofs of the safety properties of `ChannelQuestions` and of its refinement of `Question` |
| `CommandMap` | what the command runtime promises about the map of commands it offers |
| `CommandRuntime` | `commandruntime.Controller` with its clients, its ports and the security gate |
| `MCCommandRuntime` | two clients and one session for TLC (`CommandRuntime_runtime.cfg`) |
| `CommandRuntimeProofs` | TLAPS proofs of the safety properties of `CommandRuntime` and of its refinement of `CommandMap` |
| `CommandRecord` | what the execution of commands promises about one invocation: its record, its handler, its commit |
| `CommandExecution` | `ExecuteEnvelope`, the ledger, decisions, epochs, and processes that end and restart |
| `MCCommandExecution` | interchangeable operations for TLC (`CommandExecution_*.cfg`) |
| `CommandExecutionProofs` | TLAPS proofs of the safety properties of `CommandExecution` and of its refinement of `CommandRecord` |
| `Activation` | what job runs leave in the outbox, the claims and leases rules make of it, and the maintenance pass |
| `MCActivation` | the scope of rules for TLC (`Activation_*.cfg`) |
| `ActivationProofs` | TLAPS proofs of the safety properties of `Activation` |

### JobPipeline

An *activation* is one firing of one job. It is named by its chain, the
sequence of `<<job, number>>` pairs from the root trigger to the job itself, so
that the `ChainHistory` the code carries in payloads and contexts is the chain
without its last element and no separate history can go out of step by
construction error of the model; the code's `DetectLoop` and depth test become
operators on the chain. The three ways the code passes the history on (success
payload, provenance in the context of a failure event, origin of a tool's
domain event) each append the job once: `emitSuccess` explicitly, the other two
through `runProvenance`.

| State | In the code |
|---|---|
| `run` | goroutines between the trigger and the end of `Execute`; `pc` is where, `item` the fan-out index or the events the tool published |
| `cancelled` | activations whose ticker context was cancelled |
| `used` | tokens in `runLimiter.sem` |
| `recent` | `CircuitBreaker.runCounts` inside the window |
| `registry` | `Registry.jobs`: present, enabled, pipeline enabled, status |
| `subs` | jobs with handlers on the bus and entries in the scheduler |
| `pipelineOn` | the persisted switch of the pipeline |
| `edit` | the mutator that holds `runtimeMu` and how far it is |

| Actions | In the code |
|---|---|
| `FireCron`, `FireInterval`, `FireDomain`, `FireManual` | cron goroutine, ticker goroutine (runs inline, so its firings do not overlap), task-list event, `RunJob` (straight into `Execute`: no checks, no slot) |
| `Enqueue`, `Ignore`, `Acquire`, `AbortWait`, `Approve`, `Refuse` | `executeJob`: first checks, limiter, second check with the current entry |
| `Begin`, `BeginFails`, `CheckRate`, `CheckChain`, `Abandon`, `ToolPublishes`, `ToolSucceeds`, `ToolFails` | `Execute` up to the tool's outcome |
| `EmitItem`, `EmitEnds`, `EmitFailure`, `Finish` | events and the deferred finalization with `onRunEnd` and the release of the slot |
| `Expire` | `pruneOldRuns` |
| `BeginToggle`, `BeginSave`, `BeginDelete`, `BeginPipeline`, `Unregister`, `SetEntry`, `Register` | the mutators of the manager, split where they leave a critical section that triggers or runs also enter |

Data left out: payloads and templates (`when` and `emit_when` become choices),
tool arguments and results, retries and their delays (`ToolSucceeds` and
`ToolFails` are the outcome of the whole loop), persistence of rows, wording of
events. A failed write before an edit changes nothing and is the edit not
beginning. `onRunStart` and `onRunEnd` are one step each although they read
the entry's pointer and write its field without a lock.

### JobLifecycle

`JobPipeline` begins when `Start` has returned; `JobLifecycle` is `Start` and
`Stop` themselves. The inside of an edit and of a run is left to `JobPipeline`:
here an edit is one step, and a run is a tool that may edit a job, then an
event.

| State | In the code |
|---|---|
| `call`, `mu` | where each caller of `Start` or `Stop` is, and who holds `Manager.mu` with `runtimeMu`; edits ask for `runtimeMu` only, so one variable is enough |
| `stopping`, `started` | the channel a second `Stop` waits for, and the flag |
| `present`, `enabled`, `scheduled`, `heard` | the registry, the scheduler's entries, and how many handlers each job has on the current bus |
| `early` | jobs whose triggers an edit registered before `Start` |
| `scheduler`, `bus`, `closed` | the cron engine (`draining` while `cron.Stop` waits), the number of the current bus and the buses that were closed |
| `handle`, `loop`, `cut`, `stopped` | `retentionStop`, the retention loops, their contexts and their channels |
| `run` | runs in flight: what fired them, their stage, the bus of their handler, the bus they are about to publish on |

| Actions | In the code |
|---|---|
| `StartFails`, `StartLoads`, `StartLaunches` | `Start`: replace a closed bus, load the jobs and register their triggers, start the engines |
| `StopJoins`, `StopBegins`, `StopCancels`, `StopAwaits`, `StopLocks` | the first half of `Stop`, which leaves the locks while it waits for the retention loop |
| `StopSchedule`, `StopCloses`, `StopDrains`, `StopReturns` | the second half, with the locks held |
| `BeginPass`, `EndPass`, `EndLoop`, `EndSession` | the retention loop and the end of the context it inherits |
| `EditJob` | save, toggle and delete, which differ in whether they look at `started` |
| `FireCron`, `FireInterval`, `FireDomain`, `FireManual` | triggers |
| `CallMutator`, `Mutate`, `Abandon`, `ReturnTool` | a tool that edits a job, waits for `runtimeMu`, and may be left alone by the executor when its time is over |
| `PickBus`, `Publish`, `EndRun` | the executor reads its bus without a lock, then enters `Publish` |

### RunRecord and JobRun

Every state change of a run is one immediate transaction, `PersistRunState`,
that updates the row and appends a run event. The row repeats the last event,
so the model keeps the events only. `RunRecord` says what a reader of the rows
may count on: born `queued`, `started` and `retry_scheduled` in turn, one
terminal state at the end, gone for good once removed. `JobRun` is the
executor:

| State | In the code |
|---|---|
| `exec`, `tries` | where `Execute` is and how many attempts it began |
| `mem` | `len(rl.RunEvents)`, the timeline in memory, which also counts `triggered` and events whose transaction failed |
| `log`, `removed` | `job_run_events` of the run, and the runs whose rows were deleted |
| `proof`, `identity` | the runtime proof of the run (captured, then live in `Manager.commandRuntime`) and the identity persisted with it |
| `session`, `authority` | the generation of the security epoch and the authority last captured |
| `accepting` | `commandRuntimeAccepting`, together with its token |

| Actions | In the code |
|---|---|
| `Admit`, `Refuse`, `Queue`, `Register` | identity capture, early returns, the queued row, `onCommandRuntimeStart` and the `triggered` event |
| `Start`, `ScheduleRetry`, `Return` | the retry loop; `Return` is every way out of it |
| `Close`, `Finish` | the deferred finalization: the proof first, the terminal event after |
| `SessionChange`, `Stop`, `StartManager`, `Crash`, `RemoveRecord` | epoch mutations, `Manager.Stop`/`Start`, the death of the process, `DeleteJob` and the retention by age and by count |

A failed transaction (`RecordFails`) leaves the record as it was: either the
row is missing, when only a `queued` event could create it, or the database
refuses. The causes are not told apart. After a crash nothing resumes a run
and no startup pass ends its row: the record stays at its last state, which is
why the promise says what may be appended and not that a terminal state comes.

### Question, Questionnaire and ChannelQuestions

`Router.Ask` sends a question to one of two surfaces that answer the same
promise, `Question`: at each place (the screen, a conversation) one question at
a time is open to answers; the first reply accepted while it is open is the
only one it can be answered with; an outcome never changes. The promise allows
that a question that was replied to ends unanswered, because the asker may give
up in the same instant.

`Questionnaire` is the screen, from the asker to the dialog and back:

| State | In the code |
|---|---|
| `asker`, `outcome`, `answer` | where `RequestQuestionnaire` is and what it returns |
| `display`, `ahead` | the channel with one token, and its blocked receivers, which the Go runtime serves in order |
| `pending`, `response` | `Manager.pending` and the buffered channel of each question |
| `call` | one call of `Respond` per click, between its two steps, and the handler in `App.tsx` that awaits it |
| `bus`, `dialog` | events on their way to the interface, in order, and the question of `useBackendQuestionnaire` |

| Actions | In the code |
|---|---|
| `Request`, `Acquire`, `Abandon` | the first `select` |
| `Show`, `Receive`, `Expire` | the opening event, and the second `select`; `Expire` is the deadline or the end of the asker's context |
| `Forget`, `Free` | the deferred calls, in their order |
| `Lookup`, `Deliver` | the two halves of `Respond`, which leaves the lock in between |
| `Click`, `Settle` | submit or cancel, and `clear` once `Respond` accepted |
| `Notify` | the two event handlers |

`ChannelQuestions` is the messenger. There is no token and no dialog; a
question is refused while its conversation has one, it is registered before its
message is sent, and any message of the conversation may decide it.

| State | In the code |
|---|---|
| `asker`, `outcome`, `answer` | where `AskOnChannel` is and what it returns |
| `pending`, `response` | `ChannelQuestions.pending` and the question's channel |
| `verdict` | what `TryAnswer` told the gateway about each message |

| Actions | In the code |
|---|---|
| `Unfit`, `Register`, `Busy`, `Send`, `SendFails` | `AskOnChannel` up to its `select` |
| `Receive`, `Expire`, `Cancel`, `Forget` | the branches of the `select`, `expire` and the deferred `forget` |
| `BeginTurn`, `Ignore`, `Decide` | `TryAnswer`, one critical section per message |

Data left out: the text of questions and answers (a response is the click or
the message that carries it), the mapping from numbers to options and the
comparison of contacts (both are the choice between `Ignore` and `Decide`), and
notices sent to the conversation. That the interface receives events in the
order of their emission is assumed of the Wails runtime.

### CommandMap and CommandRuntime

`CommandMap` is the promise to whoever uses the map of commands: at most one
exists, it is numbered anew, it becomes visible in the order begun, published,
enabled, it may be retired at any of these points, and a retired number never
comes back. The refinement reads the number off `last` and the point off
`Visible`: `registered`, `published` and `enabled` are three sets the adapter
keeps for it, and `Reset` takes a generation out of all of them at once
(`Invalidate`) beside a worker that still carries its number.


| State | In the code |
|---|---|
| `call` | each caller of `Bootstrap`, `Reset` or `Stop`: in `submit`, waiting for its answer, or at one of the steps that `Reset` and `Stop` take before they queue |
| `worker` | where `Controller.loop` is, for which caller and with which generation |
| `cancelled`, `aborter`, `active` | the context of the bootstrap under way, `activeCancel`, `activeGeneration` |
| `stopping`, `cut`, `snapshot` | `stopOnce`, `rootCtx`, `Controller.state` |
| `last`, `registered`, `proof`, `published`, `enabled` | the adapter in `internal/app`: generations begun, those still valid, the session and epoch of the last, projections and inputs |
| `epoch`, `open`, `session`, `unlocked` | `EpochService` and what the host says of session, vault and desktop |

The worker's steps are those of `bootstrap`, `reset` and `stop`, one per call
of a port or check (`Retire`, `Capture`, `Activate`, `Project`, `Publish`,
`Enable`, `Switch`, `Confirm`, `Admit`, `Store`), because a `Reset` may cut in
between any two of them (`ResetCancels`, `ResetLoads`, `ResetInvalidates`) and
sessions and vault change meanwhile (`BeginTransition`, `ChangeSession`,
`EndTransition`, `ChangeLock`). `Admit` and `Store` are the two ends of the
section of the gate in which Ready is stored. A port of a bootstrap may fail at
any point (`Fail`, `CleanUp`, `EndFailed`). The runtime is mounted after a
login or when the catalogue of commands is refreshed, so it may begin with or
without a session.

### CommandRecord and CommandExecution

`CommandRecord` is the promise about one invocation: the record moves along
`validEnvelopeTransition`, a handler starts at most once and in the step that
makes the record `running`, a commit is claimed only while the record says so
and the handler was not given up, a closed record names what the handler did or
says that nobody can tell, and the death of a process loses handlers and no
record. It has no calls, processes, epochs or decisions: `CommandExecution`
maps its `ledger`, `effect` and `claim` to them.


| State | In the code |
|---|---|
| `ledger`, `home`, `receipt` | rows of the ledger with the startup and epoch they were reserved in, and of decisions |
| `effect`, `claim` | the handler of each invocation and its `CommitOwnership` |
| `op` | calls of `ExecuteEnvelope`: where they are, the status they believe their row has, whether their context was cancelled |
| `process`, `lock` | each startup from its birth to its drain or death, and the lock of the command database |
| `epoch`, `open` | `EpochService` of each startup |

| Actions | In the code |
|---|---|
| `Enter`, `Prepare`, `Reserve`, `Ask`, `Answer`, `Queue`, `AdmitExecution`, `Await`, `AwaitClaimed`, `Finish`, `Panic` | the pipeline, in its order; every store call may fail, which leaves the row where it was |
| `Cancel`, `Claim`, `EndHandler` | the caller, and the handler, which claims its commit in one section with the transition that cancels its own call |
| `BeginTransition`, `EndTransition` | logins, logouts, locks, changes of configuration |
| `Startup`, `Close`, `Shutdown`, `Drained`, `Release`, `Crash` | a process binds its instance, drains, releases the lock, or dies |
| `RecoverDecision`, `RecoverInvocation`, `ReconcileDecision` | the coordinators that close rows of proven-closed generations, and stale decisions of the own session |

"refused" stands for `denied`, `suppressed`, `rejected_stale` and
`cancelled_stale`, "failed" for `cancelled` too. `AwaitQueue` is a delay, the
first `Admit` after the reservation is part of the step that follows it, and the
preflight of the bootstrap, which only reads, is left out.

### Activation

A rule may keep a layer of commands active while a job runs. The executor
leaves a *fact* in the outbox with each transition of the run it writes; the
consumer gives each fact to every enabled rule; a rule that takes the first
fact of a run claims the run with a lease, later facts move the claim, the
terminal fact ends it. Rule and run together are a *cycle*. One maintenance
pass renews leases, delivers facts, removes old ones, takes claims back that
have no living run, and prunes runs, claims and ledger entries.

| State | In the code |
|---|---|
| `phase`, `written` | where the execution of a run is and how many facts it wrote (`PersistRunState`) |
| `alive`, `own` | `Manager.commandRuntime` and its watches: runs that can prove they live, and runs of the session that is still current |
| `kept`, `deleted` | rows of `job_runs`, and jobs that were deleted with theirs |
| `outbox`, `attempts`, `old` | rows of `commandjobevents`: delivery state (`lapsed` is processing past its lease), attempts, and facts past their replay deadline |
| `claim`, `cursor`, `lease` | the claim of a cycle, the fact it comes from and its lease (`fresh` and `due` are valid leases of two ages, `lapsed` is past its end) |
| `ledger` | what each fact did to each cycle, kept after the claim is gone |
| `enabled`, `granted`, `matched`, `workspace` | the rules, the validity of their grants, their conditions, the current workspace |
| `pc`, `beats`, `batch`, `scanned`, `more` | the pass: its stage, leases still to renew, facts claimed, the recovery's cursor, whether work was left |

| Actions | In the code |
|---|---|
| `Queue`, `Register`, `Write`, `Close`, `End`, `EndUnrecorded` | the executor, seen from the outbox |
| `LeaseAges`, `DeliveryLapses`, `HorizonPasses` | time |
| `Disable`, `Enable`, `GrantLost`, `ConditionTurns`, `SwitchWorkspace` | the user and the grants |
| `SessionEnds`, `DeleteJob`, `Crash` | the session, the job, the process; they come between any two steps of a pass |
| `BeginPass`, `Renew`, `Requeue`, `ClaimBatch` | heartbeat, expired deliveries, `ClaimBatch` |
| `Consume`, `Bury`, `Retry`, `LeaseLost` | the four outcomes of one fact: one transaction for all rules |
| `Purge`, `Recover`, `RetainRuns`, `RetainActivations`, `Defer` | `PurgeExpired`, `reconcileBatch`, `retainableRunQuery`, `Retain`, and a cleaning that failed |

`Moves`, `Closed`, `Behind` and `Known` are the cases of `apply`: a fact may
move the cycle, be known already, be older than the cursor, or meet a cycle
that is over, whose ledger bars it even when the claim was removed. `LiveClaim`
is the check that renewal and recovery share. Two relations between durations
are taken from the code's defaults: a claim does not expire before its lease,
and no retention is shorter than a lease. A heartbeat covers all leases, where
the code reads them in pages. A pass recovers decisions and invocations before
claims, and an error there ends it: that belongs to `CommandExecution` and is
left out here, so `ClaimsEnd` speaks of databases without a row the recovery of
invocations cannot seal (finding 1). Left out too: the projection that readers
see, facts with conflicting fingerprints, the deletion of layers and rules,
budgets of a pass, compaction, and the manual and context activations of
`internal/commandactivation`, which share the tables and not the cycle.

### Bounds

Root triggers come from the four finite sets `CronRoots`, `IntervalRoots`,
`DomainRoots` and `ManualRoots`; edits are bounded by `MaxEdits`. Everything
else is finite because the code bounds it (slots, depth, fan-out). The
instances use two and three jobs. In `ring` a firing of the clock meets one of
an event, and two slots let two runs of a job stand between the check and the
record of its hourly limit, which is one: the limit is passed there, and a
third run, from the fan-out of two, is what a weaker check would let through as
well. All its jobs are of one pipeline, so that its persisted switch does not
double the states. In `edit` one slot makes runs wait, and an interval meets a
manual run, which takes no slot. Further slots multiply the states without a new
race, and the theorems hold for every number of slots.
Two edits show an edit that undoes another and a second edit that meets the
runs of the first.

`JobRun`: two runs (they share the session, the authority and the tracker, and
nothing else), two attempts (every state change occurs, `retry_scheduled` to
`started` included), `MaxSessions` bounds session changes and crashes,
`MaxFaults` failed transactions and crashes; two faults allow a failed
transition followed by a failed terminal write. Removals are not bounded: a
record is removed once.

`Questionnaire`: two questions, one on screen and one in line, with two clicks
each, so that a second click meets the first and late events of one question
meet the dialog of the other. A third question only makes the line longer, and
the proofs cover every number of them. `ChannelQuestions`: three questions, two
of them in one conversation, and two messages per conversation: one decides,
the other misses, comes before the question is sent, or decides the next
question.

`JobLifecycle`: one job, since jobs only meet in the counters of the bus, and
every `Start` loads an arbitrary registry; two callers, so that a `Stop` meets a
`Start` or another `Stop` at every step; two runs, one that publishes and one
that is fired or drained; two buses, that is, two sessions.

`CommandRuntime`: two clients, so that a reset or a stop meets a bootstrap at
every step; two generations, the one that is retired and the one that replaces
it; one change of the epoch and one session, which may end and begin again.

`CommandExecution`: two calls, which may be of the same invocation; in
`execution` an invocation that asks for a decision and one that owns its
commit, in `drain` one that does both; two startups, the second of which
recovers the first; `MaxEpochs` bounds the invalidations of a process. `strand`
has two plain invocations, the first of an external token.

`Activation`: one run, because runs meet only in the batch and in the page, and
one rule of one of two workspaces, so that the rule may lose its workspace; in
`apart` two rules, since that is what the run asks about. Three facts (queued,
one in the middle, terminal) let a fact be delivered late, twice, or behind the
terminal one. Two attempts where the code has eight: the last attempt differs
from the others, further ones repeat. A batch of two splits three facts over
passes, and a page of one makes the recovery take several. One change of the
surroundings at any point of a pass (`MaxChanges`); two or more are covered by
the proofs. The instance has 534,557 states.

### Runs

| Run | Checks | Shows |
|---|---|---|
| `ring` | `ChainIsFinite`, `ChainCut`, `RateOvershootBounded`, `ChainsEnd` | three jobs with two slots: a and b in a ring, b fans out, and c, which the clock fires, handles a's failures and creates the task a hears, a second ring. No job runs twice along a chain nor too deep in it, and the circuit breaker's refusals end the chains; checking and recording a run are separate critical sections, so two runs of one job pass the check of a limit of one together and both record, but the limit is passed by less than the slots plus the manual runs; chained runs that compete for the slots of their publishers all end |
| `edit` | `SlotsBalanced`, `RegistrationFollowsRegistry`, `NoFiringWhenDisabled` | two edits against interval, manual and event firings |
| `record` | `SequencesGrow`, `LiveProofIsCurrent`, `RecordSpec` | two runs with every failure implement `RunRecord`; events stay in order under two numberings; a live proof is current |
| `screen` | `TurnsAreExclusive`, `OrphanIsLeaving`, `LiveDialogStays`, `QuestionSpec`, `AskersReturn`, `ScreenIsFreed` | the screen keeps the promise; the token is neither lost nor doubled; late events never remove the next dialog; everyone in line returns and no orphaned dialog stays |
| `decide` | `WaitingIsAnswerable`, `NothingLeftBehind`, `ExpiredMeansUndecided`, `QuestionSpec`, `AskersReturn` | messengers keep the promise; whoever waits can be answered; nothing stays registered; a deadline hides no answer and ends every wait |
| `lifecycle` | `DrainIsComplete`, `SurvivorsAreCancelled`, `LoopHasOneOwner`, `TriggersOfTheSession`, `CallsReturn` | concurrent Starts and Stops with edits and runs that edit: nothing runs on a closed bus after the drain, survivors were told to end, the retention loop has one owner, no session inherits triggers, and every call returns although Stop waits for runs that want its lock |
| `runtime` | `OneMap`, `CommitIsCurrent`, `MapSpec`, `CallsReturn` | resets and stops at every point of a bootstrap, with sessions and vault changing, implement `CommandMap`: visible in order and never back once retired; one visible map, Ready only for the current session, every caller gets an answer |
| `execution` | `OwnerAlone`, `CommandSpec`, `StartIsAuthorised` | cancellations, invalidations, duplicates, failed writes, a crash and a restart implement `CommandRecord`; nobody writes over the row of a call under way, nothing starts unauthorised |
| `drain` | `DrainEnds`, `ClosedRowsAreRecovered` | the drain of a process ends whatever handlers do, and the rows of closed generations are sealed |
| `strand` | `RowsOfTheDeadAreRecovered`, violated | the recovery of the next process stops at a dead process's row of an external token, and the ordinary row behind it stays unfinished |
| `activation` | `SourcesAreKept`, `TerminalIsObeyed`, `SpentForGood`, `FactsSettle`, `ClaimsEnd` | a run, a rule and passes against time, crashes, sessions, deletions and grants: no removal takes the source of a claim in effect or the run of a fact to deliver; a delivered end ends the claim; a cycle that is spent stays spent; every fact settles; a run that is over, recorded or not, ends without an active claim |
| `apart` | `RulesAreIndependent`, violated | the refusal of one rule gives back, and in the end buries, a fact another rule was ready to take |

The type invariants are proved for every value of the constants, so no run
lists them. Nor does a run list `RetiredForGood` and `RecordIsTrue`, which
the refinements checked in their place contain, and the properties that serve
as the safety half of a liveness property (see Proofs): TLC agreed with each on
these instances before it was proved, and the proof covers every instance.

The runs of questions disable the deadlock check because the system stops once
every question has its outcome. `record` disables it because the system stops
when both runs ended and the bounds on sessions and faults are used up, and so
do the runs of `CommandExecution` when every process is gone. `activation` and
`apart` disable it although passes go on for ever, since nothing is asked about
it there. In the other runs
the deadlock check is on: the pipeline's only state without work is `AtRest`,
the manager can always be edited or started, and a stopped runtime answers.

Fairness (`FairSpec`, used by `ring`): the steps of activations taken together
and the steps of the edit in progress are weakly fair. Goroutines are scheduled
by the runtime, every tool call has a timeout in the tool executor (six
minutes), and a blocked `acquire` does not disable the steps of the activations
that hold slots. Nothing obliges a trigger to fire, a user to edit or the hour
to pass. Fairness of the union is weaker than fairness of each activation, and
enough because chains are finite.

`screen` and `decide` use weak fairness per question: goroutines are scheduled,
every question has a deadline (`DefaultTimeout`, `ChannelTimeout`), the
messenger's send returns, and the interface delivers events and runs its
handlers. No one has to answer, no message has to come and no context has to
end.

`lifecycle`: weak fairness of each caller under way, of the end of each
retention pass and of each run's next step. A tool that waits for the lock of
the manager is left alone when its time is over (`tools/executor.go:356`),
which is what lets Stop end: without it (`AbandonMutant`) Stop and the run wait
for each other. Nobody has to call, edit or fire.

`runtime`: weak fairness of the worker, whose ports return, and of each caller,
and strong fairness of the worker taking a given caller's operation, since
blocked senders of a Go channel are served in order. `drain`: weak fairness of
each call's next step, of the drain and of the recovery. Handlers and callers
owe nothing: the drain ends because a wait for a claimed commit has a deadline.

`activation`: weak fairness of the pass, which the manager's maintenance loop
begins again and again and whose stages have budgets, and of the lapse of a
delivery's lease, which is time. Runs need not go on, leases of cycles need not
age, and the user owes nothing: a claim whose run is over ends because the
recovery does not find it alive.

### Findings

1. `strand`: `commandledger` records invocations of external tokens and job
   services, but `validGenerationScope` (`maintenance.go:47`) accepts local
   sessions and the system only. `CoordinatorRecovery.Recover` returns the error
   at the first such row of a closed generation and never comes to the rows
   behind it. The run shows it: a process dies and leaves a row of an external
   token and, behind it, one of a local session; the next process takes the lock
   and serves, and the second row is never closed. With `External = {}` the
   property holds on the same instance. `coordinator_recovery.go:11` says the
   recovery covers the whole instance, and the recovery of decisions does take
   external tokens. Read in the code and not in the run: a draining process that
   meets such a row keeps its instance lock until it exits
   (`app_command_drain.go`), every later bootstrap fails at it
   (`app_command_lifecycle_runtime.go:65`), and so does every maintenance pass,
   before it recovers claims (`coordinator.go:294`).
2. `apart`: `Consume` gives a fact to all enabled rules in one transaction and
   returns the first error (`consumer.go:217`); `authorizeCommandJob`
   (`app_command_maintenance.go:331`) makes a rule of another workspace such an
   error. The fact is retried, and buried at its last attempt, for the rules
   that were ready to take it as well, while
   `aep/0103-comandos-acionadores-e-camadas-contextuais.md:3530` says that two
   rules that watch one run have independent cycles and
   `recovery_matrix_test.go:22` expects rules of three scopes to be applied
   together.

### Observations

Behaviour the models contain that a maintainer should know of; no run singles
it out.

- A job that handles its own failure event is fired again by each refusal of
  the circuit breaker (`executor.go:398`), without bound: refused activations
  are not recorded, so the hourly limit does not stop them. `circuit.go:15`
  promises protection against infinite loops. `ChainIsFinite` holds for wirings
  without a circle of failure handlers (`ring`, `ChainsAreFinite`).
- `manager.go:1217` refuses to delete a running job, but the status is one
  field per job that overlapping runs share: the first that ends makes the job
  deletable while the second executes.
- `ToggleJob` copies the entry, persists it and then installs the copy
  (`manager.go:424-430`). A run that ends in between leaves the job reported as
  running, and undeletable, until another run of it ends or it is saved.
- `questionnaire/manager.go:24` says a response to a question that lost its
  owner is refused. `Respond` may find the question before its deferred removal
  and its buffered channel takes the response: the dialog reports success and
  nobody reads it. `Question` allows it: a question that was replied to may end
  unanswered.
- In a messenger only the deadline looks for an answer that came in with it; a
  cancelled turn or a failing send does not, although `AnswerDelivered` is
  documented as delivered to the asker (`channel_questions.go:78`).
- `ToggleJob` and the pipeline switch register triggers in a manager that is not
  started, which `SaveJob` avoids; the first `Start` then doubles the handlers
  of that job (`early`). `TypeOK`, proved as `TypeCorrect`, says they never
  become more than two.
- Manual and interval runs outlive `Stop`; what they publish after the next
  `Start` goes to the new bus, whose jobs may be another user's.
- A `Reset` whose early invalidation lands between the last check of a bootstrap
  and its return leaves a Ready and published snapshot without a map until the
  reset is served, and for good if its caller gives up first. `OneMap` therefore
  says what a registered generation implies and not the converse.
- A finish that fails leaves an unfinished row that makes the preflight of every
  later bootstrap of the process refuse (`app_command_lifecycle_runtime.go:114`)
  until a restart recovers it; a decision accepted just before a logout does
  the same, since only the session it belongs to may reconcile it.
- `retainableRunQuery` spares the run of a claim in effect unless the run has
  ended. An ended run whose terminal fact was buried may thus be removed while
  a claim on it, further back in the recovery's pages, is still active: the
  claim is bare of its run until the recovery comes to it. `SourcesAreKept`
  excludes ended runs for that reason, and `ClaimsEnd` says the recovery comes.

## Proofs

`JobPipelineProofs` assumes `PipelineAssumption` (types of the constants,
finitely many jobs and roots, root sets disjoint, at least one slot) and
proves, for `Spec`:

| Theorem | Statement |
|---|---|
| `TypeCorrect` | `Spec => []TypeOK` |
| `LimiterIsExact` | `Spec => []SlotsBalanced` |
| `ChainsAreCut` | `Spec => []ChainCut` |
| `RegistrationIsConsistent` | `Spec => []RegistrationFollowsRegistry` |
| `OnlyEnabledJobsFire` | `Spec => NoFiringWhenDisabled` |
| `RateOvershoot` | `Spec => []RateOvershootBounded` |
| `ChainsAreFinite` | `Spec => []ChainIsFinite`, for wirings with `FailureHandlersEnd` |

The argument. `TypeOK` includes that the table of activations is finite, which
the counting of slots needs; spawning keeps it finite because a publisher has
finitely many subscribers (`ImageFinite`, `KidsOf`). The limiter's invariant is
`SlotsBalanced` with the fact that manual activations never stand in the queue
(`ManualSkipsQueue`): without it a manual run could acquire a slot it does not
return. Each step moves at most one activation across the border of `InSlot`,
and `HoldersStay`, `DropOutsideSlot` and `ReleaseReturnsSlot` say what that
does to the set of holders. The registration is proved through `TriggersInv`,
which describes `subs` in each phase of an edit. `ChainCut` follows from
`StepEffect`: the positions after the circuit breaker are only reached through
`CheckChain`, and an activation's chain is its name and never changes.
`RateOvershoot` adds to the limiter's invariant that a job's recorded and
checked runs are bounded by the limit plus the activations that may stand
between the two critical sections: holders of slots and manual runs.

`ChainsAreFinite` has a hypothesis about the wiring, since the code lets users
build one for which the property is false (a job that handles its own failure
event, see Observations). `FailureHandlersEnd` asks for a rank of the jobs that
goes down along failure events: failure handlers form no circle, while success
events and task events may form any. TLC evaluates it on the wirings of both
runs (`RingsOfFailures` in `MCJobPipeline`), and they satisfy it although the
jobs of `ring` do form a ring. The invariant (`RoomLeft`) says that the depth
of a chain and the rank of its last job together stay within the depth limit
plus the number of jobs that publish failures: a chain at the limit only grows
by the failure event of a refused job, and each such link costs a rank.

`JobRunProofs` assumes `JobRunAssumption` (types of the constants) and proves,
for `RunSpec`:

| Theorem | Statement |
|---|---|
| `RunTypeCorrect` | `RunSpec => []RunTypeOK` |
| `RecordsAreOrdered` | `RunSpec => []SequencesGrow` |
| `LiveProofs` | `RunSpec => []LiveProofIsCurrent` |
| `RecordRefined` | `RunSpec => RecordSpec` |

The invariant `RunInv` adds to the properties the last state a record can have
at each position of the executor while it exists (`RecordFollowsExec`), that no
persisted sequence passes the length of the timeline in memory
(`MemoryCovers`), and the positions at which a proof may be captured or live
(`ProofFollowsExec`). `MemoryCovers` is what makes the two numberings agree:
each event grows the timeline before it is persisted, so the database's numbers
never overtake it and the terminal event, numbered by the timeline, comes last.
For the refinement, `StatesAppended` and `LastOfHistory` carry an append to the
record over to an append to its history, and `RecordStep` maps each action to a
step of `RunRecord` or to a stutter.

`JobLifecycleProofs` assumes `LifecycleAssumption` and proves, for `Spec`:

| Theorem | Statement |
|---|---|
| `TypeCorrect` | `Spec => []TypeOK` |
| `DrainComplete` | `Spec => []DrainIsComplete` |
| `Survivors` | `Spec => []SurvivorsAreCancelled` |
| `LoopOwner` | `Spec => []LoopHasOneOwner` |
| `SessionTriggers` | `Spec => []TriggersOfTheSession` |
| `NobodyWaitsInVain` | `Spec => []WaitsAreOwed` |
| `StopWaitsForLess` | `Spec => WaitsOnlyShrink` |

`LifecycleInv` relates each resource to the call that holds the lock:
`OneInside` (at most one caller is in a section, and `stopping` has one owner),
`SchedulerFollows`, `BusFollows` (a run on a bus implies the bus is current,
and open unless a caller drains it), `LoopFollows` (a live loop is the one the
handle names, and a stopping call took that one) and `TriggersFollow` (at
each position of `Start` and `Stop`, which triggers are registered). The last
is what makes `TypeOK` inductive: an early job has one handler when `Start`
adds its own, never two.

The last two are what the return of `Stop` (`CallsReturn`) rests on beside
fairness. `WaitsAreOwed`: who joins a `Stop` joins one that is under way, and
who waits for the retention loop has told it to end and holds no lock its pass
may need. `WaitsOnlyShrink`: while `Stop` waits for cron runs, for handlers of
its bus, or for a pass of its loop, none of them begins anew.

`QuestionnaireProofs` assumes `ScreenAssumption` and proves, for `Spec`:

| Theorem | Statement |
|---|---|
| `TypeCorrect` | `Spec => []TypeOK` |
| `OneAskerOnScreen` | `Spec => []TurnsAreExclusive` |
| `QuestionRefined` | `Spec => QuestionSpec` |
| `NoDialogIsStuck` | `Spec => []OrphanIsLeaving` |
| `LiveDialogIsKept` | `Spec => LiveDialogStays` |
| `AskersStandInLine` | `Spec => []LineIsOrdered` |

`ScreenInv` carries the first three: an outcome is set exactly when the wait is
over, and a response is only found for, or waits in the channel of, a question
that was shown. The last two need the order of the events as well
(`DialogInv`): a question is opened once and closed behind its opening, the
asker that waits was opened last (`BusOrder`), no one clicked in a dialog that
is still to open (`ShownOnce`), and an accepted response stays in its channel
until the asker takes it (`ResponseFollowsCall`). With them a removal of the
live dialog has no event and no handler left that could cause it.
`LineIsOrdered` is the safety half of `AskersReturn`: those who wait for the
screen stand in a strict total order and wait for nobody who left it, so there
is a first one that the token finds.

`ChannelQuestionsProofs` assumes `ChannelAssumption` and proves, for `Spec`:

| Theorem | Statement |
|---|---|
| `TypeCorrect` | `Spec => []TypeOK` |
| `Answerable` | `Spec => []WaitingIsAnswerable` |
| `NothingRemains` | `Spec => []NothingLeftBehind` |
| `DeadlineHidesNothing` | `Spec => []ExpiredMeansUndecided` |
| `QuestionRefined` | `Spec => QuestionSpec` |

`ChannelInv` says who is registered: whoever is sending or waiting without an
answer (`OpenIsRegistered`), and nobody who was answered, expired or returned
(`RegisteredIsOpen`). The deferred `forget` is harmless because of the second:
it can only take its own question out.

`CommandRuntimeProofs` assumes `RuntimeAssumption` and proves, for `Spec`:

| Theorem | Statement |
|---|---|
| `TypeCorrect` | `Spec => []TypeOK` |
| `OneMapAtMost` | `Spec => []OneMap` |
| `ReadyIsCurrent` | `Spec => CommitIsCurrent` |
| `NothingComesBack` | `Spec => RetiredForGood` |
| `MapRefined` | `Spec => MapSpec` |
| `WaitsAreOwed` | `Spec => []AnswersAreOwed` |

`RuntimeInv` follows a generation through the bootstrap: at most one is
registered (`OneRegistered`), the map is its own (`Mapped`), the snapshot names
it or the worker is about to say so (`SnapshotIsKnown`), the worker's
generation is the newest (`Newest`), and between `Admit` and `Store` the gate
holds session, lock and epoch still (`GateHeld`). `open <= epoch` makes the
bound on epochs one on transitions.

`MapRefined` needs the invariant because the abstract map is read off three
sets: that a generation is published needs it registered, that it is enabled
needs it published, and that no step of the worker for a generation that a
`Reset` retired meanwhile shows anything. `AnswersAreOwed` is the safety half
of `CallsReturn`: who waits for an answer is the caller the worker works for,
unless the worker is gone, and who joins a `Stop` finds the request made or
about to be made by the first.

`CommandExecutionProofs` assumes `ExecutionAssumption` and proves, for `Spec`:

| Theorem | Statement |
|---|---|
| `TypeCorrect` | `Spec => []TypeOK` |
| `RecordIsOwned` | `Spec => []OwnerAlone` |
| `LedgerIsTrue` | `Spec => []RecordIsTrue` |
| `StartsAreAuthorised` | `Spec => StartIsAuthorised` |
| `CommandRefined` | `Spec => CommandSpec` |
| `NobodyIsWaitedFor` | `Spec => []WaitsAreCut` |
| `RecoveryGetsLess` | `Spec => WorkListsShrink` |

`ExecInv` says that a process that is up or draining holds the lock
(`LockHeld`), that operations on one invocation exclude each other (`Apart`),
that each operation's row, decision and outcome are those of its position
(`OpFollows`), and that each handler agrees with its row, its claim and its
home (`EffectFollows`). The lemma that matters is `RecoveryIsAlone`: the
process of an operation under way holds the lock and has not drained, so no
proof of a closed generation includes it, and no recovery writes its row.

`CommandRefined` maps every step to one of `CommandRecord`, operation by
operation: the steps that matter are the ones that write a record and touch a
handler from different sides, `Await` (the outcome of a handler, or giving it up
before its claim), `AwaitClaimed` (which may only say that nobody can tell),
the recovery (which seals and never invents a result) and the crash (which
loses handlers of one process and leaves all records). `WaitsAreCut` and
`WorkListsShrink` are the safety halves of `DrainEnds` and
`ClosedRowsAreRecovered`: in a process that closes, whoever waits for a user or
for an unclaimed handler was told to stop, and nothing adds to what a process
has to recover while it serves.

`ActivationProofs` assumes `ActivationAssumption` and proves, for `Spec`:

| Theorem | Statement |
|---|---|
| `TypeCorrect` | `Spec => []TypeOK` |
| `SourcesKept` | `Spec => []SourcesAreKept` |
| `TerminalObeyed` | `Spec => []TerminalIsObeyed` |
| `SpentIsSpent` | `Spec => SpentForGood` |
| `AttemptsSpent` | `Spec => AttemptsAreSpent` |
| `TheEndIsTheEnd` | `Spec => NothingBeginsAfterTheEnd` |

`IInv` needs, beside the properties: that facts are numbered without gaps and
the terminal one comes last (`Numbered`), so that it is above every cursor and
finds no claim it could be behind; that an active claim has the entry of its
fact in the ledger and that entries only exist for delivered facts
(`LedgerAgrees`), so that the terminal fact is new to every rule that has a
claim; that only running runs prove themselves alive (`AliveRuns`), so that no
claim begins after the end was delivered; that an active claim belongs to an
enabled rule (`ActiveIsEnabled`), so that the end reaches it; and that a claim
the recovery took back is bare of its lease (`InactiveIsBare`), so that a late
fact cannot revive it. `Counted` (a fact that waits has an attempt left) bounds
the attempts. Most actions leave most parts alone, which `QuietSteps` and the
lemmas on what a step passes on (`PassOnward`, `OutsideOnward`) say once;
`ConsumeMoves` and `ConsumeLeaves` describe the transaction of a fact from the
view of a cycle it moves and of one it does not.

The last two are the safety halves of `FactsSettle` and `ClaimsEnd`. An attempt
that a pass took is never given back, whoever lost the lease, and a fact
delivered or buried is not taken up again, so a fact can be tried only so often.
For a run that is over, with or without its terminal fact, no claim becomes
active and no lease is extended, by a late fact of its own or by a heartbeat
under way, so the recovery's work is finite.

Model-checked only: liveness (`ChainsEnd`, `AskersReturn`, `ScreenIsFreed`,
`CallsReturn`, `DrainEnds`, `ClosedRowsAreRecovered`, `FactsSettle`,
`ClaimsEnd`). The prover handles no ENABLED and so no fairness; the theorems
above say of most of them what is left once fairness is granted. Every safety
and refinement property of a passing run is proved for every value of the
constants, `ChainIsFinite` under the hypothesis on the wiring.

## Not modelled, and plan

Inside the pipeline: hotkey triggers (the same path with extra bindings checked
at three points), dry runs, `DeletePipeline` (changes which jobs are piped),
`ReconcileDisabledJobs` (a sequence of toggles to off), a `job` tool that runs
another job synchronously inside a run, the identity checks of command origins
(they only shorten a run or cut its chain), and a tick that wins against the
cancellation of its ticker in the same `select` (it runs with a cancelled
context and is dropped at the limiter).

Around Start and Stop: `CloseCommandMaintenance` (only tests call it), the
external context, `UpdateConfig`, and hotkey bindings.

In the command runtime: `WaitReady` (a reader), `WaitStopped` and the mounting
of another runtime after a stop, the `opStop` operation (nothing submits it),
clean-up ports that fail (those of `internal/app` delete entries of maps).

In the activation: see the end of its section.

In the execution of commands: what is in an envelope and whether it is
admissible (a choice in `Prepare`, `Reserve` and `AdmitExecution`), event
chains, rate limits, results and their validation, the older path in
`service.go`, compaction, configuration mutations.

Planned, most important first:

1. Chat turns: leases, streams and cancellation against the last items, and
   the subagents whose waiters depend on them.
2. Composition of `JobPipeline` with nested manual runs.
3. The manual and context activations of `internal/commandactivation`, which
   share the tables of `Activation`.

In the questions: the logout that clears the dialog without responding (the
question then waits for its deadline), questionnaires the interface opens for
itself, and the routing between the surfaces.

In the durable records: `LogRun` for jobs refused before `Execute`, panics, and
the retention of single run events by age.
