--------------------------- MODULE CommandExecution ---------------------------
(***************************************************************************)
(* The execution of commands: commandexecution.Service.ExecuteEnvelope,    *)
(* the ledger it records them in, the decisions it asks the user for, the  *)
(* security epochs that admit or stop it, and the end and the restart of   *)
(* the processes that share one database.                                  *)
(*                                                                         *)
(* An operation is one call of ExecuteEnvelope.  It may be called twice    *)
(* for one invocation, be cancelled or time out at any point, fail to      *)
(* write, and die with its process.  Its handler runs on its own, and may  *)
(* outlive the call.                                                       *)
(*                                                                         *)
(* One model step stands for what the code does inside one transaction or  *)
(* one section of the gate.  The wait of AwaitQueue is a delay before the  *)
(* admission that follows it; an invalidation without a transition is one  *)
(* that begins and ends.  The record "refused" stands for denied,          *)
(* suppressed, rejected_stale and cancelled_stale, and "failed" for        *)
(* cancelled too.                                                          *)
(***************************************************************************)
EXTENDS Integers

CONSTANTS
  Invocations,  \* identifiers of invocations, in the order of the scans
  Interactive,  \* those whose command asks for a decision
  Owning,       \* those whose handler owns its commit (CommitOwnership)
  External,     \* those of an external token
  Operations,   \* calls of ExecuteEnvelope
  MaxStartups,  \* bound on the processes
  MaxEpochs     \* bound on the changes of the security epoch of a process

ASSUME ExecutionAssumption ==
  /\ Invocations \subseteq Nat \ {0}
  /\ Interactive \cup Owning \cup External \subseteq Invocations
  /\ MaxStartups \in Nat /\ MaxEpochs \in Nat

VARIABLES
  ledger,   \* status of each invocation
  home,     \* startup and epoch it was reserved in
  receipt,  \* its decision
  effect,   \* its handler
  claim,    \* CommitOwnership of its handler
  op,       \* where each operation is
  process,  \* phase of each startup
  lock,     \* startup that holds the lock of the database, 0 for none
  epoch,    \* EpochService.security of each startup
  open      \* EpochService.transitions begun by the host

records == <<ledger, home, receipt>>
handlers == <<effect, claim>>
domain == <<process, lock, epoch, open>>
vars == <<records, handlers, op, domain>>

-----------------------------------------------------------------------------
Startups == 1 .. MaxStartups
Epochs == 0 .. MaxEpochs
Unfinished == {"evaluating", "queued", "running"}
Outcomes == {"refused", "succeeded", "failed", "outcome_unknown"}
Statuses == {"none"} \cup Unfinished \cup Outcomes
Receipts == {"none", "pending", "accepted", "refused", "consumed"}
Effects == {"none", "running", "committing", "succeeded", "failed", "unclear", "gone"}
Claims == {"none", "pending", "claimed", "aborted"}
Recorded == {"ask", "asking", "queue", "admit", "await", "claimed", "finish"}
Stages == Recorded \cup {"idle", "prepare", "reserve"}
Phases == {"unborn", "up", "closing", "shut", "drained", "released", "dead"}
Calls == [pc : Stages, inv : Invocations \cup {0}, at : 0 .. MaxStartups, epoch : Epochs,
          status : Statuses, to : Statuses, cut : BOOLEAN]

Idle == [pc |-> "idle", inv |-> 0, at |-> 0, epoch |-> 0,
         status |-> "none", to |-> "none", cut |-> FALSE]

Active(i) == ledger[i] \in Unfinished
Undecided(i) == receipt[i] \in {"pending", "accepted"}
Serving(s) == process[s] = "up"
Alive(s) == process[s] \notin {"unborn", "dead"}

(* Until they end, transitions keep snapshots from being taken and used.   *)
Fenced(s) == \/ open[s] > 0
             \/ \E i \in Invocations : home[i].at = s /\ effect[i] = "committing"

Init ==
  /\ ledger = [i \in Invocations |-> "none"]
  /\ home = [i \in Invocations |-> [at |-> 0, epoch |-> 0]]
  /\ receipt = [i \in Invocations |-> "none"]
  /\ effect = [i \in Invocations |-> "none"]
  /\ claim = [i \in Invocations |-> "none"]
  /\ op = [o \in Operations |-> Idle]
  /\ process = [s \in Startups |-> "unborn"]
  /\ lock = 0
  /\ epoch = [s \in Startups |-> 0]
  /\ open = [s \in Startups |-> 0]

-----------------------------------------------------------------------------
(* The pipeline.                                                           *)

At(o, p) == op[o].pc = p
Goto(o, p) == op' = [op EXCEPT ![o].pc = p]
Advance(o, p, status) == op' = [op EXCEPT ![o].pc = p, ![o].status = status]

(* finish runs under a context of its own: the cancellation is forgotten.  *)
FinishAs(o, to) == op' = [op EXCEPT ![o].pc = "finish", ![o].to = to, ![o].cut = FALSE]
Leave(o) == op' = [op EXCEPT ![o] = Idle]
Become(i, status) == ledger' = [ledger EXCEPT ![i] = status]

(* Admit: the snapshot of the operation is current, nothing is closing,    *)
(* and its context is not cancelled.                                       *)
Current(o) == LET s == op[o].at
              IN  Serving(s) /\ ~Fenced(s) /\ epoch[s] = op[o].epoch /\ ~op[o].cut

(* executionLifecycle.enter.                                               *)
Enter(o, i, s) ==
  /\ At(o, "idle")
  /\ process[s] \in {"up", "closing"}
  /\ op' = [op EXCEPT ![o] = [Idle EXCEPT !.pc = "prepare", !.inv = i, !.at = s]]
  /\ UNCHANGED <<records, handlers, domain>>

(* prepareEnvelope: an invocation already recorded is answered from its    *)
(* record; what is not admitted or not well formed leaves no record.       *)
Prepare(o) ==
  LET s == op[o].at
  IN  /\ At(o, "prepare")
      /\ \/ Leave(o)
         \/ /\ Serving(s) /\ ~Fenced(s) /\ ledger[op[o].inv] = "none"
            /\ op' = [op EXCEPT ![o].pc = "reserve", ![o].epoch = epoch[s]]
      /\ UNCHANGED <<records, handlers, domain>>

Insert(o, status) == /\ ledger[op[o].inv] = "none"
                     /\ Become(op[o].inv, status)
                     /\ home' = [home EXCEPT ![op[o].inv] = [at |-> op[o].at, epoch |-> op[o].epoch]]

(* ReserveEnvelope.  A duplicate is answered from its record.  The Admit   *)
(* that follows changes nothing: Ask and Queue refuse what it refuses.     *)
Reserve(o) ==
  /\ At(o, "reserve")
  /\ \/ Leave(o) /\ UNCHANGED <<ledger, home>>
     \/ Insert(o, "refused") /\ Leave(o)
     \/ /\ Insert(o, "evaluating")
        /\ Advance(o, IF op[o].inv \in Interactive THEN "ask" ELSE "queue", "evaluating")
  /\ UNCHANGED <<receipt, handlers, domain>>

Receive(o, r) == receipt' = [receipt EXCEPT ![op[o].inv] = r]

(* WatchEpoch and the first transaction of Decide.                         *)
Ask(o) == /\ At(o, "ask")
          /\ \/ FinishAs(o, "refused") /\ UNCHANGED receipt
             \/ Current(o) /\ Receive(o, "pending") /\ Goto(o, "asking")
          /\ UNCHANGED <<ledger, home, handlers, domain>>

(* The last transaction of Decide.  It may fail, and the cancellation may  *)
(* come right after it.                                                    *)
Answer(o) ==
  /\ At(o, "asking")
  /\ \/ FinishAs(o, "refused") /\ UNCHANGED receipt
     \/ /\ receipt[op[o].inv] = "pending"
        /\ \/ Receive(o, "refused") /\ FinishAs(o, "refused")
           \/ ~op[o].cut /\ Receive(o, "accepted") /\ (Goto(o, "queue") \/ FinishAs(o, "refused"))
  /\ UNCHANGED <<ledger, home, handlers, domain>>

(* Mutant: the decision is not consumed.                                   *)
QueueMutant(o) ==
  LET i == op[o].inv
  IN  /\ At(o, "queue")
      /\ \/ FinishAs(o, "refused") /\ UNCHANGED ledger
         \/ /\ Current(o) /\ ledger[i] = "evaluating"
            /\ Become(i, "queued") /\ Advance(o, "admit", "queued")
      /\ UNCHANGED <<home, receipt, handlers, domain>>

(* The decision is consumed in the transaction that queues the command.    *)
Queue(o) ==
  LET i == op[o].inv
  IN  /\ At(o, "queue")
      /\ \/ FinishAs(o, "refused") /\ UNCHANGED <<ledger, receipt>>
         \/ /\ Current(o) /\ ledger[i] = "evaluating"
            /\ IF i \in Interactive
               THEN receipt[i] = "accepted" /\ Receive(o, "consumed")
               ELSE UNCHANGED receipt
            /\ Become(i, "queued") /\ Advance(o, "admit", "queued")
      /\ UNCHANGED <<home, handlers, domain>>

Begin(i) == /\ effect' = [effect EXCEPT ![i] = "running"]
            /\ claim' = [claim EXCEPT ![i] = IF i \in Owning THEN "pending" ELSE "none"]

(* AdmitExecution: watched from here on, the command is running, and its   *)
(* handler starts; it may refuse, panic, or return a handle of no use.     *)
AdmitExecution(o) ==
  LET i == op[o].inv
      Unclear == op' = [op EXCEPT ![o].pc = "finish", ![o].status = "running",
                                  ![o].to = "outcome_unknown"]
  IN  /\ At(o, "admit")
      /\ \/ FinishAs(o, "refused") /\ UNCHANGED <<ledger, handlers>>
         \/ /\ Current(o) /\ ledger[i] = "queued" /\ Become(i, "running")
            /\ \/ Begin(i) /\ (Advance(o, "await", "running") \/ Unclear)
               \/ Unclear /\ UNCHANGED handlers
      /\ UNCHANGED <<home, receipt, domain>>

(* The result a handler left, when it is valid.                            *)
Results(i) == CASE effect[i] = "succeeded" -> {"succeeded", "outcome_unknown"}
                [] effect[i] = "failed" -> {"failed"}
                [] effect[i] = "unclear" -> {"outcome_unknown"}
                [] OTHER -> {}

(* Mutant: a cancellation is a failure, whatever the handler does.         *)
AwaitMutant(o) ==
  /\ At(o, "await")
  /\ \/ ~op[o].cut /\ \E to \in Results(op[o].inv) : FinishAs(o, to)
     \/ op[o].cut /\ FinishAs(o, "failed")
  /\ UNCHANGED <<records, handlers, domain>>

(* awaitEnvelopeOutcome: a cancellation wins over a result that came with  *)
(* it, unless the handler had claimed its commit.                          *)
Await(o) ==
  LET i == op[o].inv
  IN  /\ At(o, "await")
      /\ \/ /\ ~op[o].cut /\ UNCHANGED claim
            /\ \E to \in Results(i) : FinishAs(o, to)
         \/ /\ op[o].cut /\ claim[i] # "claimed"
            /\ claim' = [claim EXCEPT ![i] = IF @ = "pending" THEN "aborted" ELSE @]
            /\ FinishAs(o, "outcome_unknown")
         \/ op[o].cut /\ claim[i] = "claimed" /\ UNCHANGED claim /\ Goto(o, "claimed")
      /\ UNCHANGED <<records, effect, domain>>

(* Mutant: without a deadline.                                             *)
AwaitClaimedMutant(o) == /\ At(o, "claimed")
                         /\ \E to \in Results(op[o].inv) : FinishAs(o, to)
                         /\ UNCHANGED <<records, handlers, domain>>

(* awaitClaimedEnvelopeOutcome: until its own deadline.                    *)
AwaitClaimed(o) == /\ At(o, "claimed")
                   /\ \E to \in Results(op[o].inv) \cup {"outcome_unknown"} : FinishAs(o, to)
                   /\ UNCHANGED <<records, handlers, domain>>

(* finish: compare and swap from the status the operation left it in.      *)
Finish(o) ==
  LET i == op[o].inv
  IN  /\ At(o, "finish")
      /\ \/ UNCHANGED ledger
         \/ ledger[i] = op[o].status /\ Become(i, op[o].to)
      /\ Leave(o)
      /\ UNCHANGED <<home, receipt, handlers, domain>>

(* A port of the host panics.                                              *)
Panic(o) == /\ op[o].pc \in {"ask", "queue", "admit"}
            /\ FinishAs(o, "failed")
            /\ UNCHANGED <<records, handlers, domain>>

(* The caller gives up, or the time of the operation is over.  Before its  *)
(* record, Leave stands for it.                                            *)
Cancellable(o) == op[o].pc \in {"ask", "asking", "queue", "admit", "await"}
Cancel(o) == /\ Cancellable(o) /\ ~op[o].cut
             /\ op' = [op EXCEPT ![o].cut = TRUE]
             /\ UNCHANGED <<records, handlers, domain>>

-----------------------------------------------------------------------------
(* Handlers.                                                               *)

(* Watches that an invalidation cancels.                                   *)
Watched(o) == op[o].pc \in {"asking", "await"}
CutWatches(s) == op' = [o \in Operations |->
                          IF op[o].at = s /\ Watched(o) THEN [op[o] EXCEPT !.cut = TRUE]
                                                        ELSE op[o]]
NewEpoch(s) == /\ epoch[s] < MaxEpochs
               /\ epoch' = [epoch EXCEPT ![s] = @ + 1]

(* BeginTransitionFromSnapshot: the claim and the transition that cancels  *)
(* its own operation are one section of the gate.  The context of the      *)
(* handler lives until its operation returns.                              *)
Claim(i) ==
  LET s == home[i].at
  IN  /\ effect[i] = "running" /\ claim[i] = "pending"
      /\ \E o \in Operations : op[o].pc \in {"await", "finish"} /\ op[o].inv = i /\ ~op[o].cut
      /\ Serving(s) /\ ~Fenced(s) /\ epoch[s] = home[i].epoch /\ NewEpoch(s)
      /\ claim' = [claim EXCEPT ![i] = "claimed"]
      /\ effect' = [effect EXCEPT ![i] = "committing"]
      /\ CutWatches(s)
      /\ UNCHANGED <<records, process, lock, open>>

(* The handler ends; one that owns its commit does nothing without it, and *)
(* may commit what it cannot publish.                                      *)
EndHandler(i) ==
  /\ \/ effect[i] = "running" /\ \E e \in {"succeeded", "failed", "unclear"} :
          /\ i \in Owning => e = "failed"
          /\ effect' = [effect EXCEPT ![i] = e]
     \/ effect[i] = "committing" /\ \E e \in {"succeeded", "failed", "unclear"} :
          effect' = [effect EXCEPT ![i] = e]
  /\ UNCHANGED <<records, claim, op, domain>>

-----------------------------------------------------------------------------
(* Security and processes.                                                 *)

BeginTransition(s) == /\ Serving(s) /\ NewEpoch(s)
                      /\ open' = [open EXCEPT ![s] = @ + 1]
                      /\ CutWatches(s)
                      /\ UNCHANGED <<records, handlers, process, lock>>

EndTransition(s) == /\ Alive(s) /\ open[s] > 0
                    /\ open' = [open EXCEPT ![s] = @ - 1]
                    /\ UNCHANGED <<records, handlers, op, process, lock, epoch>>

Phase(s, p) == process' = [process EXCEPT ![s] = p]

(* BindInstance: the lock of the file, then the row of the startup.        *)
Startup(s) == /\ process[s] = "unborn" /\ \A t \in 1 .. s - 1 : process[t] # "unborn"
              /\ lock = 0 /\ lock' = s
              /\ Phase(s, "up")
              /\ UNCHANGED <<records, handlers, op, epoch, open>>

(* CloseAndDrain: closing under the gate, then the life cycle of the       *)
(* executor, then the end of every operation.                              *)
Close(s) == /\ Serving(s) /\ Phase(s, "closing")
            /\ CutWatches(s)
            /\ UNCHANGED <<records, handlers, lock, epoch, open>>

Shutdown(s) == /\ process[s] = "closing" /\ Phase(s, "shut")
               /\ op' = [o \in Operations |-> IF op[o].at = s /\ Cancellable(o)
                                               THEN [op[o] EXCEPT !.cut = TRUE] ELSE op[o]]
               /\ UNCHANGED <<records, handlers, lock, epoch, open>>

(* Mutant: the operations under way are not waited for.                    *)
DrainedMutant(s) == /\ process[s] = "shut" /\ Phase(s, "drained")
                    /\ UNCHANGED <<records, handlers, op, lock, epoch, open>>

Drained(s) == /\ process[s] = "shut"
              /\ \A o \in Operations : op[o].at # s
              /\ Phase(s, "drained")
              /\ UNCHANGED <<records, handlers, op, lock, epoch, open>>

(* DrainedGenerations: the startups whose rows a process may close: its    *)
(* own once it has drained, all earlier ones by the lock it holds.         *)
Proof(s) == CASE process[s] = "drained" -> {s}
              [] Serving(s) -> {t \in Startups \ {s} : process[t] # "unborn"}
              [] OTHER -> {}

Recoverable(s) == {i \in Invocations : Active(i) /\ home[i].at \in Proof(s)}
Revocable(s) == {i \in Invocations : Undecided(i) /\ home[i].at \in Proof(s)}

RecoverDecision(s) == /\ \E i \in Revocable(s) : receipt' = [receipt EXCEPT ![i] = "refused"]
                      /\ UNCHANGED <<ledger, home, handlers, op, domain>>

(* Mutant: only the rows of started commands are sealed.                   *)
RecoverInvocationMutant(s) ==
  /\ Revocable(s) = {}
  /\ \E i \in Recoverable(s) : ledger[i] = "running" /\ Become(i, "outcome_unknown")
  /\ UNCHANGED <<home, receipt, handlers, op, domain>>

(* CoordinatorRecovery.Recover stops at a row it cannot seal, and          *)
(* validGenerationScope refuses those of external tokens.                  *)
RecoverInvocation(s) ==
  /\ Revocable(s) = {}
  /\ \E i \in Recoverable(s) \ External :
       /\ \A j \in Recoverable(s) : i <= j
       /\ Become(i, "outcome_unknown")
  /\ UNCHANGED <<home, receipt, handlers, op, domain>>

(* ReconcileSession: stale decisions of the session of this process.       *)
ReconcileDecision(s) ==
  /\ Serving(s)
  /\ \E i \in Invocations \ External :
       /\ Undecided(i) /\ home[i].at = s /\ home[i].epoch # epoch[s]
       /\ receipt' = [receipt EXCEPT ![i] = "refused"]
  /\ UNCHANGED <<ledger, home, handlers, op, domain>>

Release(s) == /\ process[s] = "drained" /\ Recoverable(s) = {} /\ Revocable(s) = {}
              /\ Phase(s, "released") /\ lock' = 0
              /\ UNCHANGED <<records, handlers, op, epoch, open>>

Lost(e) == CASE e = "running" -> "gone"
             [] e = "committing" -> "unclear"
             [] OTHER -> e

(* The process dies with its operations and handlers, and the system takes *)
(* its lock.                                                               *)
Crash(s) ==
  /\ Alive(s) /\ Phase(s, "dead")
  /\ lock' = IF lock = s THEN 0 ELSE lock
  /\ op' = [o \in Operations |-> IF op[o].at = s THEN Idle ELSE op[o]]
  /\ effect' = [i \in Invocations |-> IF home[i].at = s THEN Lost(effect[i]) ELSE effect[i]]
  /\ open' = [open EXCEPT ![s] = 0]
  /\ UNCHANGED <<records, claim, epoch>>

-----------------------------------------------------------------------------
Step(o) == \/ Prepare(o) \/ Reserve(o) \/ Ask(o) \/ Answer(o) \/ Queue(o)
           \/ AdmitExecution(o) \/ Await(o) \/ AwaitClaimed(o) \/ Finish(o) \/ Panic(o)

Handle(i) == Claim(i) \/ EndHandler(i)

Drain(s) == Shutdown(s) \/ Drained(s) \/ Release(s)
Recover(s) == RecoverDecision(s) \/ RecoverInvocation(s)

Host(s) == \/ BeginTransition(s) \/ EndTransition(s) \/ Startup(s) \/ Close(s)
           \/ Drain(s) \/ Recover(s) \/ ReconcileDecision(s) \/ Crash(s)

Next == \/ \E o \in Operations : Step(o) \/ Cancel(o)
        \/ \E o \in Operations, i \in Invocations, s \in Startups : Enter(o, i, s)
        \/ \E i \in Invocations : Handle(i)
        \/ \E s \in Startups : Host(s)

Spec == Init /\ [][Next]_vars

(* An operation goes on by itself, as do a drain and a recovery; handlers, *)
(* callers and the host do what they please.                               *)
FairSpec == /\ Spec
            /\ \A o \in Operations : WF_vars(Step(o))
            /\ \A s \in Startups : WF_vars(Drain(s)) /\ WF_vars(Recover(s))

-----------------------------------------------------------------------------
TypeOK ==
  /\ ledger \in [Invocations -> Statuses]
  /\ home \in [Invocations -> [at : 0 .. MaxStartups, epoch : Epochs]]
  /\ receipt \in [Invocations -> Receipts]
  /\ effect \in [Invocations -> Effects] /\ claim \in [Invocations -> Claims]
  /\ op \in [Operations -> Calls]
  /\ process \in [Startups -> Phases] /\ lock \in 0 .. MaxStartups
  /\ epoch \in [Startups -> Epochs] /\ open \in [Startups -> Nat]

(* The record of an operation under way is its own: no other operation,    *)
(* retry, recovery or earlier process changes the status it left there     *)
(* (the compare and swap of finish never finds another one).               *)
OwnerAlone ==
  \A o \in Operations : op[o].pc \in Recorded =>
    /\ ledger[op[o].inv] = op[o].status
    /\ home[op[o].inv].at = op[o].at
    /\ \A p \in Operations \ {o} : op[p].pc \in Recorded => op[p].inv # op[o].inv

(* What the ledger says of an invocation is true of its handler: it never  *)
(* began if it was refused, it ended as recorded if it has a result, and   *)
(* what the executor abandoned before its commit does not commit later.    *)
RecordIsTrue ==
  \A i \in Invocations :
    /\ ledger[i] \in {"none", "evaluating", "queued", "refused"} => effect[i] = "none"
    /\ ledger[i] = "succeeded" => effect[i] = "succeeded"
    /\ ledger[i] = "failed" => effect[i] \in {"none", "failed"}
    /\ claim[i] = "aborted" => effect[i] \notin {"committing", "succeeded", "unclear"}

(* Calls, retries, cancellations, transitions, recoveries and crashes      *)
(* implement the record CommandRecord promises for each invocation: no     *)
(* second start, no commit once the executor has given the handler up or   *)
(* the record is closed, no outcome the handler did not have.              *)
Record == INSTANCE CommandRecord
            WITH Commands <- Invocations, record <- ledger, handler <- effect, leave <- claim
CommandSpec == Record!Spec

(* A handler starts once, in the epoch its invocation was reserved in, out *)
(* of every transition and before its process closes, and after the user's *)
(* decision was consumed if its command asks for one.                      *)
Starts(i) == effect[i] # "running" /\ effect'[i] = "running"
StartIsAuthorised ==
  [][\A i \in Invocations : Starts(i) =>
       /\ effect[i] = "none"
       /\ Serving(home[i].at) /\ ~Fenced(home[i].at)
       /\ home[i].epoch = epoch[home[i].at]
       /\ i \in Interactive => receipt[i] = "consumed"]_vars

(* In a process that closes nobody waits for a user or a handler without   *)
(* having been told to stop: whoever began to wait as it closed was        *)
(* refused, and whoever waited before was cancelled with the others.       *)
WaitsAreCut ==
  \A o \in Operations :
    op[o].pc \in {"asking", "await"} /\ ~Serving(op[o].at) => op[o].cut

(* The rows and decisions a process has to recover only become fewer while *)
(* it serves: no call, here or of a process that is gone, adds to them.    *)
WorkListsShrink ==
  [][\A s \in Startups : Serving(s) /\ process'[s] = "up" =>
       Recoverable(s)' \subseteq Recoverable(s) /\ Revocable(s)' \subseteq Revocable(s)]_vars

(* A process that closes drains its operations, whatever their handlers    *)
(* and callers do, unless it dies first.                                   *)
DrainEnds == \A s \in Startups :
               process[s] = "closing" ~> process[s] \in {"drained", "released", "dead"}

(* Coordinator recovery closes every row of a generation proven closed,    *)
(* unless the process that proved it closes or dies first.                 *)
ClosedRowsAreRecovered ==
  \A s \in Startups, i \in Invocations :
    i \in Recoverable(s) ~> (~Active(i) \/ process[s] \in {"closing", "dead"})

(* The recovery goes through the rows of the whole instance: a row that a  *)
(* dead process left is closed by the next one, whatever other rows it     *)
(* left (the code stops at one of an external token).                      *)
RowsOfTheDeadAreRecovered ==
  \A s \in Startups, i \in Invocations \ External :
    i \in Recoverable(s) /\ process[home[i].at] = "dead"
      ~> (~Active(i) \/ process[s] \in {"closing", "dead"})
=============================================================================
