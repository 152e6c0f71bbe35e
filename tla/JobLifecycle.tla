----------------------------- MODULE JobLifecycle -----------------------------
(***************************************************************************)
(* Start and Stop of jobs.Manager, with what they start, cancel and wait   *)
(* for: the scheduler, the event bus, the retention loop and the runs that *)
(* these fire.  Several callers may start and stop the manager at once     *)
(* (login, logout, the end of the application), jobs are edited whether    *)
(* the manager is started or not, and a run may itself edit jobs and so    *)
(* wait for the lock that Stop holds while it waits for the run.           *)
(*                                                                         *)
(* The inside of an edit and of a run is in JobPipeline: here an edit is   *)
(* one step, and a run is a tool that may edit a job, then an event.       *)
(*                                                                         *)
(* mu stands for Manager.mu and for runtimeMu, which Start and Stop take   *)
(* right after it; edits take runtimeMu alone and never ask for mu.  A call *)
(* is seen from the moment it has mu for the first time.                   *)
(***************************************************************************)
EXTENDS Naturals, FiniteSets

CONSTANTS
  Callers,    \* goroutines that call Start and Stop
  Jobs,       \* job slugs; each has a schedule and listens to an event
  Runs,       \* bound on the runs alive at once
  Nobody,     \* the owner of a free mutex
  MaxBuses    \* bound on the buses Start creates

ASSUME LifecycleAssumption ==
  /\ Nobody \notin Callers
  /\ MaxBuses \in Nat \ {0}

VARIABLES
  call,       \* what each caller is doing
  mu,         \* who holds Manager.mu and runtimeMu
  stopping,   \* Manager.stopping # nil
  started,    \* Manager.started
  present,    \* jobs in the registry
  enabled,    \* those of them that are effectively enabled
  scheduled,  \* jobs with cron entries and intervals, pending ones included
  scheduler,  \* "off", "on", or "draining" while cron.Stop waits
  bus,        \* number of the current bus
  closed,     \* buses that were closed
  heard,      \* handlers of each job on the current bus
  early,      \* jobs whose triggers an edit registered before Start
  handle,     \* number of the loop retentionStop belongs to, 0 for nil
  loop,       \* state of the retention loop of each number
  cut,        \* loops whose context was cancelled
  stopped,    \* loops whose stop channel was closed
  run         \* runs in flight

callVars == <<call, mu, stopping, started>>
jobVars == <<present, enabled, early>>
triggerVars == <<scheduled, bus, closed, heard>>
loopVars == <<handle, loop, cut, stopped>>
vars == <<callVars, jobVars, triggerVars, loopVars, scheduler, run>>

-----------------------------------------------------------------------------
Idle == [pc |-> "idle", loop |-> 0]
Inside == {"launch", "cron", "close", "drain", "clear"}
Outside == {"join", "cancel", "await", "relock"}
Calls == [pc : {"idle"} \cup Inside \cup Outside, loop : Nat]

Goto(c, p) == call' = [call EXCEPT ![c].pc = p]
At(c, p) == call[c].pc = p

Kinds == {"cron", "interval", "event", "manual"}
Stages == {"tool", "waiting", "emitting", "publishing"}
NoRun == [kind |-> "none"]
Alive == [kind : Kinds, job : Jobs, stage : Stages, bus : Nat, target : Nat,
          cancelled : BOOLEAN]

Live == {r \in Runs : run[r] # NoRun}
Of(kind) == {r \in Live : run[r].kind = kind}
(* EventBus.wg of bus b counts these.                                      *)
OnBus(b) == {r \in Of("event") : run[r].bus = b}
Intervals(j) == {r \in Of("interval") : run[r].job = j}

LoopAlive(g) == loop[g] \in {"idle", "pass"}

Fresh(kind, j, b) == [kind |-> kind, job |-> j, stage |-> "tool", bus |-> b,
                      target |-> 0, cancelled |-> FALSE]
Cancel(rs) == [r \in Runs |-> IF r \in rs THEN [run[r] EXCEPT !.cancelled = TRUE]
                              ELSE run[r]]

-----------------------------------------------------------------------------
(* NewManager: cold, with an open bus and nothing on it.                   *)
Init ==
  /\ call = [c \in Callers |-> Idle]
  /\ mu = Nobody
  /\ stopping = FALSE /\ started = FALSE
  /\ present = {} /\ enabled = {} /\ early = {}
  /\ scheduled = {} /\ scheduler = "off"
  /\ bus = 1 /\ closed = {}
  /\ heard = [j \in Jobs |-> 0]
  /\ handle = 0
  /\ loop = [g \in 1 .. MaxBuses |-> "none"]
  /\ cut = {} /\ stopped = {}
  /\ run = [r \in Runs |-> NoRun]

-----------------------------------------------------------------------------
(* Start.                                                                  *)

(* A closed bus is replaced, in the manager and in the executor.           *)
NewBus == IF bus \in closed THEN bus + 1 ELSE bus

(* A Start that finds a Stop under way (ErrCommandMaintenanceBusy) or the   *)
(* manager started (nil) changes nothing.                                  *)
StartEnters(c) == /\ At(c, "idle")
                  /\ mu = Nobody
                  /\ ~stopping /\ ~started
                  /\ NewBus <= MaxBuses
                  /\ bus' = NewBus

(* Reading the jobs fails: the new bus stays, open.                        *)
StartFails(c) ==
  /\ StartEnters(c)
  /\ UNCHANGED <<call, mu, stopping, started, jobVars, scheduled, closed, heard,
                 loopVars, scheduler, run>>

(* The jobs of the session replace the registry and their triggers are     *)
(* registered.  Scheduling a job replaces its entries, subscribing it adds *)
(* to its handlers.                                                        *)
StartLoads(c) ==
  /\ StartEnters(c)
  /\ \E ps \in SUBSET Jobs : \E es \in SUBSET ps :
       /\ present' = ps
       /\ enabled' = es
       /\ scheduled' = scheduled \cup es
       /\ heard' = [j \in Jobs |-> heard[j] + (IF j \in es THEN 1 ELSE 0)]
  /\ mu' = c
  /\ Goto(c, "launch")
  /\ UNCHANGED <<stopping, started, early, closed, loopVars, scheduler, run>>

(* A loop is named by the bus it was started with.                         *)
startRetentionLoop == IF handle = 0
                      THEN /\ handle' = bus
                           /\ loop' = [loop EXCEPT ![bus] = "idle"]
                      ELSE UNCHANGED <<handle, loop>>

StartLaunches(c) ==
  /\ At(c, "launch")
  /\ scheduler' = "on"
  /\ started' = TRUE
  /\ startRetentionLoop
  /\ mu' = Nobody
  /\ Goto(c, "idle")
  /\ UNCHANGED <<stopping, jobVars, triggerVars, cut, stopped, run>>

-----------------------------------------------------------------------------
(* Stop.                                                                   *)

(* Another Stop is under way: wait for its channel.                        *)
StopJoins(c) == /\ At(c, "idle")
                /\ mu = Nobody
                /\ stopping
                /\ Goto(c, "join")
                /\ UNCHANGED <<mu, stopping, started, jobVars, triggerVars,
                               loopVars, scheduler, run>>

(* Mutant: a Stop that does not see the other one.                         *)
StopBeginsMutant(c) ==
  /\ At(c, "idle")
  /\ mu = Nobody
  /\ stopping' = TRUE
  /\ call' = [call EXCEPT ![c] = [pc |-> "cancel", loop |-> handle]]
  /\ UNCHANGED <<mu, started, jobVars, triggerVars, loopVars, scheduler, run>>
StopBegins(c) ==
  /\ At(c, "idle")
  /\ mu = Nobody
  /\ ~stopping
  /\ stopping' = TRUE
  /\ call' = [call EXCEPT ![c] = [pc |-> "cancel", loop |-> handle]]
  /\ UNCHANGED <<mu, started, jobVars, triggerVars, loopVars, scheduler, run>>

(* Outside the locks: cancel the loop's context and close its channel.     *)
StopCancels(c) ==
  /\ At(c, "cancel")
  /\ cut' = cut \cup ({call[c].loop} \ {0})
  /\ stopped' = stopped \cup ({call[c].loop} \ {0})
  /\ Goto(c, "await")
  /\ UNCHANGED <<mu, stopping, started, jobVars, triggerVars, handle, loop,
                 scheduler, run>>

StopAwaits(c) ==
  /\ At(c, "await")
  /\ call[c].loop # 0 => loop[call[c].loop] = "over"
  /\ Goto(c, "relock")
  /\ UNCHANGED <<mu, stopping, started, jobVars, triggerVars, loopVars,
                 scheduler, run>>

(* A manager that was not started keeps its bus and its schedules.         *)
StopLocks(c) ==
  /\ At(c, "relock")
  /\ mu = Nobody
  /\ mu' = c
  /\ handle' = 0
  /\ IF started THEN Goto(c, "cron") /\ scheduler' = "draining"
                ELSE Goto(c, "clear") /\ UNCHANGED scheduler
  /\ UNCHANGED <<stopping, started, jobVars, triggerVars, loop, cut, stopped, run>>

(* Mutant: the tickers are stopped but their contexts are not cancelled.   *)
StopScheduleMutant(c) ==
  /\ At(c, "cron")
  /\ Of("cron") = {}
  /\ scheduler' = "off"
  /\ scheduled' = {}
  /\ Goto(c, "close")
  /\ UNCHANGED <<mu, stopping, started, jobVars, bus, closed, heard, loopVars, run>>
(* Scheduler.Stop: wait for the cron runs, then cancel the interval runs,  *)
(* which nobody waits for.                                                 *)
StopSchedule(c) ==
  /\ At(c, "cron")
  /\ Of("cron") = {}
  /\ scheduler' = "off"
  /\ scheduled' = {}
  /\ run' = Cancel(Of("interval"))
  /\ Goto(c, "close")
  /\ UNCHANGED <<mu, stopping, started, jobVars, bus, closed, heard, loopVars>>

(* Mutant: the handlers stay.                                              *)
StopClosesMutant(c) ==
  /\ At(c, "close")
  /\ Goto(c, "drain")
  /\ UNCHANGED <<mu, stopping, started, jobVars, triggerVars, loopVars,
                 scheduler, run>>
(* EventBus.Close, first half.                                             *)
StopCloses(c) ==
  /\ At(c, "close")
  /\ closed' = closed \cup {bus}
  /\ heard' = [j \in Jobs |-> 0]
  /\ Goto(c, "drain")
  /\ UNCHANGED <<mu, stopping, started, jobVars, scheduled, bus, loopVars,
                 scheduler, run>>

(* wg.Wait, outside the lock of the bus.                                   *)
StopDrains(c) ==
  /\ At(c, "drain")
  /\ OnBus(bus) = {}
  /\ Goto(c, "clear")
  /\ UNCHANGED <<mu, stopping, started, jobVars, triggerVars, loopVars,
                 scheduler, run>>

(* The registry is emptied and everyone who joined returns.                *)
StopReturns(c) ==
  /\ At(c, "clear")
  /\ present' = {} /\ enabled' = {}
  /\ early' = IF started THEN {} ELSE early
  /\ started' = FALSE /\ stopping' = FALSE
  /\ mu' = Nobody
  /\ call' = [d \in Callers |-> IF d = c \/ At(d, "join") THEN Idle ELSE call[d]]
  /\ UNCHANGED <<triggerVars, loopVars, scheduler, run>>

-----------------------------------------------------------------------------
(* The retention loop.  A pass may ask for the locks of the manager.       *)

BeginPass(g) == /\ loop[g] = "idle"
                /\ g \notin cut
                /\ loop' = [loop EXCEPT ![g] = "pass"]
                /\ UNCHANGED <<callVars, jobVars, triggerVars, handle, cut,
                               stopped, scheduler, run>>

EndPass(g) == /\ loop[g] = "pass"
              /\ mu = Nobody
              /\ loop' = [loop EXCEPT ![g] = "idle"]
              /\ UNCHANGED <<callVars, jobVars, triggerVars, handle, cut,
                             stopped, scheduler, run>>

EndLoop(g) == /\ loop[g] = "idle"
              /\ g \in cut \cup stopped
              /\ loop' = [loop EXCEPT ![g] = "over"]
              /\ UNCHANGED <<callVars, jobVars, triggerVars, handle, cut,
                             stopped, scheduler, run>>

(* The session's context ends before anyone calls Stop.                    *)
EndSession(g) == /\ LoopAlive(g)
                 /\ g \notin cut
                 /\ cut' = cut \cup {g}
                 /\ UNCHANGED <<callVars, jobVars, triggerVars, handle, loop,
                                stopped, scheduler, run>>

-----------------------------------------------------------------------------
(* Edits, under runtimeMu.                                                 *)

(* unregisterTriggers if off, registerTriggers if on.  The bus ignores     *)
(* whoever subscribes after Close and does not look for doubles; the       *)
(* scheduler keeps what it is given, once.                                 *)
Retrigger(j, off, on) ==
  /\ heard' = [heard EXCEPT ![j] = (IF off THEN 0 ELSE @)
                                   + (IF on /\ bus \notin closed THEN 1 ELSE 0)]
  /\ scheduled' = (IF off THEN scheduled \ {j} ELSE scheduled)
                    \cup (IF on THEN {j} ELSE {})
  /\ early' = (IF off THEN early \ {j} ELSE early)
                \cup (IF on /\ ~started THEN {j} ELSE {})
  /\ UNCHANGED <<bus, closed>>

(* The runs after the tickers of j were replaced.                          *)
Replaced(j, changed) == IF changed THEN Cancel(Intervals(j)) ELSE run

SetEntry(j, on) == /\ present' = present \cup {j}
                   /\ enabled' = IF on THEN enabled \cup {j} ELSE enabled \ {j}

(* registerJob registers triggers only if the manager is started.          *)
Save(j, on) == /\ SetEntry(j, on)
               /\ Retrigger(j, j \in present, on /\ started)
               /\ run' = Replaced(j, j \in present \/ (on /\ started))

(* ToggleJob and applyPipelineState do not look at started.                *)
Toggle(j, on) == /\ j \in present
                 /\ SetEntry(j, on)
                 /\ Retrigger(j, TRUE, on)
                 /\ run' = Replaced(j, TRUE)

Delete(j) == /\ j \in present
             /\ present' = present \ {j}
             /\ enabled' = enabled \ {j}
             /\ Retrigger(j, TRUE, FALSE)
             /\ run' = Replaced(j, TRUE)

EditJob(j) == /\ mu = Nobody
              /\ \/ Delete(j)
                 \/ \E on \in BOOLEAN : Save(j, on) \/ Toggle(j, on)
              /\ UNCHANGED <<callVars, loopVars, scheduler>>

-----------------------------------------------------------------------------
(* Runs.                                                                   *)

runContext == <<callVars, jobVars, triggerVars, loopVars, scheduler>>

Fire(r, new) == /\ run[r] = NoRun
                /\ run' = [run EXCEPT ![r] = new]
                /\ UNCHANGED runContext

FireCron(r, j) == /\ scheduler = "on"
                  /\ j \in scheduled \cap enabled
                  /\ Fire(r, Fresh("cron", j, 0))

(* Tickers fire until Scheduler.Stop cancels them, one run at a time.      *)
FireInterval(r, j) == /\ scheduler # "off"
                      /\ j \in scheduled \cap enabled
                      /\ \A i \in Intervals(j) : run[i].cancelled
                      /\ Fire(r, Fresh("interval", j, 0))

Hears(j) == heard[j] > 0 /\ j \in enabled

(* A user's domain event.                                                  *)
FireDomain(r, j) == Hears(j) /\ Fire(r, Fresh("event", j, bus))

(* RunJob asks the registry only.                                          *)
FireManual(r, j) == j \in present /\ Fire(r, Fresh("manual", j, 0))

Move(r, from, to) == /\ run[r] # NoRun
                     /\ run[r].stage = from
                     /\ run' = [run EXCEPT ![r].stage = to]
                     /\ UNCHANGED runContext

CallMutator(r) == Move(r, "tool", "waiting")
ReturnTool(r) == Move(r, "tool", "emitting")

(* Mutant: only the end of its context makes the executor leave a call.    *)
AbandonMutant(r) == /\ run[r] # NoRun
                    /\ run[r].cancelled
                    /\ Move(r, "waiting", "emitting")
(* The timeout of the tool or the end of its context: the executor leaves  *)
(* the call alone.  When the call gets the lock at last, the database      *)
(* refuses its cancelled context.                                          *)
Abandon(r) == Move(r, "waiting", "emitting")

(* The edit of the tool, with the lock.                                    *)
Mutate(r) ==
  /\ run[r] # NoRun
  /\ run[r].stage = "waiting"
  /\ mu = Nobody
  /\ \E j \in Jobs, on \in BOOLEAN :
       /\ SetEntry(j, on)
       /\ \/ Retrigger(j, j \in present, on /\ started)
          \/ j \in present /\ Retrigger(j, TRUE, on)
       /\ run' = [Replaced(j, j \in present \/ (on /\ started))
                    EXCEPT ![r].stage = "emitting"]
  /\ UNCHANGED <<callVars, loopVars, scheduler>>

(* The executor's bus is read, without a lock, before Publish is entered.  *)
PickBus(r) == /\ run[r] # NoRun
              /\ run[r].stage = "emitting"
              /\ run' = [run EXCEPT ![r].stage = "publishing", ![r].target = bus]
              /\ UNCHANGED runContext

EndRun(r) == /\ run[r] # NoRun
             /\ run[r].stage = "emitting"
             /\ run' = [run EXCEPT ![r] = NoRun]
             /\ UNCHANGED runContext

(* Mutant: the handlers are counted after the lock of the bus was left,    *)
(* so that Close may come in between.                                      *)
PublishMutant(r) ==
  /\ run[r] # NoRun
  /\ run[r].stage = "publishing"
  /\ \/ run' = [run EXCEPT ![r] = NoRun]
     \/ \E k \in Runs \ Live, j \in enabled :
          run' = [run EXCEPT ![r] = NoRun, ![k] = Fresh("event", j, run[r].target)]
  /\ UNCHANGED runContext
(* A handler of the bus, if it is open, runs in a goroutine of its own.    *)
Publish(r) ==
  /\ run[r] # NoRun
  /\ run[r].stage = "publishing"
  /\ \/ run' = [run EXCEPT ![r] = NoRun]
     \/ /\ run[r].target = bus
        /\ \E k \in Runs \ Live : \E j \in {i \in Jobs : Hears(i)} :
             run' = [run EXCEPT ![r] = NoRun, ![k] = Fresh("event", j, bus)]
  /\ UNCHANGED runContext

-----------------------------------------------------------------------------
Call(c) == StartFails(c) \/ StartLoads(c) \/ StopJoins(c) \/ StopBegins(c)
Proceed(c) == \/ StartLaunches(c)
              \/ StopCancels(c) \/ StopAwaits(c) \/ StopLocks(c)
              \/ StopSchedule(c) \/ StopCloses(c) \/ StopDrains(c) \/ StopReturns(c)

LoopStep(g) == BeginPass(g) \/ EndPass(g) \/ EndLoop(g) \/ EndSession(g)

FireAny(r) == \E j \in Jobs : \/ FireCron(r, j) \/ FireInterval(r, j)
                              \/ FireDomain(r, j) \/ FireManual(r, j)
RunStep(r) == \/ CallMutator(r) \/ ReturnTool(r) \/ Mutate(r) \/ Abandon(r)
              \/ PickBus(r) \/ EndRun(r) \/ Publish(r)

Next == \/ \E c \in Callers : Call(c) \/ Proceed(c)
        \/ \E g \in 1 .. MaxBuses : LoopStep(g)
        \/ \E j \in Jobs : EditJob(j)
        \/ \E r \in Runs : FireAny(r) \/ RunStep(r)

(* Goroutines are scheduled, tools return or time out and passes of the    *)
(* loop end.  Nobody has to call, to edit, to fire a job, to begin a pass  *)
(* or to end a session.                                                    *)
Fairness ==
  /\ \A c \in Callers : WF_vars(Proceed(c))
  /\ \A g \in 1 .. MaxBuses : WF_vars(EndPass(g)) /\ WF_vars(EndLoop(g))
  /\ \A r \in Runs : WF_vars(RunStep(r))

Spec == Init /\ [][Next]_vars
FairSpec == Spec /\ Fairness

-----------------------------------------------------------------------------
(* A trigger of before Start doubles the handlers of its job, and nothing  *)
(* makes them more than two.                                               *)
TypeOK ==
  /\ call \in [Callers -> Calls]
  /\ mu \in Callers \cup {Nobody}
  /\ stopping \in BOOLEAN /\ started \in BOOLEAN
  /\ present \subseteq Jobs /\ enabled \subseteq present /\ early \subseteq Jobs
  /\ scheduled \subseteq Jobs
  /\ scheduler \in {"off", "on", "draining"}
  /\ bus \in 1 .. MaxBuses /\ closed \subseteq 1 .. bus
  /\ heard \in [Jobs -> 0 .. 2]
  /\ handle \in 0 .. MaxBuses
  /\ loop \in [1 .. MaxBuses -> {"none", "idle", "pass", "over"}]
  /\ cut \subseteq 1 .. MaxBuses /\ stopped \subseteq 1 .. MaxBuses
  /\ run \in [Runs -> Alive \cup {NoRun}]

(* "no handler fired by this bus goes on executing after Close": whoever   *)
(* publishes is either counted by the drain or turned away, whatever bus   *)
(* it holds in its hand.                                                   *)
DrainIsComplete ==
  \A b \in closed : OnBus(b) # {} => b = bus /\ \E c \in Callers : At(c, "drain")

(* What survives the stop of the scheduler: no cron run, and no interval   *)
(* run that was not told to end.                                           *)
SurvivorsAreCancelled ==
  scheduler = "off" => /\ Of("cron") = {}
                       /\ \A r \in Of("interval") : run[r].cancelled

(* The retention loop has one owner: no two loops, no channel closed       *)
(* twice, none left behind by a Stop, and none missing in a started        *)
(* manager.                                                                *)
LoopHasOneOwner ==
  /\ \A g, h \in 1 .. MaxBuses : LoopAlive(g) /\ LoopAlive(h) => g = h
  /\ \A c \in Callers : At(c, "cancel") => call[c].loop \notin stopped
  /\ mu = Nobody /\ ~stopping =>
       /\ \A g \in 1 .. MaxBuses : LoopAlive(g) => started /\ g = handle
       /\ started => handle # 0 /\ (LoopAlive(handle) \/ handle \in cut)

(* In every session, whatever was started and stopped before: the triggers *)
(* of a job are registered exactly once if it is enabled and not at all    *)
(* otherwise.  Jobs that were switched on before Start are the exception.  *)
TriggersOfTheSession ==
  started /\ mu = Nobody =>
    \A j \in Jobs \ early : /\ heard[j] = (IF j \in enabled THEN 1 ELSE 0)
                            /\ j \in scheduled <=> j \in enabled

(* Nobody waits for what will not come: who joined a Stop joined one that  *)
(* is under way, and who waits for the retention loop has told it to end   *)
(* and leaves it the lock that its pass may ask for.                       *)
WaitsAreOwed ==
  /\ \A c \in Callers : At(c, "join") =>
       \E d \in Callers : call[d].pc \notin {"idle", "launch", "join"}
  /\ \A c \in Callers : At(c, "await") =>
       /\ mu = Nobody
       /\ call[c].loop # 0 => call[c].loop \in cut /\ loop[call[c].loop] # "none"

(* What Stop waits for only gets less: once it waits, no new cron run, no  *)
(* new handler and no new pass of the loop begins, although runs publish,  *)
(* users edit jobs and sessions end meanwhile.                             *)
WaitsOnlyShrink ==
  [][\A c \in Callers :
       /\ At(c, "cron") => Of("cron")' \subseteq Of("cron")
       /\ At(c, "drain") => OnBus(bus)' \subseteq OnBus(bus)
       /\ At(c, "await") /\ call[c].loop # 0 =>
            (loop'[call[c].loop] = "pass" => loop[call[c].loop] = "pass")]_vars

(* Start and Stop return, although Stop waits with the locks held for runs *)
(* that may want them.                                                     *)
CallsReturn == \A c \in Callers : ~At(c, "idle") ~> At(c, "idle")
=============================================================================
