-------------------------- MODULE JobLifecycleProofs --------------------------
(***************************************************************************)
(* Theorems about Start and Stop of jobs.Manager, for any number of        *)
(* callers, jobs, runs and buses.                                          *)
(*                                                                         *)
(* The inductive invariant says who is where: at most one caller is inside *)
(* the locks and at most one is stopping (OneInside), the scheduler, the   *)
(* bus and the retention loop follow the phase of that caller              *)
(* (SchedulerFollows, BusFollows, LoopFollows), and the triggers are those *)
(* of the session from Start to Stop and none in between, except the early *)
(* ones (TriggersFollow).                                                  *)
(***************************************************************************)
EXTENDS JobLifecycle, TLAPS

Stops == {"cancel", "await", "relock", "cron", "close", "drain", "clear"}
In(c, ps) == call[c].pc \in ps
Some(ps) == \E c \in Callers : In(c, ps)

OneInside ==
  /\ \A c \in Callers : mu = c <=> In(c, Inside)
  /\ \A c, d \in Callers : In(c, Stops) /\ In(d, Stops) => c = d
  /\ stopping <=> Some(Stops)
  /\ Some({"launch"}) => ~started /\ ~stopping
  /\ Some({"cron", "close", "drain"}) => started

SchedulerFollows ==
  /\ scheduler = "draining" <=> Some({"cron"})
  /\ scheduler = "on" <=> started /\ ~Some({"cron", "close", "drain", "clear"})
  /\ SurvivorsAreCancelled

BusFollows ==
  /\ DrainIsComplete
  /\ bus \in closed => \A j \in Jobs : heard[j] = 0
  /\ bus \in closed => ~Some({"launch"}) /\ (started => Some({"drain", "clear"}))
  /\ Some({"drain"}) => bus \in closed
  /\ Some({"clear"}) /\ started => bus \in closed

LoopFollows ==
  /\ \A g \in 1 .. MaxBuses : LoopAlive(g) => g = handle /\ started
  /\ handle # 0 => started
  /\ \A c \in Callers : In(c, {"cancel", "await", "relock"}) => call[c].loop = handle
  /\ Some({"relock"}) /\ handle # 0 => loop[handle] = "over"
  /\ Some({"cron", "close", "drain", "clear"}) => handle = 0
  /\ handle \in stopped => Some({"await", "relock"})
  /\ stopped \subseteq cut
  /\ \A g \in 1 .. MaxBuses :
       /\ g \in cut => loop[g] # "none"
       /\ loop[g] # "none" => g <= bus
       /\ loop[g] # "none" /\ g = bus => started \/ bus \in closed
  /\ started /\ ~Some({"cron", "close", "drain", "clear"}) =>
       handle # 0 /\ (LoopAlive(handle) \/ handle \in cut)

Cold == ~started /\ ~Some({"launch"})

TriggersFollow ==
  /\ Cold => \A j \in Jobs : /\ heard[j] <= 1
                             /\ j \notin early => heard[j] = 0 /\ j \notin scheduled
  /\ ~Cold => \A j \in Jobs \ present : heard[j] <= 1
  /\ ~Cold /\ ~Some({"close", "drain", "clear"}) =>
       \A j \in Jobs \ early : /\ heard[j] = (IF j \in enabled THEN 1 ELSE 0)
                               /\ j \in scheduled <=> j \in enabled
  /\ started /\ Some({"close", "drain", "clear"}) => scheduled = {}

LifecycleInv == /\ TypeOK /\ OneInside /\ SchedulerFollows /\ BusFollows
                /\ LoopFollows /\ TriggersFollow


-----------------------------------------------------------------------------
(* The initial states satisfy the invariant.                               *)
LEMMA InitInv == Init => LifecycleInv
<1> SUFFICES ASSUME Init PROVE LifecycleInv
  OBVIOUS
<1> USE LifecycleAssumption DEF Init, Idle
<1>1. TypeOK
  <2>1. call \in [Callers -> Calls]
    BY DEF Calls
  <2>2. run \in [Runs -> Alive \cup {NoRun}]
    OBVIOUS
  <2>3. heard \in [Jobs -> 0 .. 2] /\ loop \in [1 .. MaxBuses -> {"none", "idle", "pass", "over"}]
    OBVIOUS
  <2>4. /\ mu \in Callers \cup {Nobody} /\ bus \in 1 .. MaxBuses /\ handle \in 0 .. MaxBuses
        /\ scheduler \in {"off", "on", "draining"}
    OBVIOUS
  <2>5. /\ present = {} /\ enabled = {} /\ early = {} /\ scheduled = {}
        /\ closed = {} /\ cut = {} /\ stopped = {} /\ ~stopping /\ ~started
    OBVIOUS
  <2> QED BY <2>1, <2>2, <2>3, <2>4, <2>5 DEF TypeOK
<1>2. OneInside /\ SchedulerFollows
  BY DEF OneInside, SchedulerFollows, SurvivorsAreCancelled, Some, In, Inside, Stops, Of, Live
<1>3. BusFollows
  BY DEF BusFollows, DrainIsComplete, Some, In
<1>4. \A g \in 1 .. MaxBuses : loop[g] = "none"
  OBVIOUS
<1>5. LoopFollows
  BY <1>4 DEF LoopFollows, LoopAlive, Some, In
<1>6. TriggersFollow
  BY DEF TriggersFollow, Cold, Some, In
<1> QED BY <1>1, <1>2, <1>3, <1>5, <1>6 DEF LifecycleInv

(* A caller moves on and the others stay.                                  *)
LEMMA GotoPc ==
  ASSUME TypeOK, NEW c \in Callers, NEW p \in {"idle"} \cup Inside \cup Outside, Goto(c, p)
  PROVE  /\ call'[c].pc = p /\ call'[c].loop = call[c].loop
         /\ \A d \in Callers \ {c} : call'[d] = call[d]
         /\ call' \in [Callers -> Calls]
BY DEF TypeOK, Goto, Calls

(* Cancelling runs changes nothing else about them.                        *)
LEMMA CancelOnly ==
  ASSUME TypeOK, NEW rs \in SUBSET Live
  PROVE  /\ Cancel(rs) \in [Runs -> Alive \cup {NoRun}]
         /\ \A r \in Runs : /\ Cancel(rs)[r] = NoRun <=> run[r] = NoRun
                            /\ Cancel(rs)[r].kind = run[r].kind
                            /\ r \in Live => /\ Cancel(rs)[r].bus = run[r].bus
                                             /\ Cancel(rs)[r].stage = run[r].stage
                                             /\ Cancel(rs)[r].cancelled <=> r \in rs \/ run[r].cancelled
<1> DEFINE f == Cancel(rs)
<1>1. \A r \in Runs : f[r] = IF r \in rs THEN [run[r] EXCEPT !.cancelled = TRUE] ELSE run[r]
  BY DEF Cancel
<1>2. \A r \in rs : run[r] \in Alive
  BY DEF TypeOK, Live
<1>3. \A r \in Live : run[r] \in Alive
  BY DEF TypeOK, Live
<1>4. \A r \in Runs : f[r] \in Alive \cup {NoRun}
  BY <1>1, <1>2 DEF TypeOK, Alive
<1>5. f \in [Runs -> Alive \cup {NoRun}]
  BY <1>4 DEF Cancel
<1>6. \A e \in Alive : e.kind # "none" /\ e # NoRun
  BY DEF Alive, Kinds, NoRun
<1>7. \A r \in Runs : r \in rs => f[r] \in Alive /\ f[r].kind = run[r].kind
                                  /\ f[r].bus = run[r].bus /\ f[r].stage = run[r].stage /\ f[r].cancelled
  BY <1>1, <1>2 DEF Alive
<1>8. \A r \in Runs : r \notin rs => f[r] = run[r]
  BY <1>1
<1>9. rs \subseteq Runs
  BY DEF Live
<1> HIDE DEF f
<1>10. ASSUME NEW r \in Runs
       PROVE  /\ f[r] = NoRun <=> run[r] = NoRun
              /\ f[r].kind = run[r].kind
              /\ r \in Live => /\ f[r].bus = run[r].bus
                               /\ f[r].stage = run[r].stage
                               /\ f[r].cancelled <=> r \in rs \/ run[r].cancelled
  BY <1>2, <1>6, <1>7, <1>8
<1> QED BY <1>5, <1>10 DEF f

-----------------------------------------------------------------------------
(* The steps of Start and Stop.                                            *)

(* The new bus, if there is one, is the only change.                        *)
LEMMA StartFailsInv ==
  ASSUME LifecycleInv, NEW c \in Callers, StartFails(c)
  PROVE  LifecycleInv'
<1> USE LifecycleAssumption DEF LifecycleInv
<1>0. /\ call[c].pc = "idle" /\ call' = call
  BY DEF StartFails, StartEnters, At
<1>r. run' = run /\ (\A k : Of(k)' = Of(k)) /\ (\A b : OnBus(b)' = OnBus(b))
  BY DEF StartFails, Of, OnBus, Live, StartEnters
<1>1. TypeOK'
  BY <1>0, <1>r DEF StartFails, StartEnters, NewBus, TypeOK, OneInside, TriggersFollow, Cold, Some, In, jobVars, triggerVars, loopVars
<1>2. OneInside'
  BY <1>0 DEF StartFails, StartEnters, NewBus, OneInside, TypeOK, Some, In, Inside, Stops, jobVars, triggerVars, loopVars
<1>3. SchedulerFollows'
  BY <1>0, <1>r DEF StartFails, StartEnters, NewBus, SchedulerFollows, SurvivorsAreCancelled, OneInside, TypeOK, Some, In, Inside, Stops, jobVars, triggerVars, loopVars
<1>4. BusFollows'
  BY <1>0, <1>r DEF StartFails, StartEnters, NewBus, BusFollows, DrainIsComplete, At, OneInside, TypeOK, Some, In, Inside, Stops, jobVars, triggerVars, loopVars
<1>5. LoopFollows'
  BY <1>0 DEF StartFails, StartEnters, NewBus, LoopFollows, LoopAlive, BusFollows, OneInside, TypeOK, Some, In, Inside, Stops, jobVars, triggerVars, loopVars
<1>6. TriggersFollow'
  BY <1>0 DEF StartFails, StartEnters, NewBus, TriggersFollow, Cold, BusFollows, OneInside, TypeOK, Some, In, Inside, Stops, jobVars, triggerVars, loopVars
<1> QED BY <1>1, <1>2, <1>3, <1>4, <1>5, <1>6

(* The triggers of the loaded jobs are added to the early ones.             *)
LEMMA StartLoadsInv ==
  ASSUME LifecycleInv, NEW c \in Callers, StartLoads(c)
  PROVE  LifecycleInv'
<1> USE LifecycleAssumption DEF LifecycleInv
<1>0. /\ call[c].pc = "idle" /\ call'[c].pc = "launch" /\ call'[c].loop = call[c].loop
      /\ \A d \in Callers \ {c} : call'[d] = call[d]
      /\ call' \in [Callers -> Calls]
  BY GotoPc DEF StartLoads, At, Inside, Outside, StartEnters
<1>r. run' = run /\ (\A k : Of(k)' = Of(k)) /\ (\A b : OnBus(b)' = OnBus(b))
  BY DEF StartLoads, Of, OnBus, Live
<1>h. heard' \in [Jobs -> 0 .. 2]
  <2>1. \A j \in Jobs : heard[j] \in 0 .. 1
    BY <1>0 DEF StartLoads, StartEnters, TypeOK, TriggersFollow, Cold, OneInside, Some, In, Inside
  <2>2. PICK es : heard' = [j \in Jobs |-> heard[j] + (IF j \in es THEN 1 ELSE 0)]
    BY DEF StartLoads
  <2> QED BY <2>1, <2>2
<1>1. TypeOK'
  BY <1>0, <1>r, <1>h DEF StartLoads, StartEnters, NewBus, TypeOK, OneInside, TriggersFollow, Cold, Some, In, jobVars, triggerVars, loopVars
<1>2. OneInside'
  BY <1>0, <1>h DEF StartLoads, StartEnters, NewBus, OneInside, TypeOK, Some, In, Inside, Stops, jobVars, triggerVars, loopVars
<1>3. SchedulerFollows'
  BY <1>0, <1>r DEF StartLoads, StartEnters, NewBus, SchedulerFollows, SurvivorsAreCancelled, OneInside, TypeOK, Some, In, Inside, Stops, jobVars, triggerVars, loopVars
<1>4. BusFollows'
  BY <1>0, <1>r DEF StartLoads, StartEnters, NewBus, BusFollows, DrainIsComplete, At, OneInside, TypeOK, Some, In, Inside, Stops, jobVars, triggerVars, loopVars
<1>5. LoopFollows'
  BY <1>0, <1>h DEF StartLoads, StartEnters, NewBus, LoopFollows, LoopAlive, BusFollows, OneInside, TypeOK, Some, In, Inside, Stops, jobVars, triggerVars, loopVars
<1>6. TriggersFollow'
  BY <1>0 DEF StartLoads, StartEnters, NewBus, TriggersFollow, Cold, BusFollows, OneInside, TypeOK, Some, In, Inside, Stops, jobVars, triggerVars, loopVars
<1> QED BY <1>1, <1>2, <1>3, <1>4, <1>5, <1>6

(* The scheduler starts, and a loop of a number no loop had.                *)
LEMMA StartLaunchesInv ==
  ASSUME LifecycleInv, NEW c \in Callers, StartLaunches(c)
  PROVE  LifecycleInv'
<1> USE LifecycleAssumption DEF LifecycleInv
<1>0. /\ call[c].pc = "launch" /\ call'[c].pc = "idle" /\ call'[c].loop = call[c].loop
      /\ \A d \in Callers \ {c} : call'[d] = call[d]
      /\ call' \in [Callers -> Calls]
  BY GotoPc DEF StartLaunches, At, Inside, Outside
<1>r. run' = run /\ (\A k : Of(k)' = Of(k)) /\ (\A b : OnBus(b)' = OnBus(b))
  BY DEF StartLaunches, Of, OnBus, Live
<1>1. TypeOK'
  BY <1>0, <1>r DEF StartLaunches, startRetentionLoop, TypeOK, OneInside, TriggersFollow, Cold, Some, In, jobVars, triggerVars, loopVars
<1>2. OneInside'
  BY <1>0 DEF StartLaunches, startRetentionLoop, OneInside, TypeOK, Some, In, Inside, Stops, jobVars, triggerVars, loopVars
<1>3. SchedulerFollows'
  BY <1>0, <1>r DEF StartLaunches, startRetentionLoop, SchedulerFollows, SurvivorsAreCancelled, OneInside, TypeOK, Some, In, Inside, Stops, jobVars, triggerVars, loopVars
<1>4. BusFollows'
  BY <1>0, <1>r DEF StartLaunches, startRetentionLoop, BusFollows, DrainIsComplete, At, OneInside, TypeOK, Some, In, Inside, Stops, jobVars, triggerVars, loopVars
<1>5. LoopFollows'
  BY <1>0 DEF StartLaunches, startRetentionLoop, LoopFollows, LoopAlive, BusFollows, OneInside, TypeOK, Some, In, Inside, Stops, jobVars, triggerVars, loopVars
<1>6. TriggersFollow'
  BY <1>0 DEF StartLaunches, startRetentionLoop, TriggersFollow, Cold, BusFollows, OneInside, TypeOK, Some, In, Inside, Stops, jobVars, triggerVars, loopVars
<1> QED BY <1>1, <1>2, <1>3, <1>4, <1>5, <1>6

(* A second Stop waits and touches nothing.                                 *)
LEMMA StopJoinsInv ==
  ASSUME LifecycleInv, NEW c \in Callers, StopJoins(c)
  PROVE  LifecycleInv'
<1> USE LifecycleAssumption DEF LifecycleInv
<1>0. /\ call[c].pc = "idle" /\ call'[c].pc = "join" /\ call'[c].loop = call[c].loop
      /\ \A d \in Callers \ {c} : call'[d] = call[d]
      /\ call' \in [Callers -> Calls]
  BY GotoPc DEF StopJoins, At, Inside, Outside
<1>r. run' = run /\ (\A k : Of(k)' = Of(k)) /\ (\A b : OnBus(b)' = OnBus(b))
  BY DEF StopJoins, Of, OnBus, Live
<1>1. TypeOK'
  BY <1>0, <1>r DEF StopJoins, TypeOK, OneInside, TriggersFollow, Cold, Some, In, jobVars, triggerVars, loopVars
<1>2. OneInside'
  BY <1>0 DEF StopJoins, OneInside, TypeOK, Some, In, Inside, Stops, jobVars, triggerVars, loopVars
<1>3. SchedulerFollows'
  BY <1>0, <1>r DEF StopJoins, SchedulerFollows, SurvivorsAreCancelled, OneInside, TypeOK, Some, In, Inside, Stops, jobVars, triggerVars, loopVars
<1>4. BusFollows'
  BY <1>0, <1>r DEF StopJoins, BusFollows, DrainIsComplete, At, OneInside, TypeOK, Some, In, Inside, Stops, jobVars, triggerVars, loopVars
<1>5. LoopFollows'
  BY <1>0 DEF StopJoins, LoopFollows, LoopAlive, BusFollows, OneInside, TypeOK, Some, In, Inside, Stops, jobVars, triggerVars, loopVars
<1>6. TriggersFollow'
  BY <1>0 DEF StopJoins, TriggersFollow, Cold, BusFollows, OneInside, TypeOK, Some, In, Inside, Stops, jobVars, triggerVars, loopVars
<1> QED BY <1>1, <1>2, <1>3, <1>4, <1>5, <1>6

(* The only Stop, with the handle of the only loop.                         *)
LEMMA StopBeginsInv ==
  ASSUME LifecycleInv, NEW c \in Callers, StopBegins(c)
  PROVE  LifecycleInv'
<1> USE LifecycleAssumption DEF LifecycleInv
<1>0. /\ call[c].pc = "idle" /\ call'[c].pc = "cancel" /\ call'[c].loop = handle
      /\ \A d \in Callers \ {c} : call'[d] = call[d]
      /\ call' \in [Callers -> Calls]
  BY DEF StopBegins, At, TypeOK, Calls, Outside
<1>r. run' = run /\ (\A k : Of(k)' = Of(k)) /\ (\A b : OnBus(b)' = OnBus(b))
  BY DEF StopBegins, Of, OnBus, Live
<1>1. TypeOK'
  BY <1>0, <1>r DEF StopBegins, TypeOK, OneInside, TriggersFollow, Cold, Some, In, jobVars, triggerVars, loopVars
<1>2. OneInside'
  BY <1>0 DEF StopBegins, OneInside, TypeOK, Some, In, Inside, Stops, jobVars, triggerVars, loopVars
<1>3. SchedulerFollows'
  BY <1>0, <1>r DEF StopBegins, SchedulerFollows, SurvivorsAreCancelled, OneInside, TypeOK, Some, In, Inside, Stops, jobVars, triggerVars, loopVars
<1>4. BusFollows'
  BY <1>0, <1>r DEF StopBegins, BusFollows, DrainIsComplete, At, OneInside, TypeOK, Some, In, Inside, Stops, jobVars, triggerVars, loopVars
<1>5. LoopFollows'
  BY <1>0 DEF StopBegins, LoopFollows, LoopAlive, BusFollows, OneInside, TypeOK, Some, In, Inside, Stops, jobVars, triggerVars, loopVars
<1>6. TriggersFollow'
  BY <1>0 DEF StopBegins, TriggersFollow, Cold, BusFollows, OneInside, TypeOK, Some, In, Inside, Stops, jobVars, triggerVars, loopVars
<1> QED BY <1>1, <1>2, <1>3, <1>4, <1>5, <1>6

(* The loop is told to end.                                                 *)
LEMMA StopCancelsInv ==
  ASSUME LifecycleInv, NEW c \in Callers, StopCancels(c)
  PROVE  LifecycleInv'
<1> USE LifecycleAssumption DEF LifecycleInv
<1>0. /\ call[c].pc = "cancel" /\ call'[c].pc = "await" /\ call'[c].loop = call[c].loop
      /\ \A d \in Callers \ {c} : call'[d] = call[d]
      /\ call' \in [Callers -> Calls]
  BY GotoPc DEF StopCancels, At, Inside, Outside
<1>r. run' = run /\ (\A k : Of(k)' = Of(k)) /\ (\A b : OnBus(b)' = OnBus(b))
  BY DEF StopCancels, Of, OnBus, Live
<1>h. /\ call[c].loop = handle /\ handle \notin stopped
      /\ cut' = cut \cup ({handle} \ {0}) /\ stopped' = stopped \cup ({handle} \ {0})
      /\ UNCHANGED <<mu, stopping, started, jobVars, triggerVars, handle, loop, scheduler, run>>
  BY <1>0 DEF StopCancels, LoopFollows, OneInside, Some, In, Stops
<1>1. TypeOK'
  BY <1>0, <1>r, <1>h DEF Calls, TypeOK, OneInside, TriggersFollow, Cold, Some, In, jobVars, triggerVars, loopVars
<1>2. OneInside'
  BY <1>0, <1>h DEF StopCancels, OneInside, TypeOK, Some, In, Inside, Stops, jobVars, triggerVars, loopVars
<1>3. SchedulerFollows'
  BY <1>0, <1>r DEF StopCancels, SchedulerFollows, SurvivorsAreCancelled, OneInside, TypeOK, Some, In, Inside, Stops, jobVars, triggerVars, loopVars
<1>4. BusFollows'
  BY <1>0, <1>r DEF StopCancels, BusFollows, DrainIsComplete, At, OneInside, TypeOK, Some, In, Inside, Stops, jobVars, triggerVars, loopVars
<1>5. LoopFollows'
  <2>1. handle # 0 => started /\ loop[handle] # "none" /\ handle \in 1 .. MaxBuses
    BY <1>0, <1>h DEF LoopFollows, LoopAlive, OneInside, TypeOK, Some, In, Stops
  <2>2. /\ handle \notin stopped' \/ Some({"await", "relock"})'
        /\ stopped' \subseteq cut'
    BY <1>0, <1>h DEF LoopFollows, Some, In
  <2>3. \A g \in 1 .. MaxBuses : g \in cut' => loop[g] # "none"
    BY <2>1, <1>h DEF LoopFollows
  <2>4. \A d \in Callers : In(d, {"cancel", "await", "relock"})' => call'[d].loop = handle
    BY <1>0, <1>h DEF LoopFollows, In
  <2>5. Some({"relock"})' = Some({"relock"}) /\ Some({"cron", "close", "drain", "clear"})' = Some({"cron", "close", "drain", "clear"})
    BY <1>0 DEF Some, In
  <2>6. cut \subseteq cut' /\ UNCHANGED <<started, handle, loop, bus, closed>>
    BY <1>h DEF triggerVars
  <2> QED BY <2>1, <2>2, <2>3, <2>4, <2>5, <2>6 DEF LoopFollows, LoopAlive
<1>6. TriggersFollow'
  BY <1>0 DEF StopCancels, TriggersFollow, Cold, BusFollows, OneInside, TypeOK, Some, In, Inside, Stops, jobVars, triggerVars, loopVars
<1> QED BY <1>1, <1>2, <1>3, <1>4, <1>5, <1>6

(* The loop is over.                                                        *)
LEMMA StopAwaitsInv ==
  ASSUME LifecycleInv, NEW c \in Callers, StopAwaits(c)
  PROVE  LifecycleInv'
<1> USE LifecycleAssumption DEF LifecycleInv
<1>0. /\ call[c].pc = "await" /\ call'[c].pc = "relock" /\ call'[c].loop = call[c].loop
      /\ \A d \in Callers \ {c} : call'[d] = call[d]
      /\ call' \in [Callers -> Calls]
  BY GotoPc DEF StopAwaits, At, Inside, Outside
<1>r. run' = run /\ (\A k : Of(k)' = Of(k)) /\ (\A b : OnBus(b)' = OnBus(b))
  BY DEF StopAwaits, Of, OnBus, Live
<1>1. TypeOK'
  BY <1>0, <1>r DEF StopAwaits, TypeOK, OneInside, TriggersFollow, Cold, Some, In, jobVars, triggerVars, loopVars
<1>2. OneInside'
  BY <1>0 DEF StopAwaits, OneInside, TypeOK, Some, In, Inside, Stops, jobVars, triggerVars, loopVars
<1>3. SchedulerFollows'
  BY <1>0, <1>r DEF StopAwaits, SchedulerFollows, SurvivorsAreCancelled, OneInside, TypeOK, Some, In, Inside, Stops, jobVars, triggerVars, loopVars
<1>4. BusFollows'
  BY <1>0, <1>r DEF StopAwaits, BusFollows, DrainIsComplete, At, OneInside, TypeOK, Some, In, Inside, Stops, jobVars, triggerVars, loopVars
<1>5. LoopFollows'
  BY <1>0 DEF StopAwaits, LoopFollows, LoopAlive, BusFollows, OneInside, TypeOK, Some, In, Inside, Stops, jobVars, triggerVars, loopVars
<1>6. TriggersFollow'
  BY <1>0 DEF StopAwaits, TriggersFollow, Cold, BusFollows, OneInside, TypeOK, Some, In, Inside, Stops, jobVars, triggerVars, loopVars
<1> QED BY <1>1, <1>2, <1>3, <1>4, <1>5, <1>6

(* The handle goes, and the scheduler starts to drain.                      *)
LEMMA StopLocksInv ==
  ASSUME LifecycleInv, NEW c \in Callers, StopLocks(c)
  PROVE  LifecycleInv'
<1> USE LifecycleAssumption DEF LifecycleInv
<1>0. /\ call[c].pc = "relock" /\ call'[c].pc = (IF started THEN "cron" ELSE "clear") /\ call'[c].loop = call[c].loop
      /\ \A d \in Callers \ {c} : call'[d] = call[d]
      /\ call' \in [Callers -> Calls]
  BY GotoPc DEF StopLocks, At, Inside, Outside
<1>r. run' = run /\ (\A k : Of(k)' = Of(k)) /\ (\A b : OnBus(b)' = OnBus(b))
  BY DEF StopLocks, Of, OnBus, Live
<1>1. TypeOK'
  BY <1>0, <1>r DEF StopLocks, TypeOK, OneInside, TriggersFollow, Cold, Some, In, jobVars, triggerVars, loopVars
<1>2. OneInside'
  BY <1>0 DEF StopLocks, OneInside, TypeOK, Some, In, Inside, Stops, jobVars, triggerVars, loopVars
<1>3. SchedulerFollows'
  BY <1>0, <1>r DEF StopLocks, SchedulerFollows, SurvivorsAreCancelled, OneInside, TypeOK, Some, In, Inside, Stops, jobVars, triggerVars, loopVars
<1>4. BusFollows'
  BY <1>0, <1>r DEF StopLocks, BusFollows, DrainIsComplete, At, OneInside, TypeOK, Some, In, Inside, Stops, jobVars, triggerVars, loopVars
<1>5. LoopFollows'
  BY <1>0 DEF StopLocks, LoopFollows, LoopAlive, BusFollows, OneInside, TypeOK, Some, In, Inside, Stops, jobVars, triggerVars, loopVars
<1>6. TriggersFollow'
  BY <1>0 DEF StopLocks, TriggersFollow, Cold, BusFollows, OneInside, TypeOK, Some, In, Inside, Stops, jobVars, triggerVars, loopVars
<1> QED BY <1>1, <1>2, <1>3, <1>4, <1>5, <1>6

(* No cron run is left and every interval run is cancelled.                 *)
LEMMA StopScheduleInv ==
  ASSUME LifecycleInv, NEW c \in Callers, StopSchedule(c)
  PROVE  LifecycleInv'
<1> USE LifecycleAssumption DEF LifecycleInv
<1>0. /\ call[c].pc = "cron" /\ call'[c].pc = "close" /\ call'[c].loop = call[c].loop
      /\ \A d \in Callers \ {c} : call'[d] = call[d]
      /\ call' \in [Callers -> Calls]
  BY GotoPc DEF StopSchedule, At, Inside, Outside
<1>r. /\ run' \in [Runs -> Alive \cup {NoRun}]
      /\ \A k : Of(k)' = Of(k)
      /\ \A b : OnBus(b)' = OnBus(b)
      /\ \A r \in Of("interval") : run'[r].cancelled
  <2>1. Of("interval") \in SUBSET Live
    BY DEF Of
  <2>2. run' = Cancel(Of("interval"))
    BY DEF StopSchedule
  <2> QED BY <2>1, <2>2, CancelOnly DEF Of, OnBus, Live
<1>1. TypeOK'
  BY <1>0, <1>r DEF StopSchedule, TypeOK, OneInside, TriggersFollow, Cold, Some, In, jobVars, triggerVars, loopVars
<1>2. OneInside'
  BY <1>0 DEF StopSchedule, OneInside, TypeOK, Some, In, Inside, Stops, jobVars, triggerVars, loopVars
<1>3. SchedulerFollows'
  BY <1>0, <1>r DEF StopSchedule, SchedulerFollows, SurvivorsAreCancelled, OneInside, TypeOK, Some, In, Inside, Stops, jobVars, triggerVars, loopVars
<1>4. BusFollows'
  BY <1>0, <1>r DEF StopSchedule, BusFollows, DrainIsComplete, At, OneInside, TypeOK, Some, In, Inside, Stops, jobVars, triggerVars, loopVars
<1>5. LoopFollows'
  BY <1>0 DEF StopSchedule, LoopFollows, LoopAlive, BusFollows, OneInside, TypeOK, Some, In, Inside, Stops, jobVars, triggerVars, loopVars
<1>6. TriggersFollow'
  BY <1>0 DEF StopSchedule, TriggersFollow, Cold, BusFollows, OneInside, TypeOK, Some, In, Inside, Stops, jobVars, triggerVars, loopVars
<1> QED BY <1>1, <1>2, <1>3, <1>4, <1>5, <1>6

(* The handlers go with the bus.                                            *)
LEMMA StopClosesInv ==
  ASSUME LifecycleInv, NEW c \in Callers, StopCloses(c)
  PROVE  LifecycleInv'
<1> USE LifecycleAssumption DEF LifecycleInv
<1>0. /\ call[c].pc = "close" /\ call'[c].pc = "drain" /\ call'[c].loop = call[c].loop
      /\ \A d \in Callers \ {c} : call'[d] = call[d]
      /\ call' \in [Callers -> Calls]
  BY GotoPc DEF StopCloses, At, Inside, Outside
<1>r. run' = run /\ (\A k : Of(k)' = Of(k)) /\ (\A b : OnBus(b)' = OnBus(b))
  BY DEF StopCloses, Of, OnBus, Live
<1>h. UNCHANGED <<mu, stopping, started>>
  BY DEF StopCloses
<1>1. TypeOK'
  BY <1>0, <1>r, <1>h DEF StopCloses, TypeOK, OneInside, TriggersFollow, Cold, Some, In, jobVars, triggerVars, loopVars
<1>2. OneInside'
  <2>1. \A d \in Callers : mu = d <=> In(d, Inside)'
    BY <1>0 DEF OneInside, In, Inside
  <2>2. \A d, e \in Callers : In(d, Stops)' /\ In(e, Stops)' => d = e
    BY <1>0 DEF OneInside, In, Stops
  <2>3. Some(Stops)' /\ Some(Stops)
    BY <1>0 DEF Some, In, Stops
  <2>4. Some({"launch"})' => Some({"launch"})
    BY <1>0 DEF Some, In
  <2>5. Some({"cron", "close", "drain"})
    BY <1>0 DEF Some, In
  <2> QED BY <1>h, <2>1, <2>2, <2>3, <2>4, <2>5 DEF OneInside
<1>3. SchedulerFollows'
  BY <1>0, <1>r DEF StopCloses, SchedulerFollows, SurvivorsAreCancelled, OneInside, TypeOK, Some, In, Inside, Stops, jobVars, triggerVars, loopVars
<1>4. BusFollows'
  BY <1>0, <1>r DEF StopCloses, BusFollows, DrainIsComplete, At, OneInside, TypeOK, Some, In, Inside, Stops, jobVars, triggerVars, loopVars
<1>5. LoopFollows'
  BY <1>0, <1>h DEF StopCloses, LoopFollows, LoopAlive, BusFollows, OneInside, TypeOK, Some, In, Inside, Stops, jobVars, triggerVars, loopVars
<1>6. TriggersFollow'
  BY <1>0 DEF StopCloses, TriggersFollow, Cold, BusFollows, OneInside, TypeOK, Some, In, Inside, Stops, jobVars, triggerVars, loopVars
<1> QED BY <1>1, <1>2, <1>3, <1>4, <1>5, <1>6

(* No handler of the closed bus is left.                                    *)
LEMMA StopDrainsInv ==
  ASSUME LifecycleInv, NEW c \in Callers, StopDrains(c)
  PROVE  LifecycleInv'
<1> USE LifecycleAssumption DEF LifecycleInv
<1>0. /\ call[c].pc = "drain" /\ call'[c].pc = "clear" /\ call'[c].loop = call[c].loop
      /\ \A d \in Callers \ {c} : call'[d] = call[d]
      /\ call' \in [Callers -> Calls]
  BY GotoPc DEF StopDrains, At, Inside, Outside
<1>r. run' = run /\ (\A k : Of(k)' = Of(k)) /\ (\A b : OnBus(b)' = OnBus(b))
  BY DEF StopDrains, Of, OnBus, Live
<1>1. TypeOK'
  BY <1>0, <1>r DEF StopDrains, TypeOK, OneInside, TriggersFollow, Cold, Some, In, jobVars, triggerVars, loopVars
<1>2. OneInside'
  BY <1>0 DEF StopDrains, OneInside, TypeOK, Some, In, Inside, Stops, jobVars, triggerVars, loopVars
<1>3. SchedulerFollows'
  BY <1>0, <1>r DEF StopDrains, SchedulerFollows, SurvivorsAreCancelled, OneInside, TypeOK, Some, In, Inside, Stops, jobVars, triggerVars, loopVars
<1>4. BusFollows'
  BY <1>0, <1>r DEF StopDrains, BusFollows, DrainIsComplete, At, OneInside, TypeOK, Some, In, Inside, Stops, jobVars, triggerVars, loopVars
<1>5. LoopFollows'
  BY <1>0 DEF StopDrains, LoopFollows, LoopAlive, BusFollows, OneInside, TypeOK, Some, In, Inside, Stops, jobVars, triggerVars, loopVars
<1>6. TriggersFollow'
  BY <1>0 DEF StopDrains, TriggersFollow, Cold, BusFollows, OneInside, TypeOK, Some, In, Inside, Stops, jobVars, triggerVars, loopVars
<1> QED BY <1>1, <1>2, <1>3, <1>4, <1>5, <1>6

(* The joined callers become idle, and the manager is cold.                 *)
LEMMA StopReturnsInv ==
  ASSUME LifecycleInv, NEW c \in Callers, StopReturns(c)
  PROVE  LifecycleInv'
<1> USE LifecycleAssumption DEF LifecycleInv
<1>0. /\ call[c].pc = "clear" /\ call'[c].pc = "idle"
      /\ \A d \in Callers : \/ call'[d] = call[d] /\ d # c
                            \/ call'[d].pc = "idle" /\ call[d].pc \in {"join", "clear"}
      /\ call' \in [Callers -> Calls]
  <2>1. call[c].pc = "clear" /\ call' = [d \in Callers |-> IF d = c \/ At(d, "join") THEN Idle ELSE call[d]]
    BY DEF StopReturns, At
  <2>2. Idle \in Calls /\ Idle.pc = "idle"
    BY DEF Idle, Calls
  <2>3. \A d \in Callers : call[d] \in Calls
    BY DEF TypeOK
  <2>4. ASSUME NEW d \in Callers
        PROVE \/ call'[d] = call[d] /\ d # c
              \/ call'[d] = Idle /\ call[d].pc \in {"join", "clear"}
    <3>1. call'[d] = IF d = c \/ At(d, "join") THEN Idle ELSE call[d]
      BY <2>1
    <3>2. CASE d = c
      BY <3>1, <3>2, <2>1
    <3>3. CASE d # c
      BY <3>1, <3>3 DEF At
    <3> QED BY <3>2, <3>3
  <2>5. call' \in [Callers -> Calls]
    BY <2>1, <2>2, <2>3
  <2>6. call'[c] = Idle
    BY <2>1
  <2> QED BY <2>1, <2>2, <2>4, <2>5, <2>6
<1>r. run' = run /\ (\A k : Of(k)' = Of(k)) /\ (\A b : OnBus(b)' = OnBus(b))
  BY DEF StopReturns, Of, OnBus, Live
<1>1. TypeOK'
  BY <1>0, <1>r DEF StopReturns, TypeOK, OneInside, TriggersFollow, Cold, Some, In, jobVars, triggerVars, loopVars
<1>2. OneInside'
  BY <1>0 DEF StopReturns, OneInside, TypeOK, Some, In, Inside, Stops, jobVars, triggerVars, loopVars
<1>3. SchedulerFollows'
  BY <1>0, <1>r DEF StopReturns, SchedulerFollows, SurvivorsAreCancelled, OneInside, TypeOK, Some, In, Inside, Stops, jobVars, triggerVars, loopVars
<1>4. BusFollows'
  BY <1>0, <1>r DEF StopReturns, BusFollows, DrainIsComplete, At, OneInside, TypeOK, Some, In, Inside, Stops, jobVars, triggerVars, loopVars
<1>5. LoopFollows'
  BY <1>0 DEF StopReturns, LoopFollows, LoopAlive, BusFollows, OneInside, TypeOK, Some, In, Inside, Stops, jobVars, triggerVars, loopVars
<1>6. TriggersFollow'
  BY <1>0 DEF StopReturns, TriggersFollow, Cold, BusFollows, OneInside, TypeOK, Some, In, Inside, Stops, jobVars, triggerVars, loopVars
<1> QED BY <1>1, <1>2, <1>3, <1>4, <1>5, <1>6

-----------------------------------------------------------------------------
(* The retention loop: only the loop of the handle is alive, and it ends   *)
(* only when it was cancelled.                                             *)
LEMMA LoopStepInv ==
  ASSUME LifecycleInv, NEW g \in 1 .. MaxBuses, LoopStep(g)
  PROVE  LifecycleInv'
<1> USE LifecycleAssumption DEF LifecycleInv
<1>1. UNCHANGED <<call, mu, stopping, started, present, enabled, early, scheduled,
                  bus, closed, heard, handle, stopped, scheduler, run>>
  BY DEF LoopStep, BeginPass, EndPass, EndLoop, EndSession, callVars, jobVars, triggerVars
<1>2. /\ loop' \in [1 .. MaxBuses -> {"none", "idle", "pass", "over"}]
      /\ cut \subseteq cut' /\ cut' \subseteq cut \cup {g}
      /\ LoopAlive(g)
      /\ \A h \in 1 .. MaxBuses \ {g} : loop'[h] = loop[h]
      /\ loop'[g] # "none"
      /\ loop'[g] = "over" => g \in cut
  <2>1. CASE BeginPass(g)
    BY <2>1 DEF BeginPass, LoopAlive, TypeOK
  <2>2. CASE EndPass(g)
    BY <2>2 DEF EndPass, LoopAlive, TypeOK
  <2>3. CASE EndLoop(g)
    BY <2>3 DEF EndLoop, LoopAlive, TypeOK, LoopFollows
  <2>4. CASE EndSession(g)
    BY <2>4 DEF EndSession, LoopAlive, TypeOK
  <2> QED BY <2>1, <2>2, <2>3, <2>4 DEF LoopStep
<1>3. /\ g = handle /\ started
      /\ Some({"relock"}) => FALSE
      /\ \A h \in 1 .. MaxBuses : LoopAlive(h)' => h = handle
  BY <1>2 DEF LoopFollows, LoopAlive
<1>4. TypeOK'
  BY <1>1, <1>2 DEF TypeOK
<1>5. OneInside' /\ SchedulerFollows' /\ BusFollows' /\ TriggersFollow'
  BY <1>1 DEF OneInside, SchedulerFollows, SurvivorsAreCancelled, BusFollows, DrainIsComplete,
              TriggersFollow, Cold, Some, In, At, Of, OnBus, Live
<1>6. (\A ps : Some(ps)' = Some(ps)) /\ (\A d, ps : In(d, ps)' = In(d, ps))
  BY <1>1 DEF Some, In
<1>7. LoopFollows'
  BY <1>1, <1>2, <1>3, <1>6 DEF LoopFollows, LoopAlive, TypeOK
<1> QED BY <1>4, <1>5, <1>7

-----------------------------------------------------------------------------
(* Edits and runs.                                                         *)

(* What these steps may do to a run: end it, move it on, or begin it where *)
(* the scheduler or the open bus allows it.                                *)
RunMoves(r) ==
  \/ run'[r] = NoRun
  \/ /\ run[r] # NoRun
     /\ run'[r].kind = run[r].kind /\ run'[r].bus = run[r].bus
     /\ run[r].cancelled => run'[r].cancelled
  \/ run'[r].kind = "cron" /\ scheduler = "on"
  \/ run'[r].kind = "interval" /\ scheduler # "off"
  \/ run'[r].kind = "event" /\ run'[r].bus = bus /\ bus \notin closed
  \/ run'[r].kind = "manual"

(* Then whoever is where stays there, and what has been cancelled or       *)
(* drained stays so.                                                       *)
LEMMA QuietStep ==
  ASSUME LifecycleInv,
         UNCHANGED <<callVars, loopVars, scheduler, bus, closed>>,
         bus \in closed => \A j \in Jobs : heard'[j] = 0,
         run' \in [Runs -> Alive \cup {NoRun}],
         \A r \in Runs : RunMoves(r)
  PROVE  OneInside' /\ SchedulerFollows' /\ BusFollows' /\ LoopFollows'
<1> USE DEF LifecycleInv
<1>1. UNCHANGED <<call, mu, stopping, started, handle, loop, cut, stopped, scheduler, bus, closed>>
  BY DEF callVars, loopVars
<1>2. (\A ps : Some(ps)' = Some(ps)) /\ (\A d, ps : In(d, ps)' = In(d, ps))
  BY <1>1 DEF Some, In
<1>3. OneInside'
  BY <1>1, <1>2 DEF OneInside
<1>4. LoopFollows'
  BY <1>1, <1>2 DEF LoopFollows, LoopAlive
<1>5. ASSUME scheduler = "off", NEW r \in Runs, run'[r] # NoRun, run'[r].kind \in {"cron", "interval"}
      PROVE  run'[r].kind = "interval" /\ run'[r].cancelled
  <2>1. /\ run[r] # NoRun /\ run[r].kind = run'[r].kind
        /\ run[r].cancelled => run'[r].cancelled
    BY <1>5 DEF RunMoves
  <2> QED BY <1>5, <2>1 DEF SchedulerFollows, SurvivorsAreCancelled, Of, Live
<1>6. SchedulerFollows'
  BY <1>1, <1>2, <1>5 DEF SchedulerFollows, SurvivorsAreCancelled, Of, Live
<1>7. ASSUME NEW b \in closed, NEW r \in OnBus(b)'
      PROVE  OnBus(b) # {}
  <2>1. r \in Runs /\ run'[r] # NoRun /\ run'[r].kind = "event" /\ run'[r].bus = b
    BY <1>7 DEF OnBus, Of, Live
  <2>2. run[r] # NoRun /\ run[r].kind = "event" /\ run[r].bus = b
    BY <2>1 DEF RunMoves
  <2> QED BY <2>1, <2>2 DEF OnBus, Of, Live
<1>8. DrainIsComplete'
  BY <1>1, <1>7 DEF BusFollows, DrainIsComplete, At
<1>9. BusFollows'
  BY <1>1, <1>2, <1>8 DEF BusFollows
<1> QED BY <1>3, <1>4, <1>6, <1>9

(* An edit that replaces the triggers of a job it knows, or adds those of  *)
(* one it does not know if the manager is started.                         *)
LEMMA EditOfTriggers ==
  ASSUME LifecycleInv, mu = Nobody, UNCHANGED <<call, started>>,
         NEW j \in Jobs, NEW off \in BOOLEAN, NEW on \in BOOLEAN, NEW wanted \in BOOLEAN,
         Retrigger(j, off, on),
         ~off => j \notin present /\ (on => started),
         started => (on <=> wanted),
         present' = present \cup {j} \/ (present' = present \ {j} /\ off /\ ~wanted),
         enabled' = (IF wanted THEN enabled \cup {j} ELSE enabled \ {j})
  PROVE  /\ TriggersFollow'
         /\ bus \in closed => \A i \in Jobs : heard'[i] = 0
         /\ heard' \in [Jobs -> 0 .. 2]
         /\ present' \subseteq Jobs /\ enabled' \subseteq present'
         /\ early' \subseteq Jobs /\ scheduled' \subseteq Jobs
         /\ UNCHANGED <<bus, closed>>
<1> USE LifecycleAssumption DEF LifecycleInv
<1>1. /\ ~Some({"launch"}) /\ ~Some({"close", "drain", "clear"})
      /\ started => bus \notin closed
  BY DEF OneInside, BusFollows, Some, In, Inside
<1>2. UNCHANGED <<bus, closed>>
  BY DEF Retrigger
<1>3. /\ \A i \in Jobs \ {j} : heard'[i] = heard[i]
      /\ heard'[j] = (IF off THEN 0 ELSE heard[j]) + (IF on /\ bus \notin closed THEN 1 ELSE 0)
      /\ DOMAIN heard' = Jobs
      /\ heard' = [i \in Jobs |-> heard'[i]]
  BY DEF Retrigger, TypeOK
<1>4. /\ \A i \in Jobs \ {j} : /\ i \in scheduled' <=> i \in scheduled
                               /\ i \in early' <=> i \in early
                               /\ i \in present' <=> i \in present
                               /\ i \in enabled' <=> i \in enabled
      /\ j \in scheduled' <=> on \/ (j \in scheduled /\ ~off)
      /\ j \in early' <=> (on /\ ~started) \/ (j \in early /\ ~off)
      /\ j \in enabled' <=> wanted
      /\ j \notin present' => off /\ ~wanted
  <2>1. \A i \in Jobs \ {j} : i \in scheduled' <=> i \in scheduled
    BY DEF Retrigger
  <2>2. \A i \in Jobs \ {j} : i \in early' <=> i \in early
    BY DEF Retrigger
  <2>3. \A i \in Jobs \ {j} : (i \in present' <=> i \in present) /\ (i \in enabled' <=> i \in enabled)
    OBVIOUS
  <2>4. j \in scheduled' <=> on \/ (j \in scheduled /\ ~off)
    BY DEF Retrigger
  <2>5. j \in early' <=> (on /\ ~started) \/ (j \in early /\ ~off)
    BY DEF Retrigger
  <2>6. j \in enabled' <=> wanted
    OBVIOUS
  <2>7. j \notin present' => off /\ ~wanted
    OBVIOUS
  <2> QED BY <2>1, <2>2, <2>3, <2>4, <2>5, <2>6, <2>7
<1>5. /\ present' \subseteq Jobs /\ enabled' \subseteq present'
      /\ early' \subseteq Jobs /\ scheduled' \subseteq Jobs
  BY DEF Retrigger, TypeOK
<1>6. heard \in [Jobs -> 0 .. 2] /\ enabled \subseteq present
  BY DEF TypeOK
<1>7. ~off /\ on => heard[j] <= 1
  BY <1>1 DEF TriggersFollow, Cold
<1>8. heard'[j] \in 0 .. 2
  BY <1>3, <1>6, <1>7
<1>9. heard' \in [Jobs -> 0 .. 2]
  BY <1>3, <1>6, <1>8
<1>10. bus \in closed => \A i \in Jobs : heard'[i] = 0
  BY <1>3 DEF BusFollows
<1>11. Cold' = Cold /\ Cold = ~started /\ \A ps : Some(ps)' = Some(ps)
  BY <1>1 DEF Cold, Some, In
<1>12. ASSUME ~started
       PROVE  \A i \in Jobs : /\ heard'[i] <= 1
                              /\ i \notin early' => heard'[i] = 0 /\ i \notin scheduled'
  <2>1. \A i \in Jobs : /\ heard[i] <= 1
                        /\ i \notin early => heard[i] = 0 /\ i \notin scheduled
    BY <1>11, <1>12 DEF TriggersFollow
  <2>2. heard'[j] <= 1 /\ (j \notin early' => heard'[j] = 0 /\ j \notin scheduled')
    BY <1>3, <1>4, <1>6, <1>12, <2>1
  <2>3. ASSUME NEW i \in Jobs \ {j}
        PROVE  heard'[i] <= 1 /\ (i \notin early' => heard'[i] = 0 /\ i \notin scheduled')
    BY <1>3, <1>4, <2>1
  <2> QED BY <2>2, <2>3
<1>13. ASSUME started
       PROVE  /\ \A i \in Jobs \ present' : heard'[i] <= 1
              /\ \A i \in Jobs \ early' : /\ heard'[i] = (IF i \in enabled' THEN 1 ELSE 0)
                                          /\ i \in scheduled' <=> i \in enabled'
  <2>1. /\ \A i \in Jobs \ present : heard[i] <= 1
        /\ \A i \in Jobs \ early : /\ heard[i] = (IF i \in enabled THEN 1 ELSE 0)
                                   /\ i \in scheduled <=> i \in enabled
    BY <1>1, <1>11, <1>13 DEF TriggersFollow
  <2>2. j \notin present' => heard'[j] <= 1
    BY <1>3, <1>4, <1>13
  <2>3. ASSUME j \notin early'
        PROVE  /\ heard'[j] = (IF j \in enabled' THEN 1 ELSE 0)
               /\ j \in scheduled' <=> j \in enabled'
    <3>1. CASE off
      BY <1>1, <1>3, <1>4, <1>13, <3>1
    <3>2. CASE ~off
      <4>1. heard[j] = 0 /\ j \notin scheduled
        BY <1>4, <1>6, <2>1, <2>3, <3>2
      <4> QED BY <1>1, <1>3, <1>4, <1>13, <3>2, <4>1
    <3> QED BY <3>1, <3>2
  <2>4. ASSUME NEW i \in Jobs \ {j}
        PROVE  /\ i \notin present' => heard'[i] <= 1
               /\ i \notin early' => /\ heard'[i] = (IF i \in enabled' THEN 1 ELSE 0)
                                     /\ i \in scheduled' <=> i \in enabled'
    BY <1>3, <1>4, <2>1
  <2> QED BY <2>2, <2>3, <2>4
<1>14. TriggersFollow'
  BY <1>1, <1>11, <1>12, <1>13 DEF TriggersFollow
<1> QED BY <1>2, <1>5, <1>9, <1>10, <1>14

(* The runs of a job whose tickers are replaced are cancelled.             *)
LEMMA ReplacedRuns ==
  ASSUME TypeOK, NEW j \in Jobs, NEW changed \in BOOLEAN
  PROVE  /\ Replaced(j, changed) \in [Runs -> Alive \cup {NoRun}]
         /\ \A r \in Runs : /\ Replaced(j, changed)[r] = NoRun <=> run[r] = NoRun
                            /\ run[r] # NoRun =>
                                 /\ Replaced(j, changed)[r].kind = run[r].kind
                                 /\ Replaced(j, changed)[r].bus = run[r].bus
                                 /\ Replaced(j, changed)[r].stage = run[r].stage
                                 /\ run[r].cancelled => Replaced(j, changed)[r].cancelled
<1>1. Intervals(j) \in SUBSET Live
  BY DEF Intervals, Of
<1>2. CASE changed
  <2>1. Replaced(j, changed) = Cancel(Intervals(j))
    BY <1>2 DEF Replaced
  <2> QED BY <1>1, <2>1, CancelOnly DEF Live
<1>3. CASE ~changed
  <2>1. Replaced(j, changed) = run
    BY <1>3 DEF Replaced
  <2> QED BY <2>1 DEF TypeOK
<1> QED BY <1>2, <1>3

(* The edit of a user.                                                     *)
LEMMA EditJobInv ==
  ASSUME LifecycleInv, NEW j \in Jobs, EditJob(j)
  PROVE  LifecycleInv' /\ \A k \in Runs : RunMoves(k)
<1> USE LifecycleAssumption DEF LifecycleInv
<1>1. mu = Nobody /\ UNCHANGED <<callVars, loopVars, scheduler>>
  BY DEF EditJob
<1>2. UNCHANGED <<call, mu, stopping, started, handle, loop, cut, stopped, scheduler>>
  BY <1>1 DEF callVars, loopVars
<1> DEFINE Edited == /\ TriggersFollow'
                     /\ bus \in closed => \A i \in Jobs : heard'[i] = 0
                     /\ heard' \in [Jobs -> 0 .. 2]
                     /\ present' \subseteq Jobs /\ enabled' \subseteq present'
                     /\ early' \subseteq Jobs /\ scheduled' \subseteq Jobs
                     /\ UNCHANGED <<bus, closed>>
                     /\ \E changed \in BOOLEAN : run' = Replaced(j, changed)
<1>3. ASSUME Delete(j) PROVE Edited
  <2>1. /\ present' = present \ {j} /\ enabled' = enabled \ {j}
        /\ Retrigger(j, TRUE, FALSE) /\ run' = Replaced(j, TRUE)
    BY <1>3 DEF Delete
  <2> QED BY <1>1, <1>2, <2>1, EditOfTriggers
<1>4. ASSUME NEW on \in BOOLEAN, Save(j, on)
      PROVE  Edited
  <2>1. /\ present' = present \cup {j}
        /\ enabled' = (IF on THEN enabled \cup {j} ELSE enabled \ {j})
        /\ Retrigger(j, j \in present, on /\ started)
        /\ run' = Replaced(j, j \in present \/ (on /\ started))
    BY <1>4 DEF Save, SetEntry
  <2>2. (j \in present) \in BOOLEAN /\ (on /\ started) \in BOOLEAN
    OBVIOUS
  <2>3. \E changed \in BOOLEAN : run' = Replaced(j, changed)
    BY <2>1
  <2>4. /\ TriggersFollow'
        /\ bus \in closed => \A i \in Jobs : heard'[i] = 0
        /\ heard' \in [Jobs -> 0 .. 2]
        /\ present' \subseteq Jobs /\ enabled' \subseteq present'
        /\ early' \subseteq Jobs /\ scheduled' \subseteq Jobs
        /\ UNCHANGED <<bus, closed>>
    BY <1>1, <1>2, <2>1, <2>2, EditOfTriggers
  <2> QED BY <2>3, <2>4
<1>5. ASSUME NEW on \in BOOLEAN, Toggle(j, on)
      PROVE  Edited
  <2>1. /\ present' = present \cup {j}
        /\ enabled' = (IF on THEN enabled \cup {j} ELSE enabled \ {j})
        /\ Retrigger(j, TRUE, on) /\ run' = Replaced(j, TRUE)
    BY <1>5 DEF Toggle, SetEntry
  <2> QED BY <1>1, <1>2, <2>1, EditOfTriggers
<1>6. Edited
  BY <1>3, <1>4, <1>5 DEF EditJob
<1>7. PICK changed \in BOOLEAN : run' = Replaced(j, changed)
  BY <1>6
<1>8. run' \in [Runs -> Alive \cup {NoRun}] /\ \A r \in Runs : RunMoves(r)
  BY <1>7, ReplacedRuns DEF RunMoves
<1>9. OneInside' /\ SchedulerFollows' /\ BusFollows' /\ LoopFollows'
  BY <1>1, <1>6, <1>8, QuietStep
<1>10. TypeOK'
  BY <1>2, <1>6, <1>8 DEF TypeOK
<1> QED BY <1>6, <1>8, <1>9, <1>10

(* The edit of a tool.                                                     *)
LEMMA MutateInv ==
  ASSUME LifecycleInv, NEW r \in Runs, Mutate(r)
  PROVE  LifecycleInv' /\ \A k \in Runs : RunMoves(k)
<1> USE LifecycleAssumption DEF LifecycleInv
<1>1. mu = Nobody /\ run[r] # NoRun /\ UNCHANGED <<callVars, loopVars, scheduler>>
  BY DEF Mutate
<1>2. UNCHANGED <<call, mu, stopping, started, handle, loop, cut, stopped, scheduler>>
  BY <1>1 DEF callVars, loopVars
<1>3. PICK j \in Jobs, on \in BOOLEAN :
        /\ SetEntry(j, on)
        /\ \/ Retrigger(j, j \in present, on /\ started)
           \/ j \in present /\ Retrigger(j, TRUE, on)
        /\ run' = [Replaced(j, j \in present \/ (on /\ started)) EXCEPT ![r].stage = "emitting"]
  BY DEF Mutate
<1>4. /\ present' = present \cup {j}
      /\ enabled' = (IF on THEN enabled \cup {j} ELSE enabled \ {j})
      /\ (j \in present) \in BOOLEAN /\ (on /\ started) \in BOOLEAN
  BY <1>3 DEF SetEntry
<1>5. /\ TriggersFollow'
      /\ bus \in closed => \A i \in Jobs : heard'[i] = 0
      /\ heard' \in [Jobs -> 0 .. 2]
      /\ present' \subseteq Jobs /\ enabled' \subseteq present'
      /\ early' \subseteq Jobs /\ scheduled' \subseteq Jobs
      /\ UNCHANGED <<bus, closed>>
  <2>1. CASE Retrigger(j, j \in present, on /\ started)
    BY <1>1, <1>2, <1>4, <2>1, EditOfTriggers
  <2>2. CASE j \in present /\ Retrigger(j, TRUE, on)
    BY <1>1, <1>2, <1>4, <2>2, EditOfTriggers
  <2> QED BY <1>3, <2>1, <2>2
<1>6. PICK changed \in BOOLEAN : run' = [Replaced(j, changed) EXCEPT ![r].stage = "emitting"]
  BY <1>3
<1> DEFINE new == Replaced(j, changed)
<1>7. /\ new \in [Runs -> Alive \cup {NoRun}]
      /\ \A k \in Runs : /\ new[k] = NoRun <=> run[k] = NoRun
                         /\ run[k] # NoRun => /\ new[k].kind = run[k].kind
                                              /\ new[k].bus = run[k].bus
                                              /\ run[k].cancelled => new[k].cancelled
  BY ReplacedRuns
<1> HIDE DEF new
<1>8. new[r] \in Alive
  BY <1>1, <1>7
<1>9. /\ run'[r] = [new[r] EXCEPT !.stage = "emitting"]
      /\ \A k \in Runs \ {r} : run'[k] = new[k]
      /\ run' = [k \in Runs |-> run'[k]]
  BY <1>6, <1>7 DEF new
<1>10. /\ run'[r] \in Alive /\ run'[r].kind = new[r].kind
       /\ run'[r].bus = new[r].bus /\ run'[r].cancelled = new[r].cancelled
  BY <1>8, <1>9 DEF Alive, Stages
<1>11. run' \in [Runs -> Alive \cup {NoRun}] /\ \A k \in Runs : RunMoves(k)
  BY <1>1, <1>7, <1>9, <1>10 DEF RunMoves
<1>12. OneInside' /\ SchedulerFollows' /\ BusFollows' /\ LoopFollows'
  BY <1>1, <1>5, <1>11, QuietStep
<1>13. TypeOK'
  BY <1>2, <1>5, <1>11 DEF TypeOK
<1> QED BY <1>5, <1>11, <1>12, <1>13

(* Steps of runs that edit nothing.                                        *)
LEMMA RunsOnly ==
  ASSUME LifecycleInv, UNCHANGED runContext,
         run' \in [Runs -> Alive \cup {NoRun}], \A r \in Runs : RunMoves(r)
  PROVE  LifecycleInv'
<1> USE DEF LifecycleInv
<1>1. /\ UNCHANGED <<callVars, loopVars, scheduler, bus, closed, heard>>
      /\ UNCHANGED <<call, mu, stopping, started, present, enabled, early, scheduled,
                     handle, loop, cut, stopped>>
  BY DEF runContext, callVars, jobVars, triggerVars, loopVars
<1>2. bus \in closed => \A j \in Jobs : heard'[j] = 0
  BY <1>1 DEF BusFollows
<1>3. OneInside' /\ SchedulerFollows' /\ BusFollows' /\ LoopFollows'
  BY <1>1, <1>2, QuietStep
<1>4. TypeOK'
  BY <1>1 DEF TypeOK
<1>5. TriggersFollow'
  BY <1>1 DEF TriggersFollow, Cold, Some, In
<1> QED BY <1>3, <1>4, <1>5

LEMMA FireInv ==
  ASSUME LifecycleInv, NEW r \in Runs, FireAny(r)
  PROVE  LifecycleInv' /\ \A k \in Runs : RunMoves(k)
<1>1. PICK j \in Jobs, kind \in Kinds, b \in Nat :
        /\ Fire(r, Fresh(kind, j, b))
        /\ kind = "cron" => scheduler = "on"
        /\ kind = "interval" => scheduler # "off"
        /\ kind = "event" => b = bus /\ bus \notin closed
  <2>1. PICK j \in Jobs : FireCron(r, j) \/ FireInterval(r, j) \/ FireDomain(r, j) \/ FireManual(r, j)
    BY DEF FireAny
  <2>2. CASE FireCron(r, j)
    BY <2>2 DEF FireCron, Kinds
  <2>3. CASE FireInterval(r, j)
    BY <2>3 DEF FireInterval, Kinds
  <2>4. CASE FireDomain(r, j)
    <3>1. bus \in Nat /\ bus \notin closed
      BY <2>4, LifecycleAssumption DEF LifecycleInv, FireDomain, Hears, BusFollows, TypeOK
    <3> QED BY <2>4, <3>1 DEF FireDomain, Kinds
  <2>5. CASE FireManual(r, j)
    BY <2>5 DEF FireManual, Kinds
  <2> QED BY <2>1, <2>2, <2>3, <2>4, <2>5
<1>2. /\ run' = [run EXCEPT ![r] = Fresh(kind, j, b)] /\ UNCHANGED runContext
  BY <1>1 DEF Fire
<1>3. /\ Fresh(kind, j, b) \in Alive
      /\ Fresh(kind, j, b).kind = kind /\ Fresh(kind, j, b).bus = b
  BY DEF Fresh, Alive, Stages
<1>4. /\ run' \in [Runs -> Alive \cup {NoRun}]
      /\ run'[r] = Fresh(kind, j, b)
      /\ \A k \in Runs \ {r} : run'[k] = run[k]
  BY <1>2, <1>3 DEF LifecycleInv, TypeOK
<1>5. \A k \in Runs : RunMoves(k)
  BY <1>1, <1>3, <1>4 DEF RunMoves, Kinds
<1> QED BY <1>2, <1>4, <1>5, RunsOnly

LEMMA RunStepInv ==
  ASSUME LifecycleInv, NEW r \in Runs, RunStep(r)
  PROVE  LifecycleInv' /\ \A k \in Runs : RunMoves(k)
<1> USE DEF LifecycleInv
<1>1. \A k \in Runs : run[k] = NoRun \/ run[k] \in Alive
  BY DEF TypeOK
<1>2. bus \in Nat
  BY LifecycleAssumption DEF TypeOK
<1>3. ASSUME NEW from \in Stages, NEW to \in Stages, NEW target \in Nat, UNCHANGED runContext,
             run[r] # NoRun,
             \/ run' = [run EXCEPT ![r].stage = to]
             \/ run' = [run EXCEPT ![r].stage = to, ![r].target = target]
      PROVE  LifecycleInv' /\ \A k \in Runs : RunMoves(k)
  <2>1. /\ \/ run'[r] = [run[r] EXCEPT !.stage = to]
           \/ run'[r] = [run[r] EXCEPT !.stage = to, !.target = target]
        /\ \A k \in Runs \ {r} : run'[k] = run[k]
        /\ run' = [k \in Runs |-> run'[k]]
    BY <1>3 DEF TypeOK
  <2>2. /\ run'[r] \in Alive /\ run'[r].kind = run[r].kind
        /\ run'[r].bus = run[r].bus /\ run'[r].cancelled = run[r].cancelled
    BY <1>1, <1>3, <2>1 DEF Alive
  <2>3. run' \in [Runs -> Alive \cup {NoRun}] /\ \A k \in Runs : RunMoves(k)
    BY <1>1, <1>3, <2>1, <2>2 DEF RunMoves
  <2> QED BY <1>3, <2>3, RunsOnly
<1>4. CASE CallMutator(r) \/ ReturnTool(r) \/ Abandon(r)
  BY <1>3, <1>4 DEF CallMutator, ReturnTool, Abandon, Move, Stages
<1>5. CASE PickBus(r)
  BY <1>2, <1>3, <1>5 DEF PickBus, Stages
<1>6. CASE Mutate(r)
  BY <1>6, MutateInv
<1>7. ASSUME run' = [run EXCEPT ![r] = NoRun], UNCHANGED runContext
      PROVE  LifecycleInv' /\ \A k \in Runs : RunMoves(k)
  <2>1. run' \in [Runs -> Alive \cup {NoRun}] /\ \A k \in Runs : RunMoves(k)
    BY <1>7 DEF TypeOK, RunMoves
  <2> QED BY <1>7, <2>1, RunsOnly
<1>8. CASE EndRun(r)
  BY <1>7, <1>8 DEF EndRun
<1>9. CASE Publish(r)
  <2>1. CASE run' = [run EXCEPT ![r] = NoRun]
    BY <1>7, <1>9, <2>1 DEF Publish
  <2>2. CASE \E k \in Runs \ Live : \E j \in {i \in Jobs : Hears(i)} :
               run' = [run EXCEPT ![r] = NoRun, ![k] = Fresh("event", j, bus)]
    <3>1. PICK k \in Runs \ Live, j \in {i \in Jobs : Hears(i)} :
               run' = [run EXCEPT ![r] = NoRun, ![k] = Fresh("event", j, bus)]
      BY <2>2
    <3>2. /\ Fresh("event", j, bus) \in Alive
          /\ Fresh("event", j, bus).kind = "event" /\ Fresh("event", j, bus).bus = bus
      BY <1>2 DEF Fresh, Alive, Kinds, Stages
    <3>3. bus \notin closed
      BY DEF Hears, BusFollows
    <3>4. /\ run' \in [Runs -> Alive \cup {NoRun}]
          /\ run'[k] = Fresh("event", j, bus)
          /\ \A i \in Runs \ {k} : run'[i] = run[i] \/ run'[i] = NoRun
      BY <3>1, <3>2 DEF TypeOK
    <3>5. \A i \in Runs : RunMoves(i)
      BY <3>2, <3>3, <3>4 DEF RunMoves
    <3> QED BY <1>9, <3>4, <3>5, RunsOnly DEF Publish
  <2> QED BY <1>9, <2>1, <2>2 DEF Publish
<1> QED BY <1>4, <1>5, <1>6, <1>8, <1>9 DEF RunStep

-----------------------------------------------------------------------------
(* The invariant is inductive.                                             *)
LEMMA NextInv == LifecycleInv /\ [Next]_vars => LifecycleInv'
<1> SUFFICES ASSUME LifecycleInv, [Next]_vars PROVE LifecycleInv'
  OBVIOUS
<1>1. CASE UNCHANGED vars
  BY <1>1 DEF LifecycleInv, TypeOK, OneInside, SchedulerFollows, SurvivorsAreCancelled,
              BusFollows, DrainIsComplete, LoopFollows, LoopAlive, TriggersFollow, Cold,
              Some, In, At, Of, OnBus, Live, vars, callVars, jobVars, triggerVars, loopVars
<1>2. ASSUME NEW c \in Callers, Call(c) \/ Proceed(c) PROVE LifecycleInv'
  BY <1>2, StartFailsInv, StartLoadsInv, StopJoinsInv, StopBeginsInv, StartLaunchesInv,
     StopCancelsInv, StopAwaitsInv, StopLocksInv, StopScheduleInv, StopClosesInv,
     StopDrainsInv, StopReturnsInv DEF Call, Proceed
<1>3. ASSUME NEW g \in 1 .. MaxBuses, LoopStep(g) PROVE LifecycleInv'
  BY <1>3, LoopStepInv
<1>4. ASSUME NEW j \in Jobs, EditJob(j) PROVE LifecycleInv'
  BY <1>4, EditJobInv
<1>5. ASSUME NEW r \in Runs, FireAny(r) \/ RunStep(r) PROVE LifecycleInv'
  BY <1>5, FireInv, RunStepInv
<1> QED BY <1>1, <1>2, <1>3, <1>4, <1>5 DEF Next

LEMMA SpecInv == Spec => []LifecycleInv
BY InitInv, NextInv, PTL DEF Spec

-----------------------------------------------------------------------------
(* The variables keep their types: in particular a job never has more than *)
(* two handlers on the bus, however often it is edited and the manager     *)
(* restarted.                                                              *)
THEOREM TypeCorrect == Spec => []TypeOK
<1>1. LifecycleInv => TypeOK
  BY DEF LifecycleInv
<1> QED BY SpecInv, <1>1, PTL

(* EventBus.Close waits for every handler its bus fired: afterwards none   *)
(* runs, whoever still holds the old bus.                                  *)
THEOREM DrainComplete == Spec => []DrainIsComplete
<1>1. LifecycleInv => DrainIsComplete
  BY DEF LifecycleInv, BusFollows
<1> QED BY SpecInv, <1>1, PTL

(* Scheduler.Stop waits for the cron runs and cancels the others.          *)
THEOREM Survivors == Spec => []SurvivorsAreCancelled
<1>1. LifecycleInv => SurvivorsAreCancelled
  BY DEF LifecycleInv, SchedulerFollows
<1> QED BY SpecInv, <1>1, PTL

(* startRetentionLoop and Stop never leave two retention loops, close a    *)
(* channel twice or lose a loop.                                           *)
THEOREM LoopOwner == Spec => []LoopHasOneOwner
<1>1. ASSUME LifecycleInv PROVE LoopHasOneOwner
  <2> USE DEF LifecycleInv
  <2>1. \A g, h \in 1 .. MaxBuses : LoopAlive(g) /\ LoopAlive(h) => g = h
    BY <1>1 DEF LoopFollows
  <2>2. ASSUME NEW c \in Callers, At(c, "cancel") PROVE call[c].loop \notin stopped
    <3>1. call[c].loop = handle
      BY <1>1, <2>2 DEF LoopFollows, In, At
    <3>2. ~Some({"await", "relock"})
      BY <1>1, <2>2 DEF OneInside, Some, In, At, Stops
    <3> QED BY <1>1, <3>1, <3>2 DEF LoopFollows
  <2>3. ASSUME mu = Nobody, ~stopping
        PROVE  /\ \A g \in 1 .. MaxBuses : LoopAlive(g) => started /\ g = handle
               /\ started => handle # 0 /\ (LoopAlive(handle) \/ handle \in cut)
    <3>1. ~Some({"cron", "close", "drain", "clear"})
      BY <1>1, <2>3 DEF OneInside, Some, In, Stops
    <3> QED BY <1>1, <3>1 DEF LoopFollows
  <2> QED BY <2>1, <2>2, <2>3 DEF LoopHasOneOwner
<1> QED BY SpecInv, <1>1, PTL

(* Whatever was started, stopped and edited before, a started manager has  *)
(* registered the triggers of every enabled job once and no others.        *)
THEOREM SessionTriggers == Spec => []TriggersOfTheSession
<1>1. ASSUME LifecycleInv, started, mu = Nobody
      PROVE  \A j \in Jobs \ early : /\ heard[j] = (IF j \in enabled THEN 1 ELSE 0)
                                     /\ j \in scheduled <=> j \in enabled
  <2>1. ~Some({"close", "drain", "clear"})
    BY <1>1, LifecycleAssumption DEF LifecycleInv, OneInside, Some, In, Inside
  <2> QED BY <1>1, <2>1 DEF LifecycleInv, TriggersFollow, Cold
<1>2. LifecycleInv => TriggersOfTheSession
  BY <1>1 DEF TriggersOfTheSession
<1> QED BY SpecInv, <1>2, PTL
-----------------------------------------------------------------------------
(* Who waits for what.                                                     *)

Told == /\ \A c \in Callers : At(c, "join") => stopping
        /\ \A c \in Callers : At(c, "await") /\ call[c].loop # 0 => call[c].loop \in cut

(* A caller that moves disturbs no other.                                  *)
LEMMA CallerIsTold ==
  ASSUME TypeOK, Told, NEW c \in Callers, Call(c) \/ Proceed(c)
  PROVE  Told'
<1>1. CASE StopReturns(c)
  <2>1. \A d \in Callers : call'[d].pc # "join" /\ (call'[d] = call[d] \/ call'[d].pc = "idle")
    BY <1>1 DEF StopReturns, Idle, At
  <2> QED BY <1>1, <2>1 DEF Told, At, StopReturns, loopVars
<1>2. CASE ~StopReturns(c)
  <2>1. \A d \in Callers \ {c} : call'[d] = call[d]
    BY <1>2
    DEF TypeOK, Call, Proceed, StartFails, StartLoads, StartLaunches, StopJoins, StopBegins,
        StopCancels, StopAwaits, StopLocks, StopSchedule, StopCloses, StopDrains, Goto
  <2>2. stopping => stopping'
    BY <1>2
    DEF Call, Proceed, StartFails, StartLoads, StartLaunches, StopJoins, StopBegins,
        StopCancels, StopAwaits, StopLocks, StopSchedule, StopCloses, StopDrains, callVars
  <2>3. cut \subseteq cut'
    <3>1. CASE StopCancels(c)
      BY <3>1 DEF StopCancels
    <3>2. CASE ~StopCancels(c)
      <4>1. UNCHANGED cut
        BY <1>2, <3>2
        DEF Call, Proceed, StartFails, StartLoads, StartLaunches, StopJoins, StopBegins,
            StopAwaits, StopLocks, StopSchedule, StopCloses, StopDrains, loopVars
      <4> QED BY <4>1
    <3> QED BY <3>1, <3>2
  <2>4. CASE StopCancels(c)
    <3>1. call'[c].pc = "await" /\ (call'[c].loop # 0 => call'[c].loop \in cut')
      BY <2>4, GotoPc DEF StopCancels, Outside
    <3> QED BY <2>1, <2>2, <2>3, <3>1 DEF Told, At
  <2>5. CASE StopJoins(c)
    <3>1. call'[c].pc = "join" /\ stopping'
      BY <2>5, GotoPc DEF StopJoins, Outside
    <3> QED BY <2>1, <2>2, <2>3, <3>1 DEF Told, At
  <2>6. CASE ~StopCancels(c) /\ ~StopJoins(c)
    <3>1. CASE StartFails(c) \/ StopBegins(c)
      <4>1. call'[c].pc \in {"idle", "cancel"}
        BY <3>1 DEF TypeOK, StartEnters, StartFails, StopBegins, At
      <4> QED BY <2>1, <2>2, <2>3, <4>1 DEF Told, At
    <3>2. CASE \/ StartLoads(c) \/ StartLaunches(c) \/ StopAwaits(c) \/ StopLocks(c)
              \/ StopSchedule(c) \/ StopCloses(c) \/ StopDrains(c)
      <4>1. PICK p \in {"launch", "idle", "relock", "cron", "clear", "close", "drain"} :
                 Goto(c, p)
        BY <3>2 DEF StartLoads, StartLaunches, StopAwaits, StopLocks, StopSchedule,
                    StopCloses, StopDrains
      <4>2. call'[c].pc \notin {"join", "await"}
        BY <4>1, GotoPc DEF Inside, Outside
      <4> QED BY <2>1, <2>2, <2>3, <4>2 DEF Told, At
    <3> QED BY <1>2, <2>6, <3>1, <3>2 DEF Call, Proceed
  <2> QED BY <2>4, <2>5, <2>6
<1> QED BY <1>1, <1>2

(* The others keep the promise too.                                        *)
LEMMA ToldStep ==
  ASSUME TypeOK, Told, [Next]_vars
  PROVE  Told'
<1>1. ASSUME NEW c \in Callers, Call(c) \/ Proceed(c) PROVE Told'
  BY <1>1, CallerIsTold
<1>2. ASSUME UNCHANGED callVars, cut \subseteq cut' PROVE Told'
  BY <1>2 DEF Told, At, callVars
<1>3. ASSUME NEW g \in 1 .. MaxBuses, LoopStep(g) PROVE Told'
  BY <1>2, <1>3 DEF LoopStep, BeginPass, EndPass, EndLoop, EndSession
<1>4. ASSUME NEW j \in Jobs, EditJob(j) PROVE Told'
  BY <1>2, <1>4 DEF EditJob, loopVars
<1>5. ASSUME NEW r \in Runs, FireAny(r) \/ RunStep(r) PROVE Told'
  BY <1>2, <1>5
  DEF FireAny, FireCron, FireInterval, FireDomain, FireManual, Fire, RunStep, CallMutator,
      ReturnTool, Mutate, Abandon, Move, PickBus, EndRun, Publish, runContext, loopVars
<1>6. CASE UNCHANGED vars
  BY <1>2, <1>6 DEF vars, loopVars
<1> QED BY <1>1, <1>3, <1>4, <1>5, <1>6 DEF Next

(* Manager.Stop joins a Stop that is under way, and waits for a retention  *)
(* loop whose context it cancelled and which the lock is free for: the     *)
(* wait is not the start of a circle.                                      *)
THEOREM NobodyWaitsInVain == Spec => []WaitsAreOwed
<1>1. Init => Told
  BY DEF Init, Told, Idle, At
<1>2. TypeOK /\ Told /\ [Next]_vars => Told'
  BY ToldStep
<1>3. Spec => []Told
  BY <1>1, <1>2, TypeCorrect, PTL DEF Spec
<1>4. ASSUME LifecycleInv, Told PROVE WaitsAreOwed
  <2>1. ASSUME NEW c \in Callers, At(c, "join")
        PROVE  \E d \in Callers : call[d].pc \notin {"idle", "launch", "join"}
    BY <1>4, <2>1 DEF Told, LifecycleInv, OneInside, Some, In, Stops
  <2>2. ASSUME NEW c \in Callers, At(c, "await")
        PROVE  /\ mu = Nobody
               /\ call[c].loop # 0 => call[c].loop \in cut /\ loop[call[c].loop] # "none"
    <3>1. stopping /\ In(c, Stops)
      BY <1>4, <2>2 DEF LifecycleInv, OneInside, Some, In, At, Stops
    <3>2. \A d \in Callers : ~In(d, Inside)
      BY <1>4, <2>2, <3>1 DEF LifecycleInv, OneInside, Some, In, At, Inside, Stops
    <3>3. mu = Nobody
      BY <1>4, <3>2 DEF LifecycleInv, TypeOK, OneInside
    <3>4. ASSUME call[c].loop # 0
          PROVE  call[c].loop \in cut /\ loop[call[c].loop] # "none"
      BY <1>4, <2>2, <3>4 DEF Told, LifecycleInv, TypeOK, LoopFollows
    <3> QED BY <3>3, <3>4
  <2> QED BY <2>1, <2>2 DEF WaitsAreOwed
<1> QED BY SpecInv, <1>3, <1>4, PTL

(* What every step may do to the runs.                                     *)
LEMMA RunsMove ==
  ASSUME LifecycleInv, [Next]_vars, NEW r \in Runs
  PROVE  RunMoves(r)
<1>1. ASSUME UNCHANGED run PROVE RunMoves(r)
  BY <1>1 DEF RunMoves
<1>2. ASSUME NEW c \in Callers, StopSchedule(c) PROVE RunMoves(r)
  <2>1. run' = Cancel(Of("interval")) /\ Of("interval") \in SUBSET Live
    BY <1>2 DEF StopSchedule, Of
  <2> QED BY <2>1, CancelOnly DEF LifecycleInv, RunMoves, Live
<1>3. ASSUME NEW c \in Callers, Call(c) \/ Proceed(c), ~StopSchedule(c) PROVE RunMoves(r)
  BY <1>1, <1>3
  DEF Call, Proceed, StartFails, StartLoads, StartLaunches, StopJoins, StopBegins, StopCancels,
      StopAwaits, StopLocks, StopCloses, StopDrains, StopReturns
<1>4. ASSUME NEW g \in 1 .. MaxBuses, LoopStep(g) PROVE RunMoves(r)
  BY <1>1, <1>4 DEF LoopStep, BeginPass, EndPass, EndLoop, EndSession
<1>5. ASSUME NEW j \in Jobs, EditJob(j) PROVE RunMoves(r)
  BY <1>5, EditJobInv
<1>6. ASSUME NEW k \in Runs, FireAny(k) \/ RunStep(k) PROVE RunMoves(r)
  BY <1>6, FireInv, RunStepInv
<1>7. CASE UNCHANGED vars
  BY <1>1, <1>7 DEF vars
<1> QED BY <1>2, <1>3, <1>4, <1>5, <1>6, <1>7 DEF Next

(* Stop waits for less and less: for the cron runs after it closed the     *)
(* scheduler, for the handlers after it closed the bus, and for the loop   *)
(* after it cancelled it (Manager.Stop, Scheduler.Stop, EventBus.Close).   *)
THEOREM StopWaitsForLess == Spec => WaitsOnlyShrink
<1> DEFINE Shrinks == \A c \in Callers :
      /\ At(c, "cron") => Of("cron")' \subseteq Of("cron")
      /\ At(c, "drain") => OnBus(bus)' \subseteq OnBus(bus)
      /\ At(c, "await") /\ call[c].loop # 0 =>
           (loop'[call[c].loop] = "pass" => loop[call[c].loop] = "pass")
<1>1. ASSUME LifecycleInv, WaitsAreOwed, [Next]_vars PROVE Shrinks
  <2>1. ASSUME NEW c \in Callers, At(c, "cron") PROVE Of("cron")' \subseteq Of("cron")
    <3>1. scheduler = "draining"
      BY <1>1, <2>1 DEF LifecycleInv, SchedulerFollows, Some, In, At
    <3>2. ASSUME NEW r \in Runs, RunMoves(r), run'[r] # NoRun, run'[r].kind = "cron"
          PROVE  run[r] # NoRun /\ run[r].kind = "cron"
      BY <3>1, <3>2 DEF RunMoves
    <3> QED BY <1>1, <3>2, RunsMove DEF Of, Live
  <2>2. ASSUME NEW c \in Callers, At(c, "drain") PROVE OnBus(bus)' \subseteq OnBus(bus)
    <3>1. bus \in closed /\ mu = c /\ stopping
      BY <1>1, <2>2 DEF LifecycleInv, BusFollows, OneInside, Some, In, At, Inside, Stops
    <3>2. UNCHANGED bus
      BY <1>1, <3>1, LifecycleAssumption
      DEF Next, Call, Proceed, StartEnters, StartFails, StartLoads, StartLaunches, StopJoins,
          StopBegins, StopCancels, StopAwaits, StopLocks, StopSchedule, StopCloses, StopDrains,
          StopReturns, LoopStep, BeginPass, EndPass, EndLoop, EndSession, EditJob, FireAny,
          FireCron, FireInterval, FireDomain, FireManual, Fire, RunStep, CallMutator,
          ReturnTool, Mutate, Abandon, Move, PickBus, EndRun, Publish, runContext, triggerVars,
          vars
    <3>3. ASSUME NEW r \in Runs, RunMoves(r), run'[r] # NoRun, run'[r].kind = "event",
                 run'[r].bus = bus
          PROVE  run[r] # NoRun /\ run[r].kind = "event" /\ run[r].bus = bus
      BY <3>1, <3>3 DEF RunMoves
    <3> QED BY <1>1, <3>2, <3>3, RunsMove DEF OnBus, Of, Live
  <2>3. ASSUME NEW c \in Callers, At(c, "await"), call[c].loop # 0,
               loop'[call[c].loop] = "pass"
        PROVE  loop[call[c].loop] = "pass"
    <3>1. call[c].loop \in cut /\ call[c].loop \in 1 .. MaxBuses
      BY <1>1, <2>3 DEF WaitsAreOwed, LifecycleInv, TypeOK
    <3>2. CASE \E g \in 1 .. MaxBuses : LoopStep(g)
      BY <1>1, <2>3, <3>1, <3>2
      DEF LifecycleInv, TypeOK, LoopStep, BeginPass, EndPass, EndLoop, EndSession
    <3>3. CASE \E d \in Callers : StartLaunches(d)
      BY <1>1, <2>3, <3>1, <3>3 DEF LifecycleInv, TypeOK, StartLaunches, startRetentionLoop
    <3>4. CASE UNCHANGED loop
      BY <2>3, <3>4
    <3> QED
      BY <1>1, <3>2, <3>3, <3>4
      DEF Next, Call, Proceed, StartFails, StartLoads, StopJoins, StopBegins, StopCancels,
          StopAwaits, StopLocks, StopSchedule, StopCloses, StopDrains, StopReturns, EditJob,
          FireAny, FireCron, FireInterval, FireDomain, FireManual, Fire, RunStep, CallMutator,
          ReturnTool, Mutate, Abandon, Move, PickBus, EndRun, Publish, runContext, loopVars,
          vars
  <2> QED BY <2>1, <2>2, <2>3
<1>2. LifecycleInv /\ WaitsAreOwed /\ [Next]_vars => [Shrinks]_vars
  BY <1>1
<1> QED BY <1>2, SpecInv, NobodyWaitsInVain, PTL DEF Spec, WaitsOnlyShrink
=============================================================================
