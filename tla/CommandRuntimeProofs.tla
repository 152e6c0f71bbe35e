------------------------- MODULE CommandRuntimeProofs -------------------------
(***************************************************************************)
(* Theorems about the command runtime, for any number of clients,          *)
(* sessions, generations and changes of epoch.                             *)
(*                                                                         *)
(* The inductive invariant names, for every place the worker can be at,    *)
(* the only generation that may be registered there (OneRegistered): that  *)
(* of the snapshot, that of the worker, or none.  Whoever removes one      *)
(* cannot disturb it, and only the worker adds one, after the last is      *)
(* gone.  In the critical section of Admit the epoch cannot move           *)
(* (GateHeld).                                                             *)
(***************************************************************************)
EXTENDS CommandRuntime, TLAPS

OfSnapshot == {"idle", "bootstrap", "reset", "stop", "clear"}
Prepared == {"activate", "project", "publish", "enable", "switch", "confirm", "admit", "store"}
OfWorker == Prepared \cup {"retire", "return", "fail"}
OfNone == {"capture", "failed", "cold", "stopped", "done"}

OneRegistered ==
  /\ worker.pc \in OfSnapshot => registered \subseteq {snapshot.gen}
  /\ worker.pc \in OfWorker => registered \subseteq {worker.gen}
  /\ worker.pc \in OfNone => registered = {}

Mapped == /\ published \subseteq registered
          /\ enabled # 0 => enabled \in published

SnapshotIsKnown ==
  /\ snapshot.gen # 0 => snapshot.state \in {"ready", "stopping"}
  /\ snapshot.state = "stopping" => worker.pc \in {"clear", "stopped"}
  /\ worker.pc = "return" => snapshot = [state |-> "ready", gen |-> worker.gen]

Newest == worker.pc \in Prepared => worker.gen = last /\ last # 0

GateHeld ==
  worker.pc = "store" => /\ open = 0 /\ unlocked
                         /\ proof = [session |-> session, epoch |-> epoch]

RuntimeInv == TypeOK /\ open <= epoch /\ OneRegistered /\ Mapped
                /\ SnapshotIsKnown /\ Newest /\ GateHeld

LEMMA InvImpliesOneMap ==
  RuntimeInv => OneMap
  <1> SUFFICES ASSUME RuntimeInv PROVE OneMap
    OBVIOUS
  <1>1. /\ worker.pc \in Stages /\ last \in Nat
        /\ snapshot = [state |-> snapshot.state, gen |-> snapshot.gen]
        /\ \A g \in registered : g \in Nat /\ g # 0
    BY RuntimeAssumption DEF RuntimeInv, TypeOK, Known
  <1>2. worker.pc \in OfSnapshot \/ worker.pc \in OfWorker \/ worker.pc \in OfNone
    BY <1>1 DEF Stages, Bootstrapping, OfSnapshot, OfWorker, OfNone, Prepared
  <1>3. \A g, h \in registered : g = h
    BY <1>2 DEF RuntimeInv, OneRegistered
  <1>4. ASSUME Working("idle"), NEW g \in registered
        PROVE  snapshot = [state |-> "ready", gen |-> g]
    <2>1. snapshot.gen = g /\ g # 0
      BY <1>1, <1>4 DEF RuntimeInv, OneRegistered, Working, OfSnapshot
    <2> QED
      BY <1>1, <1>4, <2>1 DEF RuntimeInv, SnapshotIsKnown, Working
  <1>5. Working("done") => registered = {}
    BY DEF RuntimeInv, OneRegistered, Working, OfNone
  <1> QED
    BY <1>3, <1>4, <1>5 DEF OneMap, RuntimeInv, Mapped

LEMMA InitIsGood ==
  Init => RuntimeInv
  <1> SUFFICES ASSUME Init PROVE RuntimeInv
    OBVIOUS
  <1> USE RuntimeAssumption
  <1>1. TypeOK
    <2>1. call \in [Clients -> Calls]
      BY DEF Init, Quiet, Calls, Ops
    <2>2. /\ worker \in [pc : Stages, client : Clients \cup {Nobody}, gen : Known]
          /\ snapshot \in [state : States, gen : Known]
          /\ proof \in [session : Sessions \cup {Nobody}, epoch : 0 .. MaxEpochs]
      BY DEF Init, Stages, Known, States
    <2> QED
      BY <2>1, <2>2 DEF Init, TypeOK, Known
  <1> QED
    BY <1>1 DEF Init, RuntimeInv, OneRegistered, Mapped, SnapshotIsKnown, Newest, GateHeld,
                Prepared, OfSnapshot, OfWorker, OfNone

(* The steps of clients and of the security state keep the invariant.      *)
LEMMA ClientSteps ==
  ASSUME RuntimeInv, NEW c \in Clients, Begins(c) \/ Proceeds(c) \/ GiveUp(c)
  PROVE  RuntimeInv'
  <1> USE RuntimeAssumption DEF Known
  <1>1. TypeOK'
    <2> USE DEF RuntimeInv, TypeOK, Calls, Ops, clientOnly, adapter, security, control,
                Generations
    <2>1. CASE Begins(c)
      <3>1. CASE Bootstrap(c)
        BY <3>1 DEF Bootstrap, Enter
      <3>2. CASE Reset(c)
        BY <3>2 DEF Reset, Enter
      <3>3. CASE Stop(c)
        BY <3>3 DEF Stop, Enter
      <3> QED
        BY <2>1, <3>1, <3>2, <3>3 DEF Begins
    <2>2. CASE ResetCancels(c) \/ ResetLoads(c) \/ StopCuts(c)
      <3>1. call[c] \in Calls
        OBVIOUS
      <3>2. call'[c] \in Calls /\ call' = [call EXCEPT ![c] = call'[c]]
        <4>1. CASE ResetCancels(c)
          BY <3>1, <4>1 DEF ResetCancels, Goto
        <4>2. CASE ResetLoads(c)
          BY <3>1, <4>2 DEF ResetLoads
        <4>3. CASE StopCuts(c)
          BY <3>1, <4>3 DEF StopCuts, Goto
        <4> QED
          BY <2>2, <4>1, <4>2, <4>3
      <3>3. cancelled' \in BOOLEAN /\ cut' \in BOOLEAN
        BY <2>2 DEF ResetCancels, ResetLoads, StopCuts, cancelActive
      <3> QED
        BY <2>2, <3>2, <3>3 DEF ResetCancels, ResetLoads, StopCuts
    <2>3. CASE ResetInvalidates(c)
      BY <2>3 DEF ResetInvalidates, At, Goto, Return, Quiet, Invalidate
    <2>4. CASE Returns(c)
      BY <2>4 DEF Returns, Answered, Joined, Refused, Return, Quiet, At
    <2>5. CASE GiveUp(c)
      BY <2>5 DEF GiveUp, Return, Quiet, At
    <2> QED
      BY <2>1, <2>2, <2>3, <2>4, <2>5 DEF Proceeds
  <1>2. /\ \/ UNCHANGED adapter
           \/ \E g \in Known : Invalidate(g)
        /\ worker'.pc = worker.pc /\ worker'.gen = worker.gen
        /\ UNCHANGED <<snapshot, last, proof, security>>
    BY DEF RuntimeInv, TypeOK, Calls, Begins, Proceeds, Bootstrap, Reset, Stop, ResetCancels,
           ResetLoads, ResetInvalidates, StopCuts, Returns, GiveUp, clientOnly
  <1>3. registered' \subseteq registered /\ Mapped'
    BY <1>2 DEF RuntimeInv, Mapped, Invalidate, adapter, TypeOK, Generations
  <1> QED
    BY <1>1, <1>2, <1>3 DEF RuntimeInv, OneRegistered, SnapshotIsKnown, Newest, GateHeld, security

LEMMA SecuritySteps ==
  ASSUME RuntimeInv, Secures
  PROVE  RuntimeInv'
  <1> USE RuntimeAssumption
  <1>0. /\ epoch' \in 0 .. MaxEpochs /\ open' \in 0 .. MaxEpochs /\ open' <= epoch'
        /\ session' \in Sessions \cup {Nobody} /\ unlocked' \in BOOLEAN
    <2> USE DEF RuntimeInv, TypeOK
    <2>1. CASE BeginTransition
      BY <2>1 DEF BeginTransition
    <2>2. CASE ChangeSession
      BY <2>2 DEF ChangeSession
    <2>3. CASE EndTransition
      BY <2>3 DEF EndTransition
    <2>4. CASE ChangeLock
      BY <2>4 DEF ChangeLock
    <2> QED
      BY <2>1, <2>2, <2>3, <2>4 DEF Secures
  <1>1. TypeOK' /\ open' <= epoch'
    <2>1. UNCHANGED securityOnly
      BY DEF Secures, BeginTransition, ChangeSession, EndTransition, ChangeLock
    <2> QED
      BY <1>0, <2>1 DEF RuntimeInv, TypeOK, securityOnly, control, adapter
  <1>2. worker.pc # "store" => worker'.pc # "store"
    BY DEF Secures, BeginTransition, ChangeSession, EndTransition, ChangeLock, securityOnly
  <1>3. worker.pc # "store"
    BY DEF RuntimeInv, GateHeld, Secures, BeginTransition, ChangeSession, EndTransition,
           ChangeLock, GateShared, Working, TypeOK
  <1>4. UNCHANGED <<worker, snapshot, last, registered, published, enabled>>
    BY DEF Secures, BeginTransition, ChangeSession, EndTransition, ChangeLock, securityOnly,
           control, adapter
  <1> QED
    BY <1>1, <1>2, <1>3, <1>4
    DEF RuntimeInv, OneRegistered, Mapped, SnapshotIsKnown, Newest, GateHeld

(* The steps of the worker keep the types.                                 *)
LEMMA WorkTypes ==
  ASSUME RuntimeInv, Works \/ CutArrives
  PROVE  TypeOK'
  <1> USE RuntimeAssumption
      DEF RuntimeInv, TypeOK, Known, Generations, Stages, Bootstrapping, States, workerOnly,
          adapter, security, control, Working, Step
  <1>1. ASSUME NEW c \in Clients, Take(c) PROVE TypeOK'
    <2>1. call[c] \in Calls
      OBVIOUS
    <2>2. call' \in [Clients -> Calls]
      BY <1>1, <2>1 DEF Take, Goto, Calls, Ops
    <2>3. worker' \in [pc : Stages, client : Clients \cup {Nobody}, gen : Known]
      BY <1>1, <2>1 DEF Take, Calls, Ops
    <2> QED
      BY <1>1, <2>2, <2>3 DEF Take
  <1>2. CASE TakeStop
    <2>1. worker' \in [pc : Stages, client : Clients \cup {Nobody}, gen : Known]
      BY <1>2 DEF TakeStop
    <2> QED
      BY <1>2, <2>1 DEF TakeStop
  <1>3. CASE CutArrives
    BY <1>3 DEF CutArrives
  <1>4. CASE BeginBootstrap
    <2>1. worker' \in [pc : Stages, client : Clients \cup {Nobody}, gen : Known]
      BY <1>4 DEF BeginBootstrap
    <2>2. snapshot' \in [state : States, gen : Known]
      BY <1>4 DEF BeginBootstrap
    <2> QED
      BY <1>4, <2>1, <2>2 DEF BeginBootstrap
  <1>5. CASE Retire \/ CleanUp \/ ResetClears \/ StopClears
    BY <1>5 DEF Retire, CleanUp, ResetClears, StopClears, Invalidate
  <1>6. CASE Capture
    <2>1. last' \in Known /\ registered' \subseteq 1 .. last'
      BY <1>6 DEF Capture
    <2>2. proof' \in [session : Sessions \cup {Nobody}, epoch : 0 .. MaxEpochs]
      BY <1>6 DEF Capture
    <2>3. worker' \in [pc : Stages, client : Clients \cup {Nobody}, gen : Known]
      BY <1>6, <2>1 DEF Capture
    <2> QED
      BY <1>6, <2>1, <2>2, <2>3 DEF Capture
  <1>7. CASE Activate \/ Project \/ Enable \/ Confirm \/ Admit
    BY <1>7 DEF Activate, Project, Enable, Confirm, Admit, Passes
  <1>8. CASE Publish \/ Switch
    BY <1>8 DEF Publish, Switch
  <1>9. CASE Store
    <2>1. worker' \in [pc : Stages, client : Clients \cup {Nobody}, gen : Known]
      BY <1>9 DEF Store
    <2>2. snapshot' \in [state : States, gen : Known]
      BY <1>9 DEF Store
    <2> QED
      BY <1>9, <2>1, <2>2 DEF Store
  <1>10. CASE Fail
    <2>1. worker'.gen \in Known
      BY <1>10 DEF Fail
    <2>2. worker' \in [pc : Stages, client : Clients \cup {Nobody}, gen : Known]
      BY <1>10, <2>1 DEF Fail
    <2> QED
      BY <1>10, <2>2 DEF Fail
  <1>11. CASE StopAnnounces \/ StopEnds
    BY <1>11 DEF StopAnnounces, StopEnds
  <1>12. ASSUME Reply PROVE call' \in [Clients -> Calls]
    <2>1. \A c \in Clients : call[c] \in Calls
      OBVIOUS
    <2> QED
      BY <1>12, <2>1 DEF Reply, Calls
  <1>13. CASE Succeed
    <2>1. worker' \in [pc : Stages, client : Clients \cup {Nobody}, gen : Known]
      BY <1>13 DEF Succeed, EndBootstrap
    <2> QED
      BY <1>12, <1>13, <2>1 DEF Succeed, EndBootstrap
  <1>14. CASE EndFailed
    <2>1. worker' \in [pc : Stages, client : Clients \cup {Nobody}, gen : Known]
      BY <1>14 DEF EndFailed, EndBootstrap
    <2>2. snapshot' \in [state : States, gen : Known]
      BY <1>14 DEF EndFailed, EndBootstrap
    <2> QED
      BY <1>12, <1>14, <2>1, <2>2 DEF EndFailed, EndBootstrap
  <1>15. CASE ResetEnds
    <2>1. worker' \in [pc : Stages, client : Clients \cup {Nobody}, gen : Known]
      BY <1>15 DEF ResetEnds
    <2>2. snapshot' \in [state : States, gen : Known]
      BY <1>15 DEF ResetEnds
    <2> QED
      BY <1>12, <1>15, <2>1, <2>2 DEF ResetEnds
  <1> QED
    BY <1>1, <1>2, <1>3, <1>4, <1>5, <1>6, <1>7, <1>8, <1>9, <1>10, <1>11, <1>13, <1>14,
       <1>15 DEF Works

(* The steps of the worker move the one generation along.                  *)
LEMMA WorkSteps ==
  ASSUME RuntimeInv, Works \/ CutArrives
  PROVE  RuntimeInv'
  <1>1. /\ TypeOK' /\ TypeOK /\ OneRegistered /\ Mapped /\ SnapshotIsKnown /\ Newest
        /\ GateHeld /\ open <= epoch
    BY WorkTypes DEF RuntimeInv
  <1>2. UNCHANGED security
    BY DEF Works, CutArrives, Take, TakeStop, BeginBootstrap, Retire, Capture, Activate,
           Project, Publish, Enable, Switch, Confirm, Admit, Store, Succeed, Fail, CleanUp,
           EndFailed, ResetClears, ResetEnds, StopAnnounces, StopClears, StopEnds, Passes,
           workerOnly
  <1> DEFINE Kept == /\ OneRegistered' /\ Mapped' /\ SnapshotIsKnown' /\ Newest'
                     /\ GateHeld'
  <1> SUFFICES Kept
    BY <1>1, <1>2 DEF RuntimeInv, security
  <1> USE DEF Kept, OneRegistered, Mapped, SnapshotIsKnown, Newest, GateHeld, OfSnapshot,
              OfWorker, OfNone, Prepared, workerOnly, adapter, security, control, Working, Step
  <1>3. ASSUME NEW c \in Clients, Take(c) PROVE Kept
    <2>1. worker'.pc \in {"bootstrap", "reset", "stop"}
      BY <1>1, <1>3 DEF Take, TypeOK, Calls, Ops
    <2> QED
      BY <1>1, <1>3, <2>1 DEF Take
  <1>4. CASE TakeStop
    BY <1>1, <1>4 DEF TakeStop
  <1>5. CASE CutArrives
    BY <1>1, <1>5 DEF CutArrives
  <1>6. CASE BeginBootstrap
    BY <1>1, <1>6 DEF BeginBootstrap, TypeOK
  <1>7. CASE Retire \/ CleanUp
    BY <1>1, <1>7 DEF Retire, CleanUp, Invalidate, TypeOK
  <1>8. CASE ResetClears \/ StopClears
    BY <1>1, <1>8 DEF ResetClears, StopClears, Invalidate, TypeOK
  <1>9. CASE Capture
    BY <1>1, <1>9, RuntimeAssumption DEF Capture, TypeOK, Known
  <1>10. CASE Activate
    BY <1>1, <1>10 DEF Activate, TypeOK
  <1>11. CASE Project \/ Enable \/ Confirm
    BY <1>1, <1>11 DEF Project, Enable, Confirm, Passes, TypeOK
  <1>12. CASE Admit
    BY <1>1, <1>2, <1>12 DEF Admit, Passes, TypeOK
  <1>13. CASE Publish \/ Switch
    BY <1>1, <1>13 DEF Publish, Switch, TypeOK
  <1>14. CASE Store
    BY <1>1, <1>14 DEF Store, TypeOK
  <1>15. CASE Succeed
    BY <1>1, <1>15 DEF Succeed, EndBootstrap, TypeOK
  <1>16. CASE Fail
    BY <1>1, <1>16 DEF Fail, TypeOK
  <1>17. CASE EndFailed \/ ResetEnds
    BY <1>1, <1>17 DEF EndFailed, ResetEnds, EndBootstrap, TypeOK
  <1>18. CASE StopAnnounces
    BY <1>1, <1>18 DEF StopAnnounces, TypeOK
  <1>19. CASE StopEnds
    BY <1>1, <1>19 DEF StopEnds, TypeOK
  <1> QED
    BY <1>3, <1>4, <1>5, <1>6, <1>7, <1>8, <1>9, <1>10, <1>11, <1>12, <1>13, <1>14, <1>15,
       <1>16, <1>17, <1>18, <1>19 DEF Works

LEMMA StepIsGood ==
  ASSUME RuntimeInv, [Next]_vars
  PROVE  RuntimeInv'
  <1>1. CASE UNCHANGED vars
    BY <1>1 DEF vars, control, adapter, security, RuntimeInv, TypeOK, OneRegistered, Mapped,
                SnapshotIsKnown, Newest, GateHeld
  <1>2. CASE Next
    BY <1>2, ClientSteps, SecuritySteps, WorkSteps DEF Next
  <1> QED
    BY <1>1, <1>2

LEMMA RuntimeInvHolds ==
  Spec => []RuntimeInv
  BY InitIsGood, StepIsGood, PTL DEF Spec

-----------------------------------------------------------------------------
(* Types.                                                                  *)
THEOREM TypeCorrect ==
  Spec => []TypeOK
  <1>1. RuntimeInv => TypeOK
    BY DEF RuntimeInv
  <1> QED
    BY <1>1, RuntimeInvHolds, PTL

(* There is one map, that of the Ready snapshot between two operations and *)
(* none after the last, whoever invalidates a generation meanwhile         *)
(* (commandruntime.Controller, appCommandLifecycleRuntime).                *)
THEOREM OneMapAtMost ==
  Spec => []OneMap
  BY InvImpliesOneMap, RuntimeInvHolds, PTL

(* The runtime becomes Ready only under the session and the epoch its      *)
(* generation was begun with (setReadyState, EpochService.Admit).          *)
THEOREM ReadyIsCurrent ==
  Spec => CommitIsCurrent
  <1>1. ASSUME RuntimeInv, [Next]_vars, BecomesReady
        PROVE  /\ open = 0 /\ unlocked
               /\ snapshot'.gen = last
               /\ proof = [session |-> session, epoch |-> epoch]
    <2>1. snapshot' # snapshot
      BY <1>1 DEF BecomesReady
    <2>2. Store \/ BeginBootstrap \/ EndFailed \/ ResetEnds \/ StopAnnounces \/ StopEnds
      BY <1>1, <2>1
      DEF Next, vars, control, Works, Begins, Proceeds, Secures, Bootstrap, Reset, Stop,
          ResetCancels, ResetLoads, ResetInvalidates, StopCuts, Returns, GiveUp, clientOnly,
          CutArrives, Take, TakeStop, Retire, Capture, Activate, Project, Publish, Enable,
          Switch, Confirm, Admit, Succeed, Fail, CleanUp, ResetClears, StopClears, Passes,
          BeginTransition, ChangeSession, EndTransition, ChangeLock, securityOnly
    <2>3. Store
      BY <1>1, <2>2
      DEF BecomesReady, BeginBootstrap, EndFailed, ResetEnds, StopAnnounces, StopEnds,
          RuntimeInv, TypeOK
    <2> QED
      BY <1>1, <2>3 DEF Store, Working, RuntimeInv, GateHeld, Newest, Prepared
  <1> QED
    BY <1>1, RuntimeInvHolds, PTL DEF Spec, CommitIsCurrent

(* What was invalidated stays so, under the bootstrap that began it too    *)
(* (Controller.Reset, appCommandLifecycleRuntime.Publish and SetEnabled).  *)
THEOREM NothingComesBack ==
  Spec => RetiredForGood
  <1>1. ASSUME RuntimeInv, [Next]_vars, NEW g \in Generations, Retired(g)
        PROVE  g \notin registered' \cup published' \cup {enabled'}
    <2>1. Capture \/ registered' \subseteq registered
      BY <1>1
      DEF Next, vars, control, adapter, Works, Begins, Proceeds, Secures, Bootstrap, Reset,
          Stop, ResetCancels, ResetLoads, ResetInvalidates, StopCuts, Returns, GiveUp,
          clientOnly, CutArrives, Take, TakeStop, BeginBootstrap, Retire, Activate, Project,
          Publish, Enable, Switch, Confirm, Admit, Store, Succeed, Fail, CleanUp, EndFailed,
          ResetClears, ResetEnds, StopAnnounces, StopClears, StopEnds, Passes, Invalidate,
          BeginTransition, ChangeSession, EndTransition, ChangeLock, securityOnly
    <2>2. g \notin registered'
      BY <1>1, <2>1 DEF Retired, Capture, RuntimeInv, TypeOK, Known, Generations
    <2>3. RuntimeInv'
      BY <1>1, StepIsGood
    <2> QED
      BY <2>2, <2>3 DEF RuntimeInv, Mapped, Generations
  <1>2. RuntimeInv /\ [Next]_vars =>
          [\A g \in Generations :
             Retired(g) => g \notin registered' \cup published' \cup {enabled'}]_vars
    BY <1>1
  <1> QED
    BY <1>2, RuntimeInvHolds, PTL DEF Spec, RetiredForGood

-----------------------------------------------------------------------------
(* The one map.                                                            *)

MapStep == [Map!Next]_<<last, Visible>>

LEMMA StageOfOne ==
  ASSUME RuntimeInv
  PROVE  /\ Visible = "none" <=> registered = {}
         /\ Visible = "begun" <=> registered # {} /\ published = {}
         /\ Visible = "published" <=> published # {} /\ enabled = 0
         /\ Visible = "enabled" <=> enabled # 0
         /\ enabled # 0 => published # {}
         /\ \A g \in registered : registered = {g} /\ (published # {} => published = {g})
         /\ 0 \notin registered
  <1>1. /\ published \subseteq registered /\ (enabled # 0 => enabled \in published)
        /\ \A g, h \in registered : g = h
    BY InvImpliesOneMap DEF OneMap
  <1>2. 0 \notin registered
    BY RuntimeAssumption DEF RuntimeInv, TypeOK, Known
  <1> QED
    BY <1>1, <1>2 DEF Visible

LEMMA MapKept ==
  ASSUME UNCHANGED <<last, registered, published, enabled>>
  PROVE  MapStep
  BY DEF MapStep, Visible

LEMMA InvalidateRefines ==
  ASSUME RuntimeInv, RuntimeInv', NEW g, Invalidate(g), UNCHANGED last
  PROVE  MapStep
  <1>1. CASE g \in registered
    <2>1. registered' = {} /\ Visible # "none"
      BY <1>1, StageOfOne DEF Invalidate
    <2>2. published' = {} /\ Visible' = "none"
      BY <2>1 DEF Visible, RuntimeInv, Mapped
    <2>3. Map!Retire
      BY <2>1, <2>2 DEF Map!Retire
    <2> QED
      BY <2>3 DEF MapStep, Map!Next
  <1>2. CASE g \notin registered
    <2>1. UNCHANGED <<registered, published>>
      BY <1>2 DEF Invalidate, RuntimeInv, Mapped
    <2>2. UNCHANGED enabled
      BY <1>2 DEF Invalidate, RuntimeInv, Mapped
    <2> QED
      BY <2>1, <2>2, MapKept
  <1> QED
    BY <1>1, <1>2

LEMMA ClientRefines ==
  ASSUME RuntimeInv, RuntimeInv', NEW c \in Clients, Begins(c) \/ Proceeds(c) \/ GiveUp(c)
  PROVE  MapStep
  <1>1. UNCHANGED last /\ (UNCHANGED adapter \/ Invalidate(call[c].gen))
    BY DEF Begins, Proceeds, Bootstrap, Reset, Stop, ResetCancels, ResetLoads, ResetInvalidates,
           StopCuts, Returns, GiveUp, clientOnly
  <1> QED
    BY <1>1, InvalidateRefines, MapKept DEF adapter

LEMMA WorkRefines ==
  ASSUME RuntimeInv, RuntimeInv', Works
  PROVE  MapStep
  <1> USE DEF control, adapter
  <1>1. CASE Capture
    <2>1. registered = {} /\ registered' = {last'} /\ last' = last + 1
      BY <1>1 DEF Capture, Working, RuntimeInv, OneRegistered, OfNone
    <2>2. published' = {} /\ enabled' = 0
      BY <1>1, <2>1 DEF Capture, RuntimeInv, Mapped
    <2>3. Visible = "none" /\ Visible' = "begun"
      <3>1. registered' # {}
        BY <2>1
      <3>2. Visible = "none"
        BY <2>1, StageOfOne
      <3> QED
        BY <2>1, <2>2, <3>1, <3>2 DEF Visible
    <2>4. Map!Begin
      BY <2>1, <2>3 DEF Map!Begin
    <2> QED
      BY <2>4 DEF MapStep, Map!Next
  <1>2. CASE Publish
    <2>1. /\ worker.gen \in registered /\ published' = published \cup {worker.gen}
          /\ UNCHANGED <<registered, enabled, last>>
      BY <1>2 DEF Publish
    <2>2. CASE published = {}
      <3>1. Visible = "begun" /\ enabled = 0 /\ published' # {}
        BY <2>1, <2>2, StageOfOne
      <3>2. Visible' = "published"
        BY <2>1, <3>1 DEF Visible
      <3>3. Map!Publish
        BY <2>1, <3>1, <3>2 DEF Map!Publish
      <3> QED
        BY <3>3 DEF MapStep, Map!Next
    <2>3. CASE published # {}
      <3>1. published' = published
        BY <2>1, <2>3, StageOfOne
      <3> QED
        BY <2>1, <3>1, MapKept
    <2> QED
      BY <2>2, <2>3
  <1>3. CASE Switch
    <2>1. /\ worker.gen \in published /\ enabled' = worker.gen
          /\ UNCHANGED <<registered, published, last>>
      BY <1>3 DEF Switch
    <2>2. worker.gen \in registered /\ worker.gen # 0
      BY <2>1, StageOfOne DEF RuntimeInv, Mapped
    <2>3. CASE enabled = 0
      <3>1. Visible = "published"
        BY <2>1, <2>3, StageOfOne
      <3>2. registered' # {} /\ published' # {} /\ enabled' # 0
        BY <2>1, <2>2
      <3>3. Visible' = "enabled"
        BY <3>2 DEF Visible
      <3>4. Map!Enable
        BY <2>1, <3>1, <3>3 DEF Map!Enable
      <3> QED
        BY <3>4 DEF MapStep, Map!Next
    <2>4. CASE enabled # 0
      <3>1. enabled' = enabled
        BY <2>1, <2>2, <2>4, StageOfOne DEF RuntimeInv, Mapped
      <3> QED
        BY <2>1, <3>1, MapKept
    <2> QED
      BY <2>3, <2>4
  <1>4. CASE Retire \/ CleanUp \/ ResetClears \/ StopClears
    BY <1>4, InvalidateRefines DEF Retire, CleanUp, ResetClears, StopClears
  <1>5. CASE \/ (\E c \in Clients : Take(c)) \/ TakeStop \/ BeginBootstrap \/ Activate
             \/ Project \/ Enable \/ Confirm \/ Admit \/ Store \/ Succeed \/ Fail \/ EndFailed
             \/ ResetEnds \/ StopAnnounces \/ StopEnds
    <2>1. UNCHANGED <<last, registered, published, enabled>>
      BY <1>5
      DEF Take, TakeStop, BeginBootstrap, Activate, Project, Enable, Confirm, Admit, Store,
          Succeed, Fail, EndFailed, ResetEnds, StopAnnounces, StopEnds, Passes
    <2> QED
      BY <2>1, MapKept
  <1> QED
    BY <1>1, <1>2, <1>3, <1>4, <1>5 DEF Works

(* Whatever is reset, cancelled or refused under a bootstrap, the runtime  *)
(* offers the one map of CommandMap (Controller.bootstrap, Controller.     *)
(* Reset, appCommandLifecycleRuntime).                                     *)
THEOREM MapRefined ==
  Spec => MapSpec
  <1>1. Init => Map!Init
    BY DEF Init, Map!Init, Visible
  <1>2. RuntimeInv /\ RuntimeInv' /\ [Next]_vars => [Map!Next]_<<last, Visible>>
    <2> SUFFICES ASSUME RuntimeInv, RuntimeInv', [Next]_vars PROVE MapStep
      BY DEF MapStep
    <2>1. CASE CutArrives \/ Secures \/ UNCHANGED vars
      <3>1. UNCHANGED <<last, registered, published, enabled>>
        BY <2>1
        DEF CutArrives, Secures, BeginTransition, ChangeSession, EndTransition, ChangeLock,
            securityOnly, vars, adapter
      <3> QED
        BY <3>1, MapKept
    <2> QED
      BY <2>1, ClientRefines, WorkRefines DEF Next
  <1> QED
    BY <1>1, <1>2, RuntimeInvHolds, PTL DEF Spec, MapSpec, Map!Spec

-----------------------------------------------------------------------------
(* Who waits for whom.                                                     *)

LEMMA ClientsAreOwed ==
  ASSUME TypeOK, AnswersAreOwed, NEW c \in Clients, Begins(c) \/ Proceeds(c) \/ GiveUp(c)
  PROVE  AnswersAreOwed'
  <1>0. /\ call \in [Clients -> Calls] /\ \A d \in Clients : call[d] \in Calls
        /\ worker = [pc |-> worker.pc, client |-> worker.client, gen |-> worker.gen]
        /\ Nobody \notin Clients
    BY RuntimeAssumption DEF TypeOK
  <1>1. /\ \A d \in Clients \ {c} : call'[d] = call[d]
        /\ call'[c].pc # "answer"
    BY <1>0
    DEF Calls, Quiet, Begins, Proceeds, Bootstrap, Reset, Stop, Enter, ResetCancels, ResetLoads,
        ResetInvalidates, StopCuts, Returns, Answered, Joined, Refused, GiveUp, Return, Goto, At
  <1>2. worker'.client # c /\ worker'.pc = worker.pc
        /\ (worker'.client = worker.client \/ worker'.client = Nobody)
        /\ \A d \in Clients \ {c} : worker.client = d => worker'.client = d
    <2>1. CASE GiveUp(c)
      BY <1>0, <2>1 DEF GiveUp
    <2>2. CASE ~GiveUp(c)
      <3>1. UNCHANGED worker
        BY <2>2
        DEF Begins, Proceeds, Bootstrap, Reset, Stop, ResetCancels, ResetLoads, ResetInvalidates,
            StopCuts, Returns, clientOnly
      <3>2. At(c, "answer") => Working("done")
        BY <1>0, <2>2
        DEF Calls, Begins, Proceeds, Bootstrap, Reset, Stop, Enter, ResetCancels, ResetLoads,
            ResetInvalidates, StopCuts, Returns, Answered, Joined, Refused, At
      <3>3. worker.client # c
        BY <1>0, <3>2 DEF AnswersAreOwed, Free, Working
      <3> QED
        BY <3>1, <3>3
    <2> QED
      BY <2>1, <2>2
  <1>3. stopping' => cut' \/ \E e \in Clients : call'[e].pc = "cut"
    <2>1. cut => cut'
      BY DEF Begins, Proceeds, Bootstrap, Reset, Stop, ResetCancels, ResetLoads, ResetInvalidates,
             StopCuts, Returns, GiveUp, clientOnly
    <2>2. CASE StopCuts(c)
      BY <2>2 DEF StopCuts
    <2>3. CASE Stop(c) /\ ~stopping
      BY <1>0, <2>3 DEF Stop, Enter
    <2>4. CASE ~StopCuts(c) /\ ~(Stop(c) /\ ~stopping)
      <3>1. call[c].pc # "cut" /\ (stopping' => stopping)
        BY <1>0, <2>4
        DEF Begins, Proceeds, Bootstrap, Reset, Stop, Enter, ResetCancels, ResetLoads,
            ResetInvalidates, Returns, Answered, Joined, Refused, GiveUp, At
      <3>2. (\E e \in Clients : call[e].pc = "cut") => \E e \in Clients : call'[e].pc = "cut"
        BY <1>1, <3>1
      <3> QED
        BY <2>1, <3>1, <3>2 DEF AnswersAreOwed, At
    <2> QED
      BY <2>2, <2>3, <2>4
  <1>4. \A d \in Clients : call'[d].pc \in {"cut", "join"} => stopping'
    <2>1. stopping => stopping'
      BY DEF Begins, Proceeds, Bootstrap, Reset, Stop, ResetCancels, ResetLoads, ResetInvalidates,
             StopCuts, Returns, GiveUp, clientOnly
    <2>2. call'[c].pc \in {"cut", "join"} => stopping'
      <3>1. CASE StopCuts(c)
        <4>1. call[c].pc = "cut"
          BY <3>1 DEF StopCuts, At
        <4> QED
          BY <2>1, <4>1 DEF AnswersAreOwed, At
      <3>2. CASE ~StopCuts(c)
        BY <1>0, <3>2
        DEF Calls, Quiet, Begins, Proceeds, Bootstrap, Reset, Stop, Enter, ResetCancels,
            ResetLoads, ResetInvalidates, Returns, Answered, Joined, Refused, GiveUp, Return,
            Goto, At
      <3> QED
        BY <3>1, <3>2
    <2> QED
      BY <1>1, <2>1, <2>2 DEF AnswersAreOwed, At
  <1>5. \A d \in Clients : call'[d].pc = "answer" => worker'.pc = "done" \/ worker'.client = d
    BY <1>1, <1>2 DEF AnswersAreOwed, At, Working
  <1>6. worker'.client # Nobody => call'[worker'.client].pc = "answer" /\ worker'.pc \notin Free
    <2> SUFFICES ASSUME worker'.client # Nobody
                 PROVE  call'[worker'.client].pc = "answer" /\ worker'.pc \notin Free
      OBVIOUS
    <2>1. worker'.client = worker.client /\ worker.client \in Clients \ {c}
      BY <1>2 DEF TypeOK
    <2> QED
      BY <1>1, <1>2, <2>1 DEF AnswersAreOwed, At
  <1> QED
    BY <1>3, <1>4, <1>5, <1>6 DEF AnswersAreOwed, At, Working

(* A Stop never waits for its turn: it asks the loop to end.               *)
OnlyOperationsQueue ==
  \A c \in Clients :
    call[c].pc \in {"cancel", "load", "invalidate", "submit"} => call[c].op # "stop"

LEMMA OperationsQueue ==
  ASSUME TypeOK, OnlyOperationsQueue, [Next]_vars
  PROVE  OnlyOperationsQueue'
  <1>0. /\ call \in [Clients -> Calls] /\ \A d \in Clients : call[d] \in Calls
    BY DEF TypeOK
  <1>1. ASSUME NEW c \in Clients, Begins(c) \/ Proceeds(c) \/ GiveUp(c)
        PROVE  OnlyOperationsQueue'
    <2>1. \A d \in Clients \ {c} : call'[d] = call[d]
      BY <1>0, <1>1
      DEF Begins, Proceeds, Bootstrap, Reset, Stop, Enter, ResetCancels, ResetLoads,
          ResetInvalidates, StopCuts, Returns, Answered, Joined, Refused, GiveUp, Return, Goto
    <2>2. call'[c].pc \in {"cancel", "load", "invalidate", "submit"} => call'[c].op # "stop"
      BY <1>0, <1>1
      DEF OnlyOperationsQueue, Calls, Quiet, Begins, Proceeds, Bootstrap, Reset, Stop, Enter,
          ResetCancels, ResetLoads, ResetInvalidates, StopCuts, Returns, Answered, Joined,
          Refused, GiveUp, Return, Goto, At
    <2> QED
      BY <2>1, <2>2 DEF OnlyOperationsQueue
  <1>2. ASSUME NEW c \in Clients, Take(c)
        PROVE  OnlyOperationsQueue'
    BY <1>0, <1>2 DEF OnlyOperationsQueue, Take, Goto, Calls
  <1>3. ASSUME Reply
        PROVE  OnlyOperationsQueue'
    BY <1>0, <1>3 DEF OnlyOperationsQueue, Reply, Calls
  <1>4. CASE Succeed \/ EndFailed \/ ResetEnds
    BY <1>3, <1>4 DEF Succeed, EndFailed, ResetEnds, EndBootstrap
  <1>5. ASSUME UNCHANGED call
        PROVE  OnlyOperationsQueue'
    BY <1>5 DEF OnlyOperationsQueue
  <1>6. CASE CutArrives \/ Secures \/ UNCHANGED vars
    BY <1>5, <1>6
    DEF CutArrives, Secures, BeginTransition, ChangeSession, EndTransition, ChangeLock,
        securityOnly, vars
  <1>7. CASE \/ TakeStop \/ BeginBootstrap \/ Retire \/ Capture \/ Activate \/ Project
             \/ Publish \/ Enable \/ Switch \/ Confirm \/ Admit \/ Store \/ Fail \/ CleanUp
             \/ ResetClears \/ StopAnnounces \/ StopClears \/ StopEnds
    BY <1>5, <1>7
    DEF TakeStop, BeginBootstrap, Retire, Capture, Activate, Project, Publish, Enable, Switch,
        Confirm, Admit, Store, Fail, CleanUp, ResetClears, StopAnnounces, StopClears, StopEnds,
        Passes
  <1> QED
    BY <1>1, <1>2, <1>4, <1>6, <1>7 DEF Next, Works

LEMMA WorkIsOwed ==
  ASSUME TypeOK, AnswersAreOwed, OnlyOperationsQueue, Works
  PROVE  AnswersAreOwed'
  <1>0. /\ call \in [Clients -> Calls] /\ \A d \in Clients : call[d] \in Calls
        /\ worker.client \in Clients \cup {Nobody} /\ Nobody \notin Clients
        /\ worker.pc \in Stages
        /\ worker = [pc |-> worker.pc, client |-> worker.client, gen |-> worker.gen]
    BY RuntimeAssumption DEF TypeOK
  <1> USE DEF Working, workerOnly
  <1>1. UNCHANGED <<stopping, cut>>
    BY DEF Works, Take, TakeStop, BeginBootstrap, Retire, Capture, Activate, Project, Publish,
           Enable, Switch, Confirm, Admit, Store, Succeed, Fail, CleanUp, EndFailed, ResetClears,
           ResetEnds, StopAnnounces, StopClears, StopEnds, Passes
  <1>2. ASSUME NEW c \in Clients, Take(c) PROVE AnswersAreOwed'
    <2>1. /\ worker.client = Nobody
          /\ call[c].pc = "submit" /\ worker.pc = "idle"
      BY <1>2 DEF Take, AnswersAreOwed, Free, At
    <2>2. \A d \in Clients : call[d].pc # "answer"
      BY <1>0, <2>1 DEF AnswersAreOwed, At
    <2>3. /\ \A d \in Clients \ {c} : call'[d] = call[d]
          /\ call'[c].pc = "answer"
          /\ worker'.client = c /\ worker'.pc \in Ops
      BY <1>0, <1>2 DEF Take, Goto, Calls
    <2>4. \A d \in Clients : call'[d].pc = "answer" => worker'.client = d
      BY <2>3, <2>2
    <2>5. \A d \in Clients : call'[d].pc \in {"cut", "join"} => stopping'
      BY <1>1, <2>3 DEF AnswersAreOwed, At
    <2>6. stopping' => cut' \/ \E d \in Clients : call'[d].pc = "cut"
      BY <1>1, <2>1, <2>3 DEF AnswersAreOwed, At
    <2>7. worker'.pc \notin Free
      <3>1. call[c].op \in {"bootstrap", "reset"}
        BY <1>0, <2>1 DEF Calls, Ops, OnlyOperationsQueue
      <3> QED
        BY <1>2, <3>1 DEF Take, Free
    <2> QED
      BY <2>3, <2>4, <2>5, <2>6, <2>7 DEF AnswersAreOwed, At
  <1>3. CASE TakeStop
    <2>1. worker.client = Nobody
      BY <1>3 DEF TakeStop, AnswersAreOwed, Free
    <2>2. /\ \A d \in Clients : call[d].pc # "answer"
          /\ UNCHANGED call /\ worker'.client = Nobody
      BY <1>0, <1>3, <2>1 DEF TakeStop, AnswersAreOwed, At
    <2> QED
      BY <1>1, <2>2 DEF AnswersAreOwed, At
  <1>4. ASSUME Reply, worker'.client = Nobody, worker.pc \notin Free
        PROVE  AnswersAreOwed'
    <2>1. \A d \in Clients : call[d].pc = "answer" => worker.client = d
      BY <1>4 DEF AnswersAreOwed, Free, At
    <2>2. /\ \A d \in Clients : call'[d].pc = IF d = worker.client THEN "answered" ELSE call[d].pc
          /\ worker.client # Nobody => call[worker.client].pc = "answer"
      BY <1>0, <1>4 DEF Reply, AnswersAreOwed, At, Calls
    <2> QED
      BY <1>0, <1>1, <1>4, <2>1, <2>2 DEF AnswersAreOwed, At
  <1>5. CASE Succeed \/ EndFailed \/ ResetEnds
    BY <1>4, <1>5 DEF Succeed, EndFailed, ResetEnds, EndBootstrap, Free
  <1>6. ASSUME UNCHANGED call, worker'.client = worker.client,
               \/ worker.pc \notin Free /\ worker'.pc \notin Free
               \/ worker.pc \in {"stop", "clear", "stopped"}
        PROVE  AnswersAreOwed'
    BY <1>0, <1>1, <1>6 DEF AnswersAreOwed, Free, At
  <1>7. CASE StopAnnounces \/ StopClears \/ StopEnds
    BY <1>0, <1>6, <1>7 DEF StopAnnounces, StopClears, StopEnds, Step
  <1>8. CASE BeginBootstrap \/ Retire \/ Capture \/ Activate \/ Project \/ Publish \/ Enable
             \/ Switch \/ Confirm \/ Admit \/ Store
    BY <1>0, <1>6, <1>8
    DEF BeginBootstrap, Retire, Capture, Activate, Project, Publish, Enable, Switch, Confirm,
        Admit, Store, Step, Passes, Free
  <1>9. CASE Fail \/ CleanUp \/ ResetClears
    BY <1>0, <1>6, <1>9 DEF Fail, CleanUp, ResetClears, Step, Free
  <1> QED
    BY <1>2, <1>3, <1>5, <1>7, <1>8, <1>9 DEF Works

(* No answer and no end of a Stop is waited for that nobody owes           *)
(* (Controller.submit, Controller.Stop, Controller.loop): what the return  *)
(* of every call rests on.                                                 *)
THEOREM WaitsAreOwed ==
  Spec => []AnswersAreOwed
  <1>1. Init => AnswersAreOwed /\ OnlyOperationsQueue
    BY DEF Init, AnswersAreOwed, OnlyOperationsQueue, Quiet, At
  <1>2. TypeOK /\ OnlyOperationsQueue /\ [Next]_vars => OnlyOperationsQueue'
    BY OperationsQueue
  <1>3. TypeOK /\ AnswersAreOwed /\ OnlyOperationsQueue /\ [Next]_vars => AnswersAreOwed'
    <2> SUFFICES ASSUME TypeOK, AnswersAreOwed, OnlyOperationsQueue, [Next]_vars
                 PROVE  AnswersAreOwed'
      OBVIOUS
    <2>1. CASE CutArrives \/ Secures \/ UNCHANGED vars
      <3>1. UNCHANGED <<call, worker, stopping, cut>>
        BY <2>1
        DEF CutArrives, Secures, BeginTransition, ChangeSession, EndTransition, ChangeLock,
            securityOnly, vars, workerOnly
      <3> QED
        BY <3>1 DEF AnswersAreOwed, At, Working
    <2> QED
      BY <2>1, ClientsAreOwed, WorkIsOwed DEF Next
  <1> QED
    BY <1>1, <1>2, <1>3, TypeCorrect, PTL DEF Spec
=============================================================================
