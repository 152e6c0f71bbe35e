---------------------------- MODULE CommandRuntime ----------------------------
(***************************************************************************)
(* The life cycle of the command runtime: commandruntime.Controller with   *)
(* the ports that internal/app gives it (appCommandLifecycleRuntime) and   *)
(* the part of commandsecurity.EpochService they ask.                      *)
(*                                                                         *)
(* One worker bootstraps, resets and stops; its clients are login, logout, *)
(* reloads and the end of the application.  A reset does not wait for its  *)
(* turn to cancel the bootstrap under way and to invalidate its            *)
(* generation.  Meanwhile sessions change and the vault is locked, behind  *)
(* the gate that the last step of a bootstrap enters too.                  *)
(*                                                                         *)
(* Any port of a bootstrap may fail.  The ports of a clean-up cannot, in   *)
(* internal/app: they delete entries of maps.                              *)
(***************************************************************************)
EXTENDS Integers

CONSTANTS
  Clients,         \* callers of Bootstrap, Reset and Stop
  Sessions,        \* sessions of users
  Nobody,          \* no client, no session
  MaxGenerations,  \* bound on the generations begun
  MaxEpochs        \* bound on the changes of the security epoch

ASSUME RuntimeAssumption ==
  /\ Nobody \notin Clients \cup Sessions
  /\ MaxGenerations \in Nat /\ MaxEpochs \in Nat

VARIABLES
  call,        \* what each client is doing, or how its last call ended
  worker,      \* where Controller.loop is, for whom, with which generation
  cancelled,   \* the context of the bootstrap under way was cancelled
  aborter,     \* activeCancel is that of the bootstrap under way
  active,      \* activeGeneration, 0 for none
  stopping,    \* stopOnce
  cut,         \* rootCtx is cancelled and stopRequested closed
  snapshot,    \* Controller.state
  last,        \* number of generations begun
  registered,  \* generations of the adapter
  proof,       \* session and epoch the last generation was begun with
  published,   \* generations with a published projection
  enabled,     \* the generation whose inputs are enabled, 0 for none
  epoch,       \* EpochService.security
  open,        \* EpochService.transitions
  session,     \* the session of App.currentAuthUser
  unlocked     \* the vault and the desktop are unlocked

adapter == <<registered, published, enabled>>
security == <<epoch, open, session, unlocked>>
control == <<cancelled, aborter, active, snapshot>>
vars == <<call, worker, stopping, cut, last, proof, control, adapter, security>>

-----------------------------------------------------------------------------
Generations == 1 .. MaxGenerations
Ops == {"bootstrap", "reset", "stop"}
Calls == [op : Ops,
          pc : {"idle", "cancel", "load", "invalidate", "submit", "answer", "answered",
                "cut", "join"},
          gen : 0 .. MaxGenerations]
Bootstrapping == {"retire", "capture", "activate", "project", "publish", "enable",
                  "switch", "confirm", "admit", "store", "return", "fail", "failed"}
Stages == Bootstrapping \cup {"idle", "bootstrap", "reset", "cold", "stop", "clear",
                              "stopped", "done"}
States == {"cold", "bootstrapping", "ready", "failed", "stopping", "stopped"}

Quiet == [op |-> "bootstrap", pc |-> "idle", gen |-> 0]

At(c, p) == call[c].pc = p
Working(p) == worker.pc = p
Goto(c, p) == call' = [call EXCEPT ![c].pc = p]
Step(p) == worker' = [worker EXCEPT !.pc = p]

(* GenerationPort.Invalidate; after it Clear and SetEnabled(false) have    *)
(* nothing left to remove.                                                 *)
Invalidate(g) == /\ registered' = registered \ {g}
                 /\ published' = published \ {g}
                 /\ enabled' = IF enabled = g THEN 0 ELSE enabled

(* ValidateCurrent and Authorize, asked of the generation being prepared:  *)
(* it is registered, and its session is the current one and unlocked.      *)
Valid(g) == /\ g \in registered
            /\ session = proof.session
            /\ unlocked

(* Mounted cold, before or after a login, or anew when the catalog of      *)
(* tools changed.                                                          *)
Init ==
  /\ call = [c \in Clients |-> Quiet]
  /\ worker = [pc |-> "idle", client |-> Nobody, gen |-> 0]
  /\ cancelled = FALSE /\ aborter = FALSE /\ active = 0
  /\ stopping = FALSE /\ cut = FALSE
  /\ snapshot = [state |-> "cold", gen |-> 0]
  /\ last = 0
  /\ registered = {} /\ published = {} /\ enabled = 0
  /\ proof = [session |-> Nobody, epoch |-> 0]
  /\ epoch = 0 /\ open = 0
  /\ session \in Sessions \cup {Nobody} /\ unlocked \in BOOLEAN

-----------------------------------------------------------------------------
(* Clients.                                                                *)

Return(c) == call' = [call EXCEPT ![c] = Quiet]

Enter(c, op, pc) == /\ At(c, "idle")
                    /\ call' = [call EXCEPT ![c] = [op |-> op, pc |-> pc, gen |-> 0]]

clientOnly == <<worker, cut, last, proof, aborter, active, snapshot, security>>

(* submit refuses every call after Stop.                                   *)
Bootstrap(c) == /\ ~stopping
                /\ Enter(c, "bootstrap", "submit")
                /\ UNCHANGED <<clientOnly, stopping, cancelled, adapter>>

Reset(c) == /\ Enter(c, "reset", "cancel")
            /\ UNCHANGED <<clientOnly, stopping, cancelled, adapter>>

cancelActive == cancelled' = (cancelled \/ aborter)

ResetCancels(c) == /\ At(c, "cancel")
                   /\ cancelActive
                   /\ Goto(c, "load")
                   /\ UNCHANGED <<clientOnly, stopping, adapter>>

ResetLoads(c) == /\ At(c, "load")
                 /\ call' = [call EXCEPT ![c].pc = "invalidate", ![c].gen = active]
                 /\ UNCHANGED <<clientOnly, stopping, cancelled, adapter>>

ResetInvalidates(c) == /\ At(c, "invalidate")
                       /\ Invalidate(call[c].gen)
                       /\ IF stopping THEN Return(c) ELSE Goto(c, "submit")
                       /\ UNCHANGED <<clientOnly, stopping, cancelled>>

Stop(c) == /\ Enter(c, "stop", IF stopping THEN "join" ELSE "cut")
           /\ stopping' = TRUE
           /\ UNCHANGED <<clientOnly, cancelled, adapter>>

StopCuts(c) == /\ At(c, "cut")
               /\ cancelActive
               /\ cut' = TRUE
               /\ Goto(c, "join")
               /\ UNCHANGED <<worker, last, proof, aborter, active, snapshot, security,
                              stopping, adapter>>

(* The answer; or the end of the worker, which every wait watches (done).  *)
Answered(c) == At(c, "answered") /\ Return(c)
Joined(c) == Working("done") /\ At(c, "join") /\ Return(c)
Refused(c) == /\ Working("done")
              /\ At(c, "submit") \/ At(c, "answer")
              /\ Return(c)
(* Mutant: a call that waits for its turn does not watch done.             *)
ReturnsMutant(c) == /\ \/ Answered(c) \/ Joined(c)
                       \/ Refused(c) /\ ~At(c, "submit")
                    /\ UNCHANGED <<clientOnly, stopping, cancelled, adapter>>
Returns(c) == /\ Answered(c) \/ Joined(c) \/ Refused(c)
              /\ UNCHANGED <<clientOnly, stopping, cancelled, adapter>>

(* The context of the caller ends; a bootstrap it waits for shares it.     *)
GiveUp(c) == /\ call[c].pc \in {"submit", "answer", "answered", "join"}
             /\ Return(c)
             /\ cancelled' = (cancelled \/ (worker.client = c /\ worker.pc \in Bootstrapping))
             /\ worker' = [worker EXCEPT !.client = IF @ = c THEN Nobody ELSE @]
             /\ UNCHANGED <<cut, last, proof, aborter, active, snapshot, security,
                            stopping, adapter>>

-----------------------------------------------------------------------------
(* The worker.                                                             *)

Reply == call' = [c \in Clients |-> IF c = worker.client
                                    THEN [call[c] EXCEPT !.pc = "answered"] ELSE call[c]]
workerOnly == <<stopping, cut, security>>

(* The loop takes an operation, or the request to stop, whichever comes    *)
(* first to its select.                                                    *)
Take(c) == /\ Working("idle")
           /\ At(c, "submit")
           /\ worker' = [pc |-> call[c].op, client |-> c, gen |-> 0]
           /\ Goto(c, "answer")
           /\ UNCHANGED <<workerOnly, control, adapter, last, proof>>

TakeStop == /\ Working("idle")
            /\ cut
            /\ worker' = [pc |-> "stop", client |-> Nobody, gen |-> 0]
            /\ UNCHANGED <<workerOnly, control, adapter, last, proof, call>>

(* A cancelled root reaches a later bootstrap through a goroutine of its   *)
(* own (context.AfterFunc).                                                *)
CutArrives == /\ cut /\ worker.pc \in Bootstrapping
              /\ ~cancelled /\ cancelled' = TRUE
              /\ UNCHANGED <<workerOnly, aborter, active, snapshot, adapter, last,
                             proof, call, worker>>

BeginBootstrap ==
  /\ Working("bootstrap")
  /\ cancelled' = (worker.client = Nobody)
  /\ aborter' = TRUE
  /\ worker' = [worker EXCEPT !.pc = "retire", !.gen = snapshot.gen]
  /\ snapshot' = [state |-> "bootstrapping", gen |-> 0]
  /\ UNCHANGED <<workerOnly, active, adapter, last, proof, call>>

(* Mutant: the generation of the last bootstrap stays.                     *)
RetireMutant == /\ Working("retire")
                /\ Step("capture")
                /\ UNCHANGED <<workerOnly, control, adapter, last, proof, call>>
(* The previous generation goes before the next begins.                    *)
Retire == /\ Working("retire")
          /\ Invalidate(worker.gen)
          /\ Step("capture")
          /\ UNCHANGED <<workerOnly, control, last, proof, call>>

(* GenerationPort.Begin: identity and epoch are captured under the gate.   *)
Capture == /\ Working("capture")
           /\ ~cancelled
           /\ open = 0 /\ session # Nobody
           /\ last < MaxGenerations
           /\ last' = last + 1
           /\ registered' = registered \cup {last'}
           /\ proof' = [session |-> session, epoch |-> epoch]
           /\ worker' = [worker EXCEPT !.pc = "activate", !.gen = last']
           /\ UNCHANGED <<workerOnly, control, published, enabled, call>>

Activate == /\ Working("activate")
            /\ active' = worker.gen
            /\ Step("project")
            /\ UNCHANGED <<workerOnly, cancelled, aborter, snapshot, adapter, last, proof, call>>

Passes(from, to) == /\ Working(from)
                    /\ Step(to)
                    /\ UNCHANGED <<workerOnly, control, adapter, last, proof, call>>

(* Authenticate, Recover and Project, with the checks in between.          *)
Project == /\ Working("project") /\ ~cancelled /\ Valid(worker.gen)
           /\ Passes("project", "publish")

(* Mutant: the publication does not look whether the generation is still   *)
(* registered.                                                             *)
PublishMutant == /\ Working("publish")
                 /\ published' = published \cup {worker.gen}
                 /\ Step("enable")
                 /\ UNCHANGED <<workerOnly, control, registered, enabled, last, proof, call>>
Publish == /\ Working("publish")
           /\ worker.gen \in registered
           /\ published' = published \cup {worker.gen}
           /\ Step("enable")
           /\ UNCHANGED <<workerOnly, control, registered, enabled, last, proof, call>>

Enable == /\ Working("enable") /\ ~cancelled /\ Valid(worker.gen)
          /\ worker.gen \in published
          /\ Passes("enable", "switch")

(* SetEnabled(true), its last critical section.                            *)
Switch == /\ Working("switch")
          /\ worker.gen \in published
          /\ enabled' = worker.gen
          /\ Step("confirm")
          /\ UNCHANGED <<workerOnly, control, registered, published, last, proof, call>>

(* setReadyState up to the gate.                                           *)
Confirm == /\ Working("confirm") /\ ~cancelled /\ Valid(worker.gen)
           /\ Passes("confirm", "admit")

(* Mutant: the epoch is not compared.                                      *)
AdmitMutant == ~cancelled /\ Passes("admit", "store")
(* EpochService.Admit; its callback runs with the gate shared.             *)
Admit == /\ Working("admit") /\ ~cancelled
         /\ open = 0
         /\ proof = [session |-> session, epoch |-> epoch] /\ unlocked
         /\ Passes("admit", "store")
GateShared == Working("store")

Store == /\ Working("store")
         /\ snapshot' = [state |-> "ready", gen |-> worker.gen]
         /\ Step("return")
         /\ UNCHANGED <<workerOnly, cancelled, aborter, active, adapter, last, proof, call>>

(* The deferred calls, and the answer.                                     *)
EndBootstrap == /\ active' = 0 /\ aborter' = FALSE /\ cancelled' = FALSE
                   /\ worker' = [pc |-> "idle", client |-> Nobody, gen |-> 0]
                   /\ Reply

Succeed == /\ Working("return")
           /\ EndBootstrap
           /\ UNCHANGED <<workerOnly, snapshot, adapter, last, proof>>

(* A port fails, the context ended, or a check is not passed.              *)
Fail == /\ worker.pc \in {"capture", "project", "publish", "enable", "switch",
                          "confirm", "admit"}
        /\ worker' = [worker EXCEPT !.pc = "fail",
                                    !.gen = IF worker.pc = "capture" THEN 0 ELSE @]
        /\ UNCHANGED <<workerOnly, control, adapter, last, proof, call>>

CleanUp == /\ Working("fail")
           /\ Invalidate(worker.gen)
           /\ Step("failed")
           /\ UNCHANGED <<workerOnly, control, last, proof, call>>

EndFailed == /\ Working("failed")
             /\ snapshot' = [state |-> "failed", gen |-> 0]
             /\ EndBootstrap
             /\ UNCHANGED <<workerOnly, adapter, last, proof>>

(* Mutant: the reset trusts the early invalidation.                        *)
ResetClearsMutant == /\ Working("reset")
                     /\ Step("cold")
                     /\ UNCHANGED <<workerOnly, control, adapter, last, proof, call>>
ResetClears == /\ Working("reset")
               /\ Invalidate(snapshot.gen)
               /\ Step("cold")
               /\ UNCHANGED <<workerOnly, control, last, proof, call>>

ResetEnds == /\ Working("cold")
             /\ snapshot' = [state |-> "cold", gen |-> 0]
             /\ worker' = [pc |-> "idle", client |-> Nobody, gen |-> 0]
             /\ Reply
             /\ UNCHANGED <<workerOnly, cancelled, aborter, active, adapter, last, proof>>

StopAnnounces == /\ Working("stop")
                 /\ snapshot' = [snapshot EXCEPT !.state = "stopping"]
                 /\ Step("clear")
                 /\ UNCHANGED <<workerOnly, cancelled, aborter, active, adapter, last, proof, call>>

StopClears == /\ Working("clear")
              /\ Invalidate(snapshot.gen)
              /\ Step("stopped")
              /\ UNCHANGED <<workerOnly, control, last, proof, call>>

StopEnds == /\ Working("stopped")
            /\ snapshot' = [state |-> "stopped", gen |-> 0]
            /\ Step("done")
            /\ UNCHANGED <<workerOnly, cancelled, aborter, active, adapter, last, proof, call>>

-----------------------------------------------------------------------------
(* Sessions and locks, behind the gate.                                    *)
securityOnly == <<call, worker, stopping, cut, last, proof, control, adapter>>

BeginTransition == /\ ~GateShared /\ epoch < MaxEpochs
                   /\ epoch' = epoch + 1
                   /\ open' = open + 1
                   /\ UNCHANGED <<securityOnly, session, unlocked>>

(* Login, refresh and logout set the user inside a transition.             *)
ChangeSession == /\ open > 0
                 /\ session' \in Sessions \cup {Nobody}
                 /\ UNCHANGED <<securityOnly, epoch, open, unlocked>>

(* Mutant: finish runs twice (no sync.Once).                               *)
EndTransitionMutant == /\ ~GateShared
                       /\ open' = open - 1
                       /\ UNCHANGED <<securityOnly, epoch, session, unlocked>>
EndTransition == /\ ~GateShared /\ open > 0
                 /\ open' = open - 1
                 /\ UNCHANGED <<securityOnly, epoch, session, unlocked>>

(* HostState.SetVaultUnlocked, SetOSSessionState: MutateSecurity.          *)
ChangeLock == /\ ~GateShared /\ epoch < MaxEpochs
              /\ epoch' = epoch + 1
              /\ unlocked' \in BOOLEAN
              /\ UNCHANGED <<securityOnly, open, session>>

-----------------------------------------------------------------------------
Begins(c) == Bootstrap(c) \/ Reset(c) \/ Stop(c)
Proceeds(c) == ResetCancels(c) \/ ResetLoads(c) \/ ResetInvalidates(c)
                 \/ StopCuts(c) \/ Returns(c)
Works == \/ (\E c \in Clients : Take(c)) \/ TakeStop
         \/ BeginBootstrap \/ Retire \/ Capture \/ Activate \/ Project \/ Publish
         \/ Enable \/ Switch \/ Confirm \/ Admit \/ Store \/ Succeed
         \/ Fail \/ CleanUp \/ EndFailed
         \/ ResetClears \/ ResetEnds \/ StopAnnounces \/ StopClears \/ StopEnds
Secures == BeginTransition \/ ChangeSession \/ EndTransition \/ ChangeLock

Next == \/ \E c \in Clients : Begins(c) \/ Proceeds(c) \/ GiveUp(c)
        \/ Works \/ CutArrives \/ Secures

(* Goroutines are scheduled, ports return, and the channel of operations   *)
(* is first come, first served.  Nobody has to call, to give up or to      *)
(* change a session.                                                       *)
Fairness == /\ WF_vars(Works)
            /\ \A c \in Clients : WF_vars(Proceeds(c)) /\ SF_vars(Take(c))

Spec == Init /\ [][Next]_vars
FairSpec == Spec /\ Fairness

-----------------------------------------------------------------------------
(* Types.                                                                  *)
Known == 0 .. MaxGenerations

TypeOK ==
  /\ call \in [Clients -> Calls]
  /\ worker \in [pc : Stages, client : Clients \cup {Nobody}, gen : Known]
  /\ cancelled \in BOOLEAN /\ aborter \in BOOLEAN /\ active \in Known
  /\ stopping \in BOOLEAN /\ cut \in BOOLEAN
  /\ snapshot \in [state : States, gen : Known]
  /\ last \in Known
  /\ registered \subseteq 1 .. last
  /\ published \subseteq Generations /\ enabled \in Known
  /\ proof \in [session : Sessions \cup {Nobody}, epoch : 0 .. MaxEpochs]
  /\ epoch \in 0 .. MaxEpochs /\ open \in 0 .. MaxEpochs
  /\ session \in Sessions \cup {Nobody} /\ unlocked \in BOOLEAN

(* Inputs are enabled only for a map that is published, a map is published *)
(* only for a generation that is registered, and there is one of them:     *)
(* while the next generation is prepared the previous map is not visible   *)
(* (Controller.bootstrap), and a generation that a reset invalidated under *)
(* the bootstrap leaves no map behind it.  Between two operations it is    *)
(* the generation of a Ready snapshot, the only one a later reset or stop  *)
(* would look for; after the last there is none.                           *)
OneMap ==
  /\ enabled # 0 => enabled \in published
  /\ published \subseteq registered
  /\ \A g, h \in registered : g = h
  /\ Working("idle") => \A g \in registered : snapshot = [state |-> "ready", gen |-> g]
  /\ Working("done") => registered = {}

(* A runtime becomes Ready only for the session that is current, while no  *)
(* change of session or lock is under way and none happened since the      *)
(* generation was begun (setReadyState, EpochService.Admit).               *)
BecomesReady == snapshot'.state = "ready" /\ snapshot # snapshot'
CommitIsCurrent ==
  [][BecomesReady => /\ open = 0 /\ unlocked
                     /\ snapshot'.gen = last
                     /\ proof = [session |-> session, epoch |-> epoch]]_vars

(* A generation that was invalidated never comes back: nothing of it is    *)
(* registered, published or enabled by the bootstrap that began it, which  *)
(* may still be between two checks (Controller.Reset: "impede que um       *)
(* projetor bloqueado publique a geracao anterior").                       *)
Retired(g) == g <= last /\ g \notin registered
RetiredForGood ==
  [][\A g \in Generations :
       Retired(g) => g \notin registered' \cup published' \cup {enabled'}]_vars

(* Bootstraps, resets and stops, whoever invalidates what meanwhile,       *)
(* implement the one map of CommandMap: no step makes two of them, skips a *)
(* stage, or gives life to a generation that was retired.                  *)
Visible == CASE enabled # 0 -> "enabled"
             [] enabled = 0 /\ published # {} -> "published"
             [] enabled = 0 /\ published = {} /\ registered # {} -> "begun"
             [] OTHER -> "none"
Map == INSTANCE CommandMap WITH generation <- last, stage <- Visible
MapSpec == Map!Spec

(* No call is left waiting: whose answer is due is the one the worker      *)
(* works for, unless the worker is gone, and the worker works for nobody   *)
(* who does not wait; whoever joins a Stop finds the request to stop made, *)
(* or about to be made by the one who came first.                          *)
Free == {"idle", "stop", "clear", "stopped", "done"}
AnswersAreOwed ==
  /\ \A c \in Clients : At(c, "answer") => Working("done") \/ worker.client = c
  /\ worker.client # Nobody => At(worker.client, "answer") /\ worker.pc \notin Free
  /\ \A c \in Clients : At(c, "cut") \/ At(c, "join") => stopping
  /\ stopping => cut \/ \E d \in Clients : At(d, "cut")

(* Every call returns, the ones that wait behind a Stop included, even     *)
(* when the caller's context never ends.                                   *)
CallsReturn == \A c \in Clients : call[c].pc # "idle" ~> call[c].pc = "idle"
=============================================================================
