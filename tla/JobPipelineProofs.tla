-------------------------- MODULE JobPipelineProofs --------------------------
(* Proofs about JobPipeline, for every set of jobs, wiring and bound.      *)
EXTENDS JobPipeline, FiniteSetTheorems, TLAPS

-----------------------------------------------------------------------------
(* Activations and their table.                                            *)

LEMMA ImageFinite ==
  ASSUME NEW S, IsFiniteSet(S), NEW f, DOMAIN f = S
  PROVE  /\ IsFiniteSet({f[x] : x \in S})
         /\ Cardinality({f[x] : x \in S}) <= Cardinality(S)
<1> DEFINE T == {f[x] : x \in S}
           g == [x \in S |-> f[x]]
<1>1. g \in Surjection(S, T)
  BY DEF Surjection
<1>2. QED
  BY <1>1, FS_Surjection

LEMMA JobOfActivation ==
  ASSUME NEW a \in Activation
  PROVE  /\ Job(a) \in Jobs
         /\ Len(a) \in Nat \ {0}
         /\ Depth(a) \in Nat
<1>1. a \in Seq(Jobs \X Nat) /\ a # <<>>
  BY DEF Activation
<1>2. Len(a) \in Nat /\ Len(a) # 0
  BY <1>1
<1>3. a[Len(a)] \in Jobs \X Nat
  BY <1>1, <1>2
<1>4. QED
  BY <1>2, <1>3 DEF Job, Depth

LEMMA RootActivation ==
  ASSUME NEW j \in Jobs, NEW r \in Roots
  PROVE  /\ <<<<j, r>>>> \in Activation
         /\ Job(<<<<j, r>>>>) = j
BY PipelineAssumption DEF Activation, Job

LEMMA ChildActivation ==
  ASSUME NEW a \in Activation, NEW j \in Jobs, NEW k \in Nat
  PROVE  /\ Append(a, <<j, k>>) \in Activation
         /\ Job(Append(a, <<j, k>>)) = j
         /\ Len(Append(a, <<j, k>>)) = Len(a) + 1
<1>1. a \in Seq(Jobs \X Nat) /\ Len(a) \in Nat
  BY JobOfActivation DEF Activation
<1>2. /\ Append(a, <<j, k>>) \in Seq(Jobs \X Nat)
      /\ Len(Append(a, <<j, k>>)) = Len(a) + 1
      /\ Append(a, <<j, k>>)[Len(a) + 1] = <<j, k>>
  BY <1>1
<1>3. QED
  BY <1>1, <1>2 DEF Activation, Job

LEMMA KidsOf ==
  ASSUME NEW a \in Activation, NEW e, NEW k \in Nat, subs \subseteq Jobs
  PROVE  /\ Kids(a, e, k) \subseteq Activation
         /\ IsFiniteSet(Kids(a, e, k))
         /\ \A c \in Kids(a, e, k) : Job(c) \in subs /\ Len(c) > 1
<1> DEFINE S == Subscribers(e)
           f == [j \in S |-> Append(a, <<j, k>>)]
<1>1. S \subseteq Jobs /\ S \subseteq subs
  BY DEF Subscribers
<1>2. IsFiniteSet(S)
  BY <1>1, FS_Subset, PipelineAssumption
<1>3. Kids(a, e, k) = {f[j] : j \in S}
  BY DEF Kids
<1>4. IsFiniteSet(Kids(a, e, k))
  <2> HIDE DEF f
  <2>1. DOMAIN f = S
    BY DEF f
  <2>2. QED
    BY <1>2, <1>3, <2>1, ImageFinite
<1>5. ASSUME NEW c \in Kids(a, e, k)
      PROVE  c \in Activation /\ Job(c) \in subs /\ Len(c) > 1
  <2>1. PICK j \in S : c = Append(a, <<j, k>>)
    BY <1>5 DEF Kids
  <2>2. /\ c \in Activation
        /\ Job(c) = j
        /\ Len(c) = Len(a) + 1
    BY <1>1, <2>1, ChildActivation
  <2>3. Len(a) \in Nat \ {0}
    BY JobOfActivation
  <2>4. QED
    BY <1>1, <2>2, <2>3
<1>6. QED
  BY <1>4, <1>5

LEMMA SpawnTable ==
  ASSUME NEW f, DOMAIN f \subseteq Activation, IsFiniteSet(DOMAIN f),
         f \in [DOMAIN f -> [pc : PCs, item : Nat]],
         NEW kids \in SUBSET Activation, IsFiniteSet(kids),
         NEW p \in PCs
  PROVE  LET g == Spawn(f, kids, p)
         IN  /\ DOMAIN g = DOMAIN f \cup kids
             /\ DOMAIN g \subseteq Activation
             /\ IsFiniteSet(DOMAIN g)
             /\ g \in [DOMAIN g -> [pc : PCs, item : Nat]]
             /\ \A c \in DOMAIN f : g[c] = f[c]
             /\ \A c \in DOMAIN g \ DOMAIN f : c \in kids /\ g[c].pc = p
<1>1. DOMAIN Spawn(f, kids, p) = DOMAIN f \cup kids
  BY DEF Spawn
<1>2. IsFiniteSet(DOMAIN f \cup kids)
  BY FS_Union
<1>3. At(p) \in [pc : PCs, item : Nat] /\ At(p).pc = p
  BY DEF At
<1>4. QED
  BY <1>1, <1>2, <1>3 DEF Spawn

-----------------------------------------------------------------------------
(* Type correctness.                                                       *)

LEMMA InitType == Init => TypeOK
<1> SUFFICES ASSUME Init PROVE TypeOK
  OBVIOUS
<1>1. run = [a \in {} |-> At("fired")] /\ DOMAIN run = {}
  BY DEF Init
<1>2. IsFiniteSet(DOMAIN run)
  BY <1>1, FS_EmptySet
<1>3. registry \in [Jobs -> Entry]
  BY DEF Init, Entry, Statuses
<1>4. subs \subseteq Jobs
  BY DEF Init
<1>5. QED
  BY <1>1, <1>2, <1>3, <1>4, PipelineAssumption DEF Init, TypeOK, NoEdit

RunsOK == /\ DOMAIN run \subseteq Activation
          /\ run \in [DOMAIN run -> [pc : PCs, item : Nat]]
          /\ IsFiniteSet(DOMAIN run)
          /\ cancelled \subseteq DOMAIN run

LEMMA GotoType ==
  ASSUME RunsOK, NEW a \in DOMAIN run, NEW p \in PCs, Goto(a, p), UNCHANGED cancelled
  PROVE  RunsOK' /\ DOMAIN run' = DOMAIN run
<1>1. At(p) \in [pc : PCs, item : Nat]
  BY DEF At
<1>2. QED
  BY <1>1 DEF RunsOK, Goto

LEMMA DropType ==
  ASSUME RunsOK, NEW a \in DOMAIN run, Drop(a)
  PROVE  /\ RunsOK'
         /\ DOMAIN run' = DOMAIN run \ {a}
         /\ \A c \in DOMAIN run' : run'[c] = run[c]
<1>1. DOMAIN run' = DOMAIN run \ {a}
  BY DEF Drop
<1>2. IsFiniteSet(DOMAIN run')
  BY <1>1, FS_RemoveElement DEF RunsOK
<1>3. QED
  BY <1>1, <1>2 DEF RunsOK, Drop

LEMMA SpawnType ==
  ASSUME RunsOK, NEW f, DOMAIN f = DOMAIN run, f \in [DOMAIN f -> [pc : PCs, item : Nat]],
         NEW kids \in SUBSET Activation, IsFiniteSet(kids), NEW p \in PCs,
         run' = Spawn(f, kids, p), UNCHANGED cancelled
  PROVE  /\ RunsOK'
         /\ DOMAIN run' = DOMAIN run \cup kids
         /\ \A c \in DOMAIN run : run'[c] = f[c]
         /\ \A c \in DOMAIN run' \ DOMAIN run : c \in kids /\ run'[c].pc = p
<1> DEFINE g == Spawn(f, kids, p)
<1>1. DOMAIN f \subseteq Activation /\ IsFiniteSet(DOMAIN f)
  BY DEF RunsOK
<1>2. /\ DOMAIN g = DOMAIN f \cup kids
      /\ DOMAIN g \subseteq Activation
      /\ IsFiniteSet(DOMAIN g)
      /\ g \in [DOMAIN g -> [pc : PCs, item : Nat]]
      /\ \A c \in DOMAIN f : g[c] = f[c]
      /\ \A c \in DOMAIN g \ DOMAIN f : c \in kids /\ g[c].pc = p
  BY <1>1, SpawnTable
<1>3. QED
  <2> HIDE DEF g
  <2>1. run' = g
    BY DEF g
  <2>2. QED
    BY <1>2, <2>1 DEF RunsOK

LEMMA SetStatusType ==
  ASSUME registry \in [Jobs -> Entry], NEW j \in Jobs, NEW s \in Statuses,
         SetStatus(j, s)
  PROVE  /\ registry' \in [Jobs -> Entry]
         /\ \A i \in Jobs : Enabled(i)' <=> Enabled(i)
<1>1. registry' \in [Jobs -> Entry]
  BY DEF SetStatus, Entry
<1>2. \A i \in Jobs : /\ registry'[i].present = registry[i].present
                      /\ registry'[i].enabled = registry[i].enabled
                      /\ registry'[i].pipeOn = registry[i].pipeOn
  BY DEF SetStatus, Entry
<1>3. QED
  BY <1>1, <1>2 DEF Enabled, Effective

LEMMA FireType ==
  ASSUME TypeOK, Fire
  PROVE  TypeOK'
<1>1. ASSUME NEW r \in Roots, NEW kids \in SUBSET Activation, IsFiniteSet(kids),
             NEW p \in PCs, run' = Spawn(run, kids, p), fired' = fired \cup {r},
             UNCHANGED <<cancelled, used, recent, registry, subs, pipelineOn, edit, edits>>
      PROVE  TypeOK'
  <2>1. RunsOK'
    BY <1>1, SpawnType DEF TypeOK, RunsOK
  <2>2. QED
    BY <1>1, <2>1 DEF TypeOK, RunsOK
<1>2. \A j \in Jobs, r \in Roots : {<<<<j, r>>>>} \subseteq Activation
                                  /\ IsFiniteSet({<<<<j, r>>>>})
  BY RootActivation, FS_Singleton
<1>3. "fired" \in PCs /\ "approved" \in PCs
  BY DEF PCs, InSlot
<1>4. ASSUME NEW j \in Jobs, NEW r \in Roots, FireCron(j, r) \/ FireInterval(j, r)
      PROVE  TypeOK'
  BY <1>1, <1>2, <1>3, <1>4 DEF FireCron, FireInterval, FireRoot
<1>5. ASSUME NEW j \in Jobs, NEW r \in Roots, FireManual(j, r)
      PROVE  TypeOK'
  BY <1>1, <1>2, <1>3, <1>5 DEF FireManual
<1>6. ASSUME NEW e \in Events, NEW r \in Roots, FireDomain(e, r)
      PROVE  TypeOK'
  <2> DEFINE S == Subscribers(e)
             kids == {<<<<j, r>>>> : j \in S}
             f == [j \in S |-> <<<<j, r>>>>]
  <2>1. S \subseteq Jobs
    BY DEF TypeOK, Subscribers
  <2>2. IsFiniteSet(S)
    BY <2>1, FS_Subset, PipelineAssumption
  <2>3. DOMAIN f = S /\ kids = {f[j] : j \in S}
    OBVIOUS
  <2>4. IsFiniteSet(kids)
    <3> HIDE DEF f, kids, S
    <3>1. QED
      BY <2>2, <2>3, ImageFinite
  <2>5. kids \subseteq Activation
    BY <2>1, RootActivation
  <2>6. QED
    BY <1>1, <1>3, <1>6, <2>4, <2>5 DEF FireDomain, FireRoot
<1>7. QED
  BY <1>4, <1>5, <1>6 DEF Fire

LEMMA StepType ==
  ASSUME TypeOK, NEW a \in DOMAIN run, Step(a)
  PROVE  TypeOK'
<1> USE DEF pipelineState, executorState
<1>1. RunsOK /\ a \in Activation /\ Job(a) \in Jobs
  BY JobOfActivation DEF TypeOK, RunsOK
<1>2. {"fired", "waiting", "admitted", "approved", "starting", "rated", "running",
       "succeeding", "failing", "skipping", "completed", "failed"} \subseteq PCs
  BY DEF PCs, InSlot
<1>3. used \in Nat /\ (Release(a) => used' \in Nat)
  BY DEF TypeOK, Release
<1>4. ASSUME NEW p \in PCs, Goto(a, p), UNCHANGED cancelled
      PROVE  RunsOK'
  BY <1>1, <1>4, GotoType
<1>5. ASSUME Drop(a)
      PROVE  RunsOK'
  BY <1>1, <1>5, DropType
<1>6. CASE Enqueue(a) \/ Acquire(a) \/ Approve(a)
  <2>1. used' \in Nat
    BY <1>3, <1>6 DEF Enqueue, Acquire, Approve
  <2>2. RunsOK'
    BY <1>2, <1>4, <1>6 DEF Enqueue, Acquire, Approve
  <2>3. QED
    BY <1>6, <2>1, <2>2 DEF Enqueue, Acquire, Approve, TypeOK, RunsOK
<1>7. CASE Ignore(a) \/ AbortWait(a) \/ Refuse(a) \/ BeginFails(a)
  <2>1. used' \in Nat
    BY <1>3, <1>7 DEF Ignore, AbortWait, Refuse, BeginFails
  <2>2. RunsOK'
    BY <1>5, <1>7 DEF Ignore, AbortWait, Refuse, BeginFails
  <2>3. QED
    BY <1>7, <2>1, <2>2 DEF Ignore, AbortWait, Refuse, BeginFails, TypeOK, RunsOK
<1>8. CASE Begin(a)
  <2>1. RunsOK'
    BY <1>2, <1>4, <1>8 DEF Begin
  <2>2. registry' \in [Jobs -> Entry]
    BY <1>1, <1>8, SetStatusType DEF Begin, TypeOK, Statuses
  <2>3. QED
    BY <1>8, <2>1, <2>2 DEF Begin, TypeOK, RunsOK
<1>9. CASE CheckRate(a) \/ ToolSucceeds(a) \/ ToolFails(a) \/ Abandon(a) \/ EmitEnds(a)
  <2>1. RunsOK'
    BY <1>2, <1>4, <1>9 DEF CheckRate, ToolSucceeds, ToolFails, Abandon, EmitEnds
  <2>2. QED
    BY <1>9, <2>1 DEF CheckRate, ToolSucceeds, ToolFails, Abandon, EmitEnds, TypeOK, RunsOK
<1>10. CASE CheckChain(a)
  <2>1. RunsOK'
    BY <1>2, <1>4, <1>10 DEF CheckChain
  <2>2. recent' \in [Jobs -> Nat]
    BY <1>1, <1>10 DEF CheckChain, TypeOK
  <2>3. QED
    BY <1>10, <2>1, <2>2 DEF CheckChain, TypeOK, RunsOK
<1>11. CASE EmitItem(a)
  <2> DEFINE f == [run EXCEPT ![a].item = @ + 1]
             e == OnSuccess[Job(a)]
             k == run[a].item
  <2>1. PICK kids \in {{}, Kids(a, e, k)} : run' = Spawn(f, kids, "fired")
    BY <1>11 DEF EmitItem
  <2>2. k \in Nat
    BY <1>1 DEF RunsOK
  <2>3. kids \in SUBSET Activation /\ IsFiniteSet(kids)
    <3> HIDE DEF k
    <3>1. Kids(a, e, k) \subseteq Activation /\ IsFiniteSet(Kids(a, e, k))
      BY <1>1, <2>2, KidsOf DEF TypeOK
    <3>2. QED
      BY <3>1, FS_EmptySet
  <2>4. DOMAIN f = DOMAIN run /\ f \in [DOMAIN f -> [pc : PCs, item : Nat]]
    BY <1>1, <2>2 DEF RunsOK
  <2>5. RunsOK'
    BY <1>1, <1>2, <1>11, <2>1, <2>3, <2>4, SpawnType DEF EmitItem
  <2>6. QED
    BY <1>11, <2>5 DEF EmitItem, TypeOK, RunsOK
<1>12. CASE EmitFailure(a)
  <2> DEFINE end == IF run[a].pc = "failing" THEN "failed" ELSE "completed"
             f == [run EXCEPT ![a] = At(end)]
             kids == IF OnFailure[Job(a)] = NoEvent THEN {}
                     ELSE Kids(a, OnFailure[Job(a)], 0)
  <2>1. run' = Spawn(f, kids, "fired")
    BY <1>12 DEF EmitFailure
  <2>2. kids \in SUBSET Activation /\ IsFiniteSet(kids)
    BY <1>1, KidsOf, FS_EmptySet DEF TypeOK
  <2>3. DOMAIN f = DOMAIN run /\ f \in [DOMAIN f -> [pc : PCs, item : Nat]]
    BY <1>1, <1>2 DEF RunsOK, At
  <2>4. RunsOK'
    BY <1>1, <1>2, <1>12, <2>1, <2>2, <2>3, SpawnType DEF EmitFailure
  <2>5. QED
    BY <1>12, <2>4 DEF EmitFailure, TypeOK, RunsOK
<1>13. ASSUME NEW e \in DomainEvents, ToolPublishes(a, e)
       PROVE  TypeOK'
  <2> DEFINE f == [run EXCEPT ![a].item = @ + 1]
             k == FanOut[Job(a)] + run[a].item
             kids == Kids(a, e, k)
  <2>1. run' = Spawn(f, kids, "fired")
    BY <1>13 DEF ToolPublishes
  <2>2. run[a].item \in Nat /\ k \in Nat
    BY <1>1, PipelineAssumption DEF RunsOK
  <2>3. kids \subseteq Activation /\ IsFiniteSet(kids)
    <3> HIDE DEF k
    <3>1. QED
      BY <1>1, <2>2, KidsOf DEF TypeOK
  <2>4. DOMAIN f = DOMAIN run /\ f \in [DOMAIN f -> [pc : PCs, item : Nat]]
    BY <1>1, <2>2 DEF RunsOK
  <2>5. RunsOK'
    <3> HIDE DEF f, kids
    <3>1. QED
      BY <1>1, <1>2, <1>13, <2>1, <2>3, <2>4, SpawnType DEF ToolPublishes
  <2>6. QED
    BY <1>13, <2>5 DEF ToolPublishes, TypeOK, RunsOK
<1>14. CASE Finish(a)
  <2>1. RunsOK'
    BY <1>5, <1>14 DEF Finish
  <2>2. registry' \in [Jobs -> Entry]
    BY <1>1, <1>14, SetStatusType DEF Finish, TypeOK, Statuses
  <2>3. QED
    BY <1>3, <1>14, <2>1, <2>2 DEF Finish, TypeOK, RunsOK
<1>15. QED
  BY <1>6, <1>7, <1>8, <1>9, <1>10, <1>11, <1>12, <1>13, <1>14 DEF Step

(* What beginning an edit changes: nothing but the edit and the persisted  *)
(* state of the pipeline.                                                  *)
LEMMA BeginEditType ==
  ASSUME TypeOK, BeginAnEdit
  PROVE  /\ TypeOK'
         /\ edit = NoEdit
         /\ edit' \in Edit
         /\ edit'.pc = "unregister"
         /\ UNCHANGED <<run, cancelled, fired, used, recent, registry, subs>>
<1>1. ASSUME NEW op \in {"toggle", "save", "delete", "pipeline"}, NEW j \in Jobs,
             NEW todo \in SUBSET Jobs, NEW val \in BOOLEAN, NEW copy \in Entry,
             BeginEdit(op, j, todo, val, copy), pipelineOn' \in BOOLEAN
      PROVE  /\ TypeOK'
             /\ edit = NoEdit
             /\ edit' \in Edit
             /\ edit'.pc = "unregister"
             /\ UNCHANGED <<run, cancelled, fired, used, recent, registry, subs>>
  <2>1. edits' \in 0 .. MaxEdits
    BY <1>1, PipelineAssumption DEF BeginEdit, TypeOK
  <2>2. edit' \in Edit
    BY <1>1 DEF BeginEdit, Edit
  <2>3. QED
    BY <1>1, <2>1, <2>2 DEF BeginEdit, TypeOK
<1>2. /\ registry \in [Jobs -> Entry]
      /\ pipelineOn \in BOOLEAN
  BY DEF TypeOK
<1>3. ASSUME NEW j \in Jobs, NEW on \in BOOLEAN, BeginToggle(j, on)
      PROVE  BeginEdit("toggle", j, {}, on, [registry[j] EXCEPT !.enabled = on])
             /\ [registry[j] EXCEPT !.enabled = on] \in Entry
             /\ pipelineOn' \in BOOLEAN
  BY <1>2, <1>3 DEF BeginToggle, Entry
<1>4. ASSUME NEW j \in Jobs, NEW on \in BOOLEAN, BeginSave(j, on)
      PROVE  \E c \in Entry : BeginEdit("save", j, {}, on, c) /\ pipelineOn' \in BOOLEAN
  BY <1>2, <1>4 DEF BeginSave, Entry, Statuses
<1>5. ASSUME NEW j \in Jobs, BeginDelete(j)
      PROVE  \E c \in Entry : BeginEdit("delete", j, {}, FALSE, c) /\ pipelineOn' \in BOOLEAN
  BY <1>2, <1>5 DEF BeginDelete, Entry, Statuses
<1>6. ASSUME NEW on \in BOOLEAN, BeginPipeline(on)
      PROVE  \E j \in Jobs, todo \in SUBSET Jobs :
               BeginEdit("pipeline", j, todo, on, registry[j]) /\ pipelineOn' \in BOOLEAN
  BY <1>6, PipelineAssumption DEF BeginPipeline
<1>7. QED
  BY <1>1, <1>2, <1>3, <1>4, <1>5, <1>6 DEF BeginAnEdit

LEMMA EditFields ==
  ASSUME TypeOK, EditStep
  PROVE  /\ edit \in Edit
         /\ edit.job \in Jobs
         /\ edit.todo \subseteq Jobs
         /\ edit.copy \in Entry
         /\ edit # NoEdit
<1>1. edit # NoEdit
  <2>1. NoEdit.pc = "idle"
    BY DEF NoEdit
  <2>2. edit.pc \in {"unregister", "set", "register"}
    BY DEF EditStep, Unregister, SetEntry, Register
  <2>3. QED
    BY <2>1, <2>2
<1>2. edit \in Edit
  BY <1>1 DEF TypeOK
<1>3. QED
  BY <1>1, <1>2 DEF Edit

LEMMA EditStepType ==
  ASSUME TypeOK, EditStep
  PROVE  TypeOK'
<1>1. /\ edit \in Edit
      /\ edit.job \in Jobs
      /\ edit.todo \subseteq Jobs
      /\ edit.copy \in Entry
  BY EditFields
<1>2. registry \in [Jobs -> Entry] /\ subs \subseteq Jobs
  BY DEF TypeOK
<1>3. CASE Unregister
  <2> DEFINE c == IF edit.op = "pipeline"
                  THEN [registry[edit.job] EXCEPT !.pipeOn = edit.val] ELSE edit.copy
  <2>1. edit.val \in BOOLEAN
    BY <1>1 DEF Edit
  <2>2. registry[edit.job] \in Entry
    BY <1>1, <1>2
  <2>3. c \in Entry
    BY <1>1, <2>1, <2>2 DEF Entry
  <2>4. edit' = [edit EXCEPT !.pc = "set", !.copy = c]
    BY <1>3 DEF Unregister
  <2>5. edit' \in Edit
    <3> HIDE DEF c
    <3>1. QED
      BY <1>1, <2>3, <2>4 DEF Edit
  <2>6. subs' \subseteq Jobs
    BY <1>2, <1>3 DEF Unregister, Unsubscribed
  <2>7. cancelled' \subseteq DOMAIN run
    BY <1>3 DEF Unregister, TypeOK
  <2>8. QED
    BY <1>3, <2>5, <2>6, <2>7 DEF Unregister, TypeOK
<1>4. CASE SetEntry
  <2>1. registry' \in [Jobs -> Entry]
    BY <1>1, <1>2, <1>4 DEF SetEntry
  <2>2. edit' \in Edit
    BY <1>1, <1>4 DEF SetEntry, Edit
  <2>3. QED
    BY <1>4, <2>1, <2>2 DEF SetEntry, TypeOK
<1>5. CASE Register
  <2>1. subs' \subseteq Jobs
    BY <1>1, <1>2, <1>5 DEF Register, Resubscribed
  <2>2. edit' \in {NoEdit} \cup Edit
    BY <1>1, <1>5 DEF Register, Edit
  <2>3. QED
    BY <1>5, <2>1, <2>2 DEF Register, TypeOK
<1>6. QED
  BY <1>3, <1>4, <1>5 DEF EditStep

LEMMA NextType ==
  ASSUME TypeOK, [Next]_vars
  PROVE  TypeOK'
<1>1. CASE \E a \in DOMAIN run : Step(a)
  BY <1>1, StepType
<1>2. CASE \E j \in Jobs : Expire(j)
  BY <1>2 DEF Expire, executorState, TypeOK
<1>3. CASE AtRest \/ UNCHANGED vars
  BY <1>3 DEF AtRest, vars, TypeOK
<1>4. QED
  BY <1>1, <1>2, <1>3, FireType, BeginEditType, EditStepType DEF Next

(* Every reachable state of the pipeline is well formed: the activations   *)
(* in flight are finitely many chains of existing jobs, cancellations only *)
(* name activations in flight, and an edit in progress is complete.        *)
THEOREM TypeCorrect == Spec => []TypeOK
<1>1. TypeOK /\ [Next]_vars => TypeOK'
  BY NextType
<1>2. QED
  BY InitType, <1>1, PTL DEF Spec

-----------------------------------------------------------------------------
(* The run limiter.                                                        *)

LEMMA HoldersFinite ==
  ASSUME TypeOK
  PROVE  IsFiniteSet(Holders) /\ Cardinality(Holders) \in Nat
BY FS_Subset, FS_CardinalityType DEF TypeOK, Holders

(* Steps that neither take nor return a slot.                              *)
LEMMA HoldersStay ==
  ASSUME SlotsBalanced, used' = used, DOMAIN run \subseteq DOMAIN run',
         \A c \in DOMAIN run : HoldsSlot(c)' <=> HoldsSlot(c),
         \A c \in DOMAIN run' \ DOMAIN run : ~HoldsSlot(c)'
  PROVE  SlotsBalanced'
<1>1. Holders' = Holders
  BY DEF Holders
<1>2. QED
  BY <1>1 DEF SlotsBalanced

LEMMA GotoKeepsSlot ==
  ASSUME TypeOK, SlotsBalanced, NEW a \in DOMAIN run, NEW p, Goto(a, p), used' = used,
         run[a].pc \in InSlot <=> p \in InSlot
  PROVE  SlotsBalanced'
<1>1. DOMAIN run' = DOMAIN run
  BY DEF Goto, TypeOK
<1>2. run'[a].pc = p /\ \A c \in DOMAIN run \ {a} : run'[c] = run[c]
  BY DEF Goto, At, TypeOK
<1>3. \A c \in DOMAIN run : HoldsSlot(c)' <=> HoldsSlot(c)
  BY <1>2 DEF HoldsSlot
<1>4. QED
  BY <1>1, <1>3, HoldersStay

LEMMA DropOutsideSlot ==
  ASSUME TypeOK, SlotsBalanced, NEW a \in DOMAIN run, Drop(a), used' = used,
         run[a].pc \notin InSlot
  PROVE  SlotsBalanced'
<1>1. Holders' = Holders
  BY DEF Holders, HoldsSlot, Drop
<1>2. QED
  BY <1>1 DEF SlotsBalanced

LEMMA ReleaseReturnsSlot ==
  ASSUME TypeOK, SlotsBalanced, NEW a \in DOMAIN run, Release(a), Drop(a),
         run[a].pc \in InSlot
  PROVE  SlotsBalanced'
<1>1. Holders' = Holders \ {a}
  BY DEF Holders, HoldsSlot, Drop
<1>2. IsFiniteSet(Holders) /\ Cardinality(Holders) \in Nat
  BY HoldersFinite
<1>3. Cardinality(Holders') =
        IF a \in Holders THEN Cardinality(Holders) - 1 ELSE Cardinality(Holders)
  BY <1>1, <1>2, FS_RemoveElement
<1>4. CASE Manual(a)
  BY <1>3, <1>4 DEF Release, SlotsBalanced, Holders, HoldsSlot
<1>5. CASE ~Manual(a)
  <2>1. a \in Holders
    BY <1>5 DEF Holders, HoldsSlot
  <2>2. used # 0
    BY <1>2, <2>1, FS_EmptySet DEF SlotsBalanced
  <2>3. used' = used - 1
    BY <1>5, <2>2 DEF Release
  <2>4. QED
    BY <1>2, <1>3, <2>1, <2>3, PipelineAssumption DEF SlotsBalanced
<1>6. QED
  BY <1>4, <1>5

(* What makes the invariant inductive: a manual run never queues, so the   *)
(* slot that its release leaves alone was never taken.                     *)
ManualSkipsQueue ==
  \A a \in DOMAIN run : Manual(a) => run[a].pc \notin {"fired", "waiting", "admitted"}

LEMMA ManualIsRoot ==
  ASSUME NEW j, NEW r, r \in CronRoots \cup IntervalRoots \cup DomainRoots
  PROVE  ~Manual(<<<<j, r>>>>)
BY PipelineAssumption DEF Manual

LEMMA GotoKeepsQueue ==
  ASSUME TypeOK, ManualSkipsQueue, NEW a \in DOMAIN run, NEW p, Goto(a, p),
         Manual(a) => p \notin {"fired", "waiting", "admitted"}
  PROVE  ManualSkipsQueue'
<1>1. /\ DOMAIN run' = DOMAIN run
      /\ run'[a].pc = p
      /\ \A c \in DOMAIN run \ {a} : run'[c] = run[c]
  BY DEF Goto, At, TypeOK
<1>2. QED
  BY <1>1 DEF ManualSkipsQueue, Manual

LEMMA SpawnKeepsQueue ==
  ASSUME TypeOK, ManualSkipsQueue, NEW f, DOMAIN f = DOMAIN run,
         \A c \in DOMAIN run : f[c].pc \in {"fired", "waiting", "admitted"} => f[c].pc = run[c].pc,
         NEW kids, NEW p, run' = Spawn(f, kids, p),
         \A c \in kids : Manual(c) => p \notin {"fired", "waiting", "admitted"}
  PROVE  ManualSkipsQueue'
<1>1. DOMAIN run' = DOMAIN run \cup kids
  BY DEF Spawn
<1>2. /\ \A c \in DOMAIN run : run'[c] = f[c]
      /\ \A c \in DOMAIN run' \ DOMAIN run : c \in kids /\ run'[c].pc = p
  BY <1>1 DEF Spawn, At
<1>3. QED
  BY <1>1, <1>2 DEF ManualSkipsQueue, Manual

LEMMA FireKeepsSlots ==
  ASSUME TypeOK, SlotsBalanced, Fire
  PROVE  SlotsBalanced'
<1>1. ASSUME NEW kids, NEW p, run' = Spawn(run, kids, p), used' = used,
             \A c \in kids : p \in InSlot => Manual(c)
      PROVE  SlotsBalanced'
  <2>1. DOMAIN run' = DOMAIN run \cup kids
    BY <1>1 DEF Spawn
  <2>2. /\ \A c \in DOMAIN run : run'[c] = run[c]
        /\ \A c \in DOMAIN run' \ DOMAIN run : c \in kids /\ run'[c].pc = p
    BY <1>1, <2>1 DEF Spawn, At
  <2>3. \A c \in DOMAIN run : HoldsSlot(c)' <=> HoldsSlot(c)
    BY <2>2 DEF HoldsSlot
  <2>4. \A c \in DOMAIN run' \ DOMAIN run : ~HoldsSlot(c)'
    BY <1>1, <2>2 DEF HoldsSlot
  <2>5. QED
    BY <1>1, <2>1, <2>3, <2>4, HoldersStay
<1>2. "fired" \notin InSlot
  BY DEF InSlot
<1>3. ASSUME NEW r \in Roots, NEW kids, FireRoot(r, kids)
      PROVE  SlotsBalanced'
  BY <1>1, <1>2, <1>3 DEF FireRoot
<1>4. ASSUME NEW j \in Jobs, NEW r \in Roots, FireManual(j, r)
      PROVE  SlotsBalanced'
  <2>1. Manual(<<<<j, r>>>>)
    BY <1>4 DEF FireManual, Manual
  <2>2. QED
    BY <1>1, <1>4, <2>1 DEF FireManual
<1>5. QED
  BY <1>3, <1>4 DEF Fire, FireCron, FireInterval, FireDomain

LEMMA FireKeepsQueue ==
  ASSUME TypeOK, ManualSkipsQueue, Fire
  PROVE  ManualSkipsQueue'
<1>1. ASSUME NEW kids, NEW p, run' = Spawn(run, kids, p),
             \A c \in kids : Manual(c) => p \notin {"fired", "waiting", "admitted"}
      PROVE  ManualSkipsQueue'
  BY <1>1, SpawnKeepsQueue
<1>2. ASSUME NEW j \in Jobs, NEW r \in Roots, FireCron(j, r) \/ FireInterval(j, r)
      PROVE  ManualSkipsQueue'
  BY <1>1, <1>2, ManualIsRoot DEF FireCron, FireInterval, FireRoot
<1>3. ASSUME NEW j \in Jobs, NEW r \in Roots, FireManual(j, r)
      PROVE  ManualSkipsQueue'
  BY <1>1, <1>3 DEF FireManual
<1>4. ASSUME NEW e \in Events, NEW r \in Roots, FireDomain(e, r)
      PROVE  ManualSkipsQueue'
  BY <1>1, <1>4, ManualIsRoot DEF FireDomain, FireRoot
<1>5. QED
  BY <1>2, <1>3, <1>4 DEF Fire

LEMMA StepKeepsQueue ==
  ASSUME TypeOK, ManualSkipsQueue, NEW a \in DOMAIN run, Step(a)
  PROVE  ManualSkipsQueue'
<1> USE DEF pipelineState, executorState
<1>1. CASE Enqueue(a) \/ Acquire(a)
  <2>1. ~Manual(a)
    BY <1>1 DEF Enqueue, Acquire, ManualSkipsQueue
  <2>2. QED
    BY <1>1, <2>1, GotoKeepsQueue DEF Enqueue, Acquire
<1>2. CASE Ignore(a) \/ AbortWait(a) \/ Refuse(a) \/ BeginFails(a) \/ Finish(a)
  <2>1. Drop(a)
    BY <1>2 DEF Ignore, AbortWait, Refuse, BeginFails, Finish
  <2>2. QED
    BY <2>1 DEF Drop, ManualSkipsQueue, Manual
<1>3. CASE Approve(a) \/ Begin(a) \/ CheckRate(a) \/ CheckChain(a) \/ ToolSucceeds(a)
           \/ ToolFails(a) \/ Abandon(a) \/ EmitEnds(a)
  BY <1>3, GotoKeepsQueue DEF Approve, Begin, CheckRate, CheckChain, ToolSucceeds,
       ToolFails, Abandon, EmitEnds
<1>4. \A e, k : \A c \in Kids(a, e, k) : ~Manual(c)
  <2>1. a \in Activation
    BY DEF TypeOK
  <2>2. ASSUME NEW e, NEW k, NEW c \in Kids(a, e, k)
        PROVE  ~Manual(c)
    <3>1. PICK j : c = Append(a, <<j, k>>)
      BY <2>2 DEF Kids
    <3>2. Len(c) = Len(a) + 1 /\ Len(a) \in Nat \ {0}
      BY <2>1, <3>1, JobOfActivation DEF Activation
    <3>3. QED
      BY <3>2 DEF Manual
  <2>3. QED
    BY <2>2
<1>5. CASE EmitItem(a) \/ \E e \in DomainEvents : ToolPublishes(a, e)
  <2> DEFINE f == [run EXCEPT ![a].item = @ + 1]
  <2>1. PICK kids : /\ run' = Spawn(f, kids, "fired")
                    /\ \E e, k : kids \in {{}, Kids(a, e, k)}
    BY <1>5 DEF EmitItem, ToolPublishes
  <2>2. DOMAIN f = DOMAIN run /\ \A c \in DOMAIN run : f[c].pc = run[c].pc
    BY DEF TypeOK
  <2>3. QED
    BY <1>4, <2>1, <2>2, SpawnKeepsQueue
<1>6. CASE EmitFailure(a)
  <2> DEFINE end == IF run[a].pc = "failing" THEN "failed" ELSE "completed"
             f == [run EXCEPT ![a] = At(end)]
             kids == IF OnFailure[Job(a)] = NoEvent THEN {}
                     ELSE Kids(a, OnFailure[Job(a)], 0)
  <2>1. run' = Spawn(f, kids, "fired")
    BY <1>6 DEF EmitFailure
  <2>2. /\ DOMAIN f = DOMAIN run
        /\ \A c \in DOMAIN run : f[c].pc \in {"fired", "waiting", "admitted"}
                                   => f[c].pc = run[c].pc
    BY DEF TypeOK, At
  <2>3. \A c \in kids : ~Manual(c)
    BY <1>4
  <2>4. QED
    <3> HIDE DEF f, kids
    <3>1. QED
      BY <2>1, <2>2, <2>3, SpawnKeepsQueue
<1>7. QED
  BY <1>1, <1>2, <1>3, <1>5, <1>6 DEF Step

LEMMA StepKeepsSlots ==
  ASSUME TypeOK, SlotsBalanced, ManualSkipsQueue, NEW a \in DOMAIN run, Step(a)
  PROVE  SlotsBalanced'
<1> USE DEF pipelineState, executorState
<1>1. CASE Enqueue(a)
  BY <1>1, GotoKeepsSlot DEF Enqueue, InSlot
<1>2. CASE Ignore(a) \/ AbortWait(a)
  BY <1>2, DropOutsideSlot DEF Ignore, AbortWait, InSlot
<1>3. CASE Acquire(a)
  <2>1. a \notin Holders
    BY <1>3 DEF Acquire, Holders, HoldsSlot, InSlot
  <2>2. IsFiniteSet(Holders) /\ Cardinality(Holders) \in Nat
    BY HoldersFinite
  <2>3. DOMAIN run' = DOMAIN run /\ run'[a].pc = "admitted"
        /\ \A c \in DOMAIN run \ {a} : run'[c] = run[c]
    BY <1>3 DEF Acquire, Goto, At, TypeOK
  <2>4. ~Manual(a)
    BY <1>3 DEF Acquire, ManualSkipsQueue
  <2>5. Holders' = Holders \cup {a}
    BY <2>3, <2>4 DEF Holders, HoldsSlot, InSlot
  <2>6. Cardinality(Holders') = Cardinality(Holders) + 1
    BY <2>1, <2>2, <2>5, FS_AddElement
  <2>7. QED
    BY <1>3, <2>2, <2>6, PipelineAssumption DEF Acquire, SlotsBalanced
<1>4. CASE Approve(a) \/ Begin(a) \/ CheckRate(a) \/ CheckChain(a) \/ ToolSucceeds(a)
           \/ ToolFails(a) \/ Abandon(a) \/ EmitEnds(a)
  BY <1>4, GotoKeepsSlot DEF Approve, Begin, CheckRate, CheckChain, ToolSucceeds,
       ToolFails, Abandon, EmitEnds, InSlot
<1>5. CASE Refuse(a) \/ BeginFails(a) \/ Finish(a)
  BY <1>5, ReleaseReturnsSlot DEF Refuse, BeginFails, Finish, InSlot
<1>6. "fired" \notin InSlot
  BY DEF InSlot
<1>7. ASSUME NEW f, DOMAIN f = DOMAIN run, used' = used,
             \A c \in DOMAIN run : f[c].pc \in InSlot <=> run[c].pc \in InSlot,
             NEW kids, run' = Spawn(f, kids, "fired")
      PROVE  SlotsBalanced'
  <2>1. DOMAIN run' = DOMAIN run \cup kids
    BY <1>7 DEF Spawn
  <2>2. /\ \A c \in DOMAIN run : run'[c] = f[c]
        /\ \A c \in DOMAIN run' \ DOMAIN run : run'[c].pc = "fired"
    BY <1>7, <2>1 DEF Spawn, At
  <2>3. \A c \in DOMAIN run : HoldsSlot(c)' <=> HoldsSlot(c)
    BY <1>7, <2>2 DEF HoldsSlot
  <2>4. \A c \in DOMAIN run' \ DOMAIN run : ~HoldsSlot(c)'
    BY <1>6, <2>2 DEF HoldsSlot
  <2>5. QED
    BY <1>7, <2>1, <2>3, <2>4, HoldersStay
<1>8. CASE EmitItem(a) \/ \E e \in DomainEvents : ToolPublishes(a, e)
  <2> DEFINE f == [run EXCEPT ![a].item = @ + 1]
  <2>1. PICK kids : run' = Spawn(f, kids, "fired")
    BY <1>8 DEF EmitItem, ToolPublishes
  <2>2. DOMAIN f = DOMAIN run /\ \A c \in DOMAIN run : f[c].pc = run[c].pc
    BY DEF TypeOK
  <2>3. QED
    <3> HIDE DEF f
    <3>1. QED
      BY <1>7, <1>8, <2>1, <2>2 DEF EmitItem, ToolPublishes
<1>9. CASE EmitFailure(a)
  <2> DEFINE end == IF run[a].pc = "failing" THEN "failed" ELSE "completed"
             f == [run EXCEPT ![a] = At(end)]
  <2>1. PICK kids : run' = Spawn(f, kids, "fired")
    BY <1>9 DEF EmitFailure
  <2>2. DOMAIN f = DOMAIN run
        /\ \A c \in DOMAIN run : f[c].pc \in InSlot <=> run[c].pc \in InSlot
    BY <1>9 DEF EmitFailure, TypeOK, At, InSlot
  <2>3. QED
    <3> HIDE DEF f
    <3>1. QED
      BY <1>7, <1>9, <2>1, <2>2 DEF EmitFailure
<1>10. QED
  BY <1>1, <1>2, <1>3, <1>4, <1>5, <1>8, <1>9 DEF Step

(* Steps that touch neither activations nor the limiter.                   *)
LEMMA OtherKeepsSlots ==
  ASSUME TypeOK, SlotsBalanced, ManualSkipsQueue, UNCHANGED <<run, used>>
  PROVE  SlotsBalanced' /\ ManualSkipsQueue'
BY DEF SlotsBalanced, Holders, HoldsSlot, ManualSkipsQueue, Manual

(* The limiter of automatic runs is exact on every path out of executeJob, *)
(* early returns and failures included: no token leaks, none is forged,    *)
(* and at most Slots automatic runs are between acquire and release.       *)
THEOREM LimiterIsExact == Spec => []SlotsBalanced
<1> DEFINE IInv == TypeOK /\ SlotsBalanced /\ ManualSkipsQueue
<1>1. Init => IInv
  <2> SUFFICES ASSUME Init PROVE IInv
    OBVIOUS
  <2>1. DOMAIN run = {}
    BY DEF Init
  <2>2. Holders = {}
    BY <2>1 DEF Holders
  <2>3. SlotsBalanced
    BY <2>2, FS_EmptySet, PipelineAssumption DEF SlotsBalanced, Init
  <2>4. QED
    BY <2>1, <2>3, InitType DEF ManualSkipsQueue
<1>2. IInv /\ [Next]_vars => IInv'
  <2> SUFFICES ASSUME IInv, [Next]_vars PROVE SlotsBalanced' /\ ManualSkipsQueue'
    BY NextType
  <2>1. CASE Fire
    BY <2>1, FireKeepsSlots, FireKeepsQueue
  <2>2. CASE \E a \in DOMAIN run : Step(a)
    BY <2>2, StepKeepsSlots, StepKeepsQueue
  <2>3. CASE \E j \in Jobs : Expire(j)
    BY <2>3, OtherKeepsSlots DEF Expire, executorState
  <2>4. CASE BeginAnEdit
    BY <2>4, BeginEditType, OtherKeepsSlots
  <2>5. CASE EditStep
    BY <2>5, OtherKeepsSlots DEF EditStep, Unregister, SetEntry, Register
  <2>6. CASE AtRest \/ UNCHANGED vars
    BY <2>6, OtherKeepsSlots DEF AtRest, vars
  <2>7. QED
    BY <2>1, <2>2, <2>3, <2>4, <2>5, <2>6 DEF Next
<1>3. QED
  BY <1>1, <1>2, PTL DEF Spec

-----------------------------------------------------------------------------
(* Where activations come from and which checks they have passed.          *)

Ran == {"running", "succeeding", "skipping", "completed"}

(* An activation new to the table is manual or of a job with triggers      *)
(* registered when it was fired.                                           *)
NewcomersHeard ==
  \A c \in DOMAIN run' \ DOMAIN run :
    /\ Manual(c) \/ Job(c) \in subs
    /\ run'[c].pc \in {"fired", "approved"}

(* A position behind a check of the circuit breaker is reached through it. *)
ChecksPassed ==
  \A c \in DOMAIN run' \cap DOMAIN run :
    /\ run'[c].pc = "rated" =>
         run[c].pc = "rated" \/ (CheckRate(c) /\ ~RateExceeded(Job(c)))
    /\ run'[c].pc \in Ran =>
         run[c].pc \in Ran \/ (CheckChain(c) /\ ~ChainRefused(c))

LEMMA SpawnEffect ==
  ASSUME TypeOK, NEW f, DOMAIN f = DOMAIN run,
         \A c \in DOMAIN run : f[c].pc = run[c].pc \/ f[c].pc \in {"failed", "completed"},
         \A c \in DOMAIN run : f[c].pc = "completed" => run[c].pc \in Ran,
         NEW kids, NEW p \in {"fired", "approved"}, run' = Spawn(f, kids, p),
         \A c \in kids : Manual(c) \/ Job(c) \in subs
  PROVE  NewcomersHeard /\ ChecksPassed
<1>1. DOMAIN run' = DOMAIN run \cup kids
  BY DEF Spawn
<1>2. /\ \A c \in DOMAIN run : run'[c] = f[c]
      /\ \A c \in DOMAIN run' \ DOMAIN run : c \in kids /\ run'[c].pc = p
  BY <1>1 DEF Spawn, At
<1>3. QED
  BY <1>1, <1>2 DEF NewcomersHeard, ChecksPassed, Ran

LEMMA FireEffect ==
  ASSUME TypeOK, Fire
  PROVE  NewcomersHeard /\ ChecksPassed
<1>1. ASSUME NEW kids, NEW p \in {"fired", "approved"}, run' = Spawn(run, kids, p),
             \A c \in kids : Manual(c) \/ Job(c) \in subs
      PROVE  NewcomersHeard /\ ChecksPassed
  BY <1>1, SpawnEffect DEF Ran
<1>2. ASSUME NEW j \in Jobs, NEW r \in Roots, FireCron(j, r) \/ FireInterval(j, r)
      PROVE  NewcomersHeard /\ ChecksPassed
  BY <1>1, <1>2, RootActivation DEF FireCron, FireInterval, FireRoot
<1>3. ASSUME NEW j \in Jobs, NEW r \in Roots, FireManual(j, r)
      PROVE  NewcomersHeard /\ ChecksPassed
  <2>1. Manual(<<<<j, r>>>>)
    BY <1>3 DEF FireManual, Manual
  <2>2. QED
    BY <1>1, <1>3, <2>1 DEF FireManual
<1>4. ASSUME NEW e \in Events, NEW r \in Roots, FireDomain(e, r)
      PROVE  NewcomersHeard /\ ChecksPassed
  <2>1. \A j \in Subscribers(e) : j \in subs /\ Job(<<<<j, r>>>>) = j
    BY RootActivation DEF Subscribers, TypeOK
  <2>2. QED
    BY <1>1, <1>4, <2>1 DEF FireDomain, FireRoot
<1>5. QED
  BY <1>2, <1>3, <1>4 DEF Fire

LEMMA GotoEffect ==
  ASSUME TypeOK, NEW a \in DOMAIN run, NEW p, Goto(a, p),
         p = "rated" => CheckRate(a) /\ ~RateExceeded(Job(a)),
         p \in Ran => run[a].pc \in Ran \/ (CheckChain(a) /\ ~ChainRefused(a))
  PROVE  NewcomersHeard /\ ChecksPassed
<1>1. /\ DOMAIN run' = DOMAIN run
      /\ run'[a].pc = p
      /\ \A c \in DOMAIN run \ {a} : run'[c] = run[c]
  BY DEF Goto, At, TypeOK
<1>2. QED
  BY <1>1 DEF NewcomersHeard, ChecksPassed

LEMMA StepEffect ==
  ASSUME TypeOK, NEW a \in DOMAIN run, Step(a)
  PROVE  NewcomersHeard /\ ChecksPassed
<1>1. CASE Enqueue(a) \/ Acquire(a) \/ Approve(a) \/ Begin(a) \/ Abandon(a)
  BY <1>1, GotoEffect DEF Enqueue, Acquire, Approve, Begin, Abandon, Ran
<1>2. CASE Ignore(a) \/ AbortWait(a) \/ Refuse(a) \/ BeginFails(a) \/ Finish(a)
  <2>1. Drop(a)
    BY <1>2 DEF Ignore, AbortWait, Refuse, BeginFails, Finish
  <2>2. QED
    BY <2>1 DEF Drop, NewcomersHeard, ChecksPassed
<1>3. CASE CheckRate(a)
  <2>1. CASE RateExceeded(Job(a))
    BY <1>3, <2>1, GotoEffect DEF CheckRate, Ran
  <2>2. CASE ~RateExceeded(Job(a))
    <3>1. Goto(a, "rated")
      BY <1>3, <2>2 DEF CheckRate
    <3>2. QED
      BY <1>3, <2>2, <3>1, GotoEffect DEF Ran
  <2>3. QED
    BY <2>1, <2>2
<1>4. CASE CheckChain(a)
  <2>1. CASE ChainRefused(a)
    BY <1>4, <2>1, GotoEffect DEF CheckChain, Ran
  <2>2. CASE ~ChainRefused(a)
    <3>1. Goto(a, "running")
      BY <1>4, <2>2 DEF CheckChain
    <3>2. QED
      BY <1>4, <2>2, <3>1, GotoEffect
  <2>3. QED
    BY <2>1, <2>2
<1>5. CASE ToolSucceeds(a) \/ ToolFails(a) \/ EmitEnds(a)
  BY <1>5, GotoEffect DEF ToolSucceeds, ToolFails, EmitEnds, Ran
<1>6. \A e, k : \A c \in Kids(a, e, k) : k \in Nat => Job(c) \in subs
  BY KidsOf DEF TypeOK
<1>7. CASE EmitItem(a) \/ \E e \in DomainEvents : ToolPublishes(a, e)
  <2> DEFINE f == [run EXCEPT ![a].item = @ + 1]
  <2>0. run[a].item \in Nat /\ FanOut[Job(a)] \in Nat
    BY PipelineAssumption, JobOfActivation DEF TypeOK
  <2>1. PICK kids : /\ run' = Spawn(f, kids, "fired")
                    /\ \E e : \E k \in Nat : kids \in {{}, Kids(a, e, k)}
    <3>1. CASE EmitItem(a)
      BY <2>0, <3>1 DEF EmitItem
    <3>2. ASSUME NEW e \in DomainEvents, ToolPublishes(a, e)
          PROVE  \E ks : /\ run' = Spawn(f, ks, "fired")
                         /\ \E d : \E k \in Nat : ks \in {{}, Kids(a, d, k)}
      <4>1. FanOut[Job(a)] + run[a].item \in Nat
        BY <2>0
      <4>2. run' = Spawn(f, Kids(a, e, FanOut[Job(a)] + run[a].item), "fired")
        BY <3>2 DEF ToolPublishes
      <4>3. QED
        BY <4>1, <4>2
    <3>3. QED
      BY <1>7, <3>1, <3>2
  <2>2. DOMAIN f = DOMAIN run /\ \A c \in DOMAIN run : f[c].pc = run[c].pc
    BY DEF TypeOK
  <2>3. \A c \in kids : Job(c) \in subs
    BY <1>6, <2>1
  <2>4. \A c \in DOMAIN run : f[c].pc = "completed" => run[c].pc \in Ran
    BY <2>2 DEF Ran
  <2>5. QED
    <3> HIDE DEF f
    <3>1. QED
      BY <2>1, <2>2, <2>3, <2>4, SpawnEffect
<1>8. CASE EmitFailure(a)
  <2> DEFINE end == IF run[a].pc = "failing" THEN "failed" ELSE "completed"
             f == [run EXCEPT ![a] = At(end)]
             kids == IF OnFailure[Job(a)] = NoEvent THEN {}
                     ELSE Kids(a, OnFailure[Job(a)], 0)
  <2>1. run' = Spawn(f, kids, "fired")
    BY <1>8 DEF EmitFailure
  <2>2. /\ DOMAIN f = DOMAIN run
        /\ \A c \in DOMAIN run : f[c].pc = run[c].pc \/ f[c].pc \in {"failed", "completed"}
        /\ \A c \in DOMAIN run : f[c].pc = "completed" => run[c].pc \in Ran
    BY <1>8 DEF EmitFailure, TypeOK, At, Ran
  <2>3. \A c \in kids : Job(c) \in subs
    BY <1>6
  <2>4. QED
    <3> HIDE DEF f, kids
    <3>1. QED
      BY <2>1, <2>2, <2>3, SpawnEffect
<1>9. QED
  BY <1>1, <1>2, <1>3, <1>4, <1>5, <1>7, <1>8 DEF Step

LEMMA NextEffect ==
  ASSUME TypeOK, [Next]_vars
  PROVE  NewcomersHeard /\ ChecksPassed
<1>1. CASE UNCHANGED run
  BY <1>1 DEF NewcomersHeard, ChecksPassed
<1>2. CASE \E a \in DOMAIN run : Step(a)
  BY <1>2, StepEffect
<1>3. QED
  BY <1>1, <1>2, FireEffect, BeginEditType DEF Next, Expire, executorState, EditStep,
     Unregister, SetEntry, Register, AtRest, vars

(* Along any chain of events each tool runs at most once and never deeper  *)
(* than maxChainDepth, whatever the wiring of the jobs.                    *)
THEOREM ChainsAreCut == Spec => []ChainCut
<1>1. Init => ChainCut
  BY DEF Init, ChainCut
<1>2. TypeOK /\ ChainCut /\ [Next]_vars => ChainCut'
  <2> SUFFICES ASSUME TypeOK, ChainCut, [Next]_vars,
                      NEW c \in DOMAIN run', run'[c].pc \in Ran, Depth(c) > 0
               PROVE  ~InHistory(c) /\ Depth(c) < MaxDepth
    BY DEF ChainCut, Ran, Depth, InHistory, Job
  <2>1. c \in DOMAIN run
    BY NextEffect DEF NewcomersHeard, Ran
  <2>2. run[c].pc \in Ran \/ ~ChainRefused(c)
    BY <2>1, NextEffect DEF ChecksPassed
  <2>3. Depth(c) \in Nat /\ MaxDepth \in Nat
    BY <2>1, JobOfActivation, PipelineAssumption DEF TypeOK
  <2>4. QED
    BY <2>1, <2>2, <2>3 DEF ChainCut, Ran, ChainRefused
<1>3. QED
  BY <1>1, <1>2, TypeCorrect, PTL DEF Spec

-----------------------------------------------------------------------------
(* The length of chains.                                                   *)

FailureJobs == Cardinality({j \in Jobs : OnFailure[j] # NoEvent})

Ranking == {rank \in [Jobs -> 0 .. FailureJobs] :
              \A j, k \in Jobs :
                OnFailure[j] # NoEvent /\ OnFailure[j] \in Listens[k]
                  => rank[k] < rank[j]}

LEMMA FailureJobsNat == FailureJobs \in Nat
<1>1. IsFiniteSet({j \in Jobs : OnFailure[j] # NoEvent})
  BY FS_Subset, PipelineAssumption
<1>2. QED
  BY <1>1, FS_CardinalityType DEF FailureJobs

(* What makes the bound inductive: the handlers a chain still has ahead of *)
(* it, counted by the rank of its last job, fit in what is left.           *)
RoomLeft(rank) ==
  \A a \in DOMAIN run : Depth(a) + rank[Job(a)] <= MaxDepth + FailureJobs

(* An activation new to the table is a root, or comes one deeper from a    *)
(* run whose tool was let run, or from a failure its job has a handler for.*)
Parented ==
  \A c \in DOMAIN run' \ DOMAIN run :
    \/ c \in Activation /\ Depth(c) = 0
    \/ \E a \in DOMAIN run :
         /\ Job(c) \in Jobs
         /\ Depth(c) = Depth(a) + 1
         /\ \/ run[a].pc \in Ran
            \/ /\ OnFailure[Job(a)] # NoEvent
               /\ OnFailure[Job(a)] \in Listens[Job(c)]

LEMMA KidsAreDeeper ==
  ASSUME NEW a \in Activation, NEW e, NEW k \in Nat, subs \subseteq Jobs,
         NEW c \in Kids(a, e, k)
  PROVE  /\ Job(c) \in Jobs
         /\ Depth(c) = Depth(a) + 1
         /\ e \in Listens[Job(c)]
<1>1. PICK j \in Subscribers(e) : c = Append(a, <<j, k>>)
  BY DEF Kids
<1>2. j \in Jobs /\ e \in Listens[j]
  BY <1>1 DEF Subscribers
<1>3. Job(c) = j /\ Len(c) = Len(a) + 1
  BY <1>1, <1>2, ChildActivation
<1>4. Len(a) \in Nat
  BY JobOfActivation
<1>5. QED
  BY <1>2, <1>3, <1>4 DEF Depth

LEMMA SpawnNewcomers ==
  ASSUME NEW f, DOMAIN f = DOMAIN run, NEW kids, NEW p, run' = Spawn(f, kids, p)
  PROVE  DOMAIN run' \ DOMAIN run \subseteq kids
BY DEF Spawn

LEMMA FireParents ==
  ASSUME TypeOK, Fire
  PROVE  Parented
<1>1. ASSUME NEW r \in Roots, NEW kids, NEW p, run' = Spawn(run, kids, p),
             \A c \in kids : \E j \in Jobs : c = <<<<j, r>>>>
      PROVE  Parented
  <2> SUFFICES ASSUME NEW c \in DOMAIN run' \ DOMAIN run
               PROVE  c \in Activation /\ Depth(c) = 0
    BY DEF Parented
  <2>1. PICK j \in Jobs : c = <<<<j, r>>>>
    BY <1>1, SpawnNewcomers
  <2>2. c \in Activation
    BY <2>1, RootActivation
  <2>3. Len(c) = 1
    BY <2>1
  <2>4. QED
    BY <2>2, <2>3 DEF Depth
<1>2. ASSUME NEW j \in Jobs, NEW r \in Roots,
             FireCron(j, r) \/ FireInterval(j, r) \/ FireManual(j, r)
      PROVE  Parented
  BY <1>1, <1>2 DEF FireCron, FireInterval, FireManual, FireRoot
<1>3. ASSUME NEW e \in Events, NEW r \in Roots, FireDomain(e, r)
      PROVE  Parented
  <2>1. run' = Spawn(run, {<<<<j, r>>>> : j \in Subscribers(e)}, "fired")
    BY <1>3 DEF FireDomain, FireRoot
  <2>2. Subscribers(e) \subseteq Jobs
    BY DEF Subscribers, TypeOK
  <2>3. QED
    BY <1>1, <2>1, <2>2
<1>4. QED
  BY <1>2, <1>3 DEF Fire

LEMMA StepParents ==
  ASSUME TypeOK, NEW a \in DOMAIN run, Step(a)
  PROVE  Parented
<1>1. a \in Activation /\ subs \subseteq Jobs /\ run[a].item \in Nat
  BY DEF TypeOK
<1>2. ASSUME NEW p, Goto(a, p) PROVE Parented
  BY <1>2 DEF Goto, Parented
<1>3. CASE Drop(a)
  BY <1>3 DEF Drop, Parented
<1>4. ASSUME NEW f, DOMAIN f = DOMAIN run, NEW e, NEW k \in Nat, NEW p,
             NEW kids \in {{}, Kids(a, e, k)}, run' = Spawn(f, kids, p),
             \/ run[a].pc \in Ran
             \/ OnFailure[Job(a)] # NoEvent /\ e = OnFailure[Job(a)]
      PROVE  Parented
  <2> SUFFICES ASSUME NEW c \in DOMAIN run' \ DOMAIN run
               PROVE  \E b \in DOMAIN run :
                        /\ Job(c) \in Jobs
                        /\ Depth(c) = Depth(b) + 1
                        /\ \/ run[b].pc \in Ran
                           \/ /\ OnFailure[Job(b)] # NoEvent
                              /\ OnFailure[Job(b)] \in Listens[Job(c)]
    BY DEF Parented
  <2>1. c \in Kids(a, e, k)
    BY <1>4, SpawnNewcomers
  <2>2. QED
    BY <1>1, <1>4, <2>1, KidsAreDeeper
<1>5. CASE EmitItem(a)
  BY <1>1, <1>4, <1>5 DEF EmitItem, Ran, TypeOK
<1>6. ASSUME NEW e \in DomainEvents, ToolPublishes(a, e) PROVE Parented
  <2>1. FanOut[Job(a)] + run[a].item \in Nat
    BY <1>1, JobOfActivation, PipelineAssumption
  <2>2. QED
    BY <1>1, <1>4, <1>6, <2>1 DEF ToolPublishes, Ran, TypeOK
<1>7. CASE EmitFailure(a)
  <2> DEFINE f == [run EXCEPT ![a] = At(IF run[a].pc = "failing" THEN "failed"
                                        ELSE "completed")]
             kids == IF OnFailure[Job(a)] = NoEvent THEN {}
                     ELSE Kids(a, OnFailure[Job(a)], 0)
  <2>1. run' = Spawn(f, kids, "fired")
    BY <1>7 DEF EmitFailure
  <2>2. DOMAIN f = DOMAIN run
    OBVIOUS
  <2>3. QED
    <3> HIDE DEF f
    <3>1. CASE OnFailure[Job(a)] = NoEvent
      <4>1. DOMAIN run' \ DOMAIN run = {}
        BY <2>1, <2>2, <3>1, SpawnNewcomers
      <4>2. QED
        BY <4>1 DEF Parented
    <3>2. CASE OnFailure[Job(a)] # NoEvent
      BY <1>4, <2>1, <2>2, <3>2
    <3>3. QED
      BY <3>1, <3>2
<1>8. QED
  BY <1>2, <1>3, <1>5, <1>6, <1>7 DEF Step, Enqueue, Ignore, Acquire, AbortWait, Approve,
     Refuse, Begin, BeginFails, CheckRate, CheckChain, ToolSucceeds, ToolFails, Abandon,
     EmitEnds, Finish

LEMMA NextParents ==
  ASSUME TypeOK, [Next]_vars
  PROVE  Parented
<1>1. CASE UNCHANGED run
  BY <1>1 DEF Parented
<1>2. QED
  BY <1>1, FireParents, StepParents, BeginEditType DEF Next, Expire, executorState, EditStep,
     Unregister, SetEntry, Register, AtRest, vars

LEMMA RoomIsKept ==
  ASSUME NEW rank \in Ranking, TypeOK, ChainCut, RoomLeft(rank), [Next]_vars
  PROVE  RoomLeft(rank)'
<1> SUFFICES ASSUME NEW c \in DOMAIN run', c \notin DOMAIN run
             PROVE  Depth(c) + rank[Job(c)] <= MaxDepth + FailureJobs
  BY DEF RoomLeft, Depth, Job, FailureJobs
<1>1. /\ MaxDepth \in Nat \ {0} /\ FailureJobs \in Nat
      /\ \A j \in Jobs : rank[j] \in Nat /\ rank[j] <= FailureJobs
  BY FailureJobsNat, PipelineAssumption DEF Ranking
<1>2. CASE c \in Activation /\ Depth(c) = 0
  BY <1>1, <1>2, JobOfActivation
<1>3. ASSUME NEW a \in DOMAIN run, Job(c) \in Jobs, Depth(c) = Depth(a) + 1,
             \/ run[a].pc \in Ran
             \/ /\ OnFailure[Job(a)] # NoEvent
                /\ OnFailure[Job(a)] \in Listens[Job(c)]
      PROVE  Depth(c) + rank[Job(c)] <= MaxDepth + FailureJobs
  <2>1. Depth(a) \in Nat /\ Job(a) \in Jobs
    BY JobOfActivation DEF TypeOK
  <2>2. CASE run[a].pc \in Ran
    <3>1. Depth(a) < MaxDepth
      BY <1>1, <2>1, <2>2 DEF ChainCut, Ran
    <3>2. QED
      BY <1>1, <1>3, <2>1, <3>1
  <2>3. CASE OnFailure[Job(a)] # NoEvent /\ OnFailure[Job(a)] \in Listens[Job(c)]
    <3>1. rank[Job(c)] < rank[Job(a)]
      BY <1>3, <2>1, <2>3 DEF Ranking
    <3>2. Depth(a) + rank[Job(a)] <= MaxDepth + FailureJobs
      BY DEF RoomLeft
    <3>3. QED
      BY <1>1, <1>3, <2>1, <3>1, <3>2
  <2>4. QED
    BY <1>3, <2>2, <2>3
<1>4. QED
  BY <1>2, <1>3, NextParents DEF Parented

(* Where failure handlers form no circle, refusing an activation ends its  *)
(* chain: no chain outgrows the allowed depth by more than the failure     *)
(* handlers there are, whatever the wiring of successes, the fan-out, the  *)
(* edits and the order of runs.                                            *)
THEOREM ChainsAreFinite ==
  ASSUME FailureHandlersEnd
  PROVE  Spec => []ChainIsFinite
<1>1. PICK rank : rank \in Ranking
  BY DEF FailureHandlersEnd, Ranking, FailureJobs
<1>2. Init => RoomLeft(rank)
  BY DEF Init, RoomLeft
<1>3. TypeOK /\ ChainCut /\ RoomLeft(rank) /\ [Next]_vars => RoomLeft(rank)'
  BY <1>1, RoomIsKept
<1>4. TypeOK /\ RoomLeft(rank) => ChainIsFinite
  <2> SUFFICES ASSUME TypeOK, RoomLeft(rank), NEW a \in DOMAIN run
               PROVE  Depth(a) <= MaxDepth + FailureJobs
    BY DEF ChainIsFinite, FailureJobs
  <2>1. /\ Depth(a) \in Nat /\ rank[Job(a)] \in Nat
        /\ MaxDepth \in Nat /\ FailureJobs \in Nat
    BY <1>1, JobOfActivation, FailureJobsNat, PipelineAssumption DEF TypeOK, Ranking
  <2>2. QED
    BY <2>1 DEF RoomLeft
<1>5. QED
  BY <1>2, <1>3, <1>4, TypeCorrect, ChainsAreCut, PTL DEF Spec

-----------------------------------------------------------------------------
(* Edits and triggers.                                                     *)

(* What makes the invariant inductive: only the job of the edit in         *)
(* progress may differ, and from SetEntry on the registry holds the copy   *)
(* from which its triggers are about to be registered.                     *)
TriggersInv ==
  /\ \A j \in Jobs :
       edit = NoEdit \/ j # edit.job \/ edit.pc = "unregister"
         => (j \in subs <=> Enabled(j))
  /\ edit # NoEdit /\ edit.pc \in {"set", "register"} => edit.job \notin subs
  /\ edit # NoEdit /\ edit.pc = "register"
       => (Effective(edit.job, edit.copy) <=> Enabled(edit.job))

LEMMA RunsKeepTriggers ==
  ASSUME TypeOK, TriggersInv, UNCHANGED <<subs, edit>>,
         \A j \in Jobs : Enabled(j)' <=> Enabled(j)
  PROVE  TriggersInv'
<1>1. edit # NoEdit => edit.job \in Jobs
  BY DEF TypeOK, Edit
<1>2. QED
  BY <1>1 DEF TriggersInv, Effective

LEMMA StepKeepsTriggers ==
  ASSUME TypeOK, TriggersInv, NEW a \in DOMAIN run, Step(a)
  PROVE  TriggersInv'
<1> USE DEF pipelineState, executorState
<1>1. UNCHANGED <<subs, edit>>
  BY DEF Step, Enqueue, Ignore, Acquire, AbortWait, Approve, Refuse, Begin, BeginFails,
     CheckRate, CheckChain, ToolSucceeds, ToolPublishes, ToolFails, Abandon, EmitItem, EmitEnds,
     EmitFailure, Finish
<1>2. UNCHANGED registry
      \/ \E s \in Statuses : SetStatus(Job(a), s)
  BY DEF Step, Enqueue, Ignore, Acquire, AbortWait, Approve, Refuse, Begin, BeginFails,
     CheckRate, CheckChain, ToolSucceeds, ToolPublishes, ToolFails, Abandon, EmitItem, EmitEnds,
     EmitFailure, Finish, Statuses
<1>3. Job(a) \in Jobs /\ registry \in [Jobs -> Entry]
  BY JobOfActivation DEF TypeOK
<1>4. \A j \in Jobs : Enabled(j)' <=> Enabled(j)
  BY <1>2, <1>3, SetStatusType DEF Enabled, Effective
<1>5. QED
  BY <1>1, <1>4, RunsKeepTriggers

LEMMA EditKeepsTriggers ==
  ASSUME TypeOK, TriggersInv, EditStep
  PROVE  TriggersInv'
<1>1. /\ edit \in Edit
      /\ edit.job \in Jobs
      /\ edit.copy \in Entry
      /\ edit # NoEdit
  BY EditFields
<1>2. registry \in [Jobs -> Entry]
  BY DEF TypeOK
<1>3. CASE Unregister
  <2>1. /\ edit'.pc = "set"
        /\ edit'.job = edit.job
        /\ subs' = subs \ {edit.job}
        /\ UNCHANGED registry
    BY <1>1, <1>3 DEF Unregister, Unsubscribed, Edit
  <2>2. \A j \in Jobs : (j \in subs <=> Enabled(j)) /\ (Enabled(j)' <=> Enabled(j))
    BY <1>3, <2>1 DEF Unregister, TriggersInv, Enabled, Effective
  <2>3. edit'.pc # "unregister" /\ edit'.pc # "register" /\ edit' # NoEdit
    BY <2>1 DEF NoEdit
  <2>4. QED
    BY <2>1, <2>2, <2>3 DEF TriggersInv
<1>4. CASE SetEntry
  <2>1. /\ edit' = [edit EXCEPT !.pc = "register"]
        /\ edit'.pc = "register"
        /\ edit'.job = edit.job
        /\ edit'.copy = edit.copy
        /\ UNCHANGED subs
    BY <1>1, <1>4 DEF SetEntry, Edit
  <2>2. registry'[edit.job] = edit.copy
        /\ \A j \in Jobs \ {edit.job} : registry'[j] = registry[j]
    BY <1>1, <1>2, <1>4 DEF SetEntry
  <2>3. \A j \in Jobs \ {edit.job} : (j \in subs <=> Enabled(j)) /\ (Enabled(j)' <=> Enabled(j))
    BY <2>2 DEF TriggersInv, Enabled, Effective
  <2>4. edit.job \notin subs
    BY <1>1, <1>4 DEF SetEntry, TriggersInv
  <2>5. Effective(edit.job, edit.copy)' <=> Enabled(edit.job)'
    BY <2>1, <2>2 DEF Enabled, Effective
  <2>6. edit'.pc # "unregister" /\ edit' # NoEdit
    <3>1. NoEdit.pc = "idle"
      BY DEF NoEdit
    <3>2. QED
      BY <2>1, <3>1
  <2>7. QED
    BY <2>1, <2>3, <2>4, <2>5, <2>6 DEF TriggersInv
<1>5. CASE Register
  <2>1. /\ edit.job \notin subs
        /\ Effective(edit.job, edit.copy) <=> Enabled(edit.job)
        /\ \A j \in Jobs \ {edit.job} : j \in subs <=> Enabled(j)
    BY <1>1, <1>5 DEF Register, TriggersInv
  <2>2. UNCHANGED registry
        /\ subs' = IF Effective(edit.job, edit.copy)
                    THEN subs \cup {edit.job} ELSE subs
    BY <1>5 DEF Register, Resubscribed
  <2>3. \A j \in Jobs : (j \in subs' <=> Enabled(j)) /\ (Enabled(j)' <=> Enabled(j))
    BY <1>1, <2>1, <2>2 DEF Enabled, Effective
  <2>4. edit' = NoEdit \/ edit'.pc = "unregister"
    BY <1>1, <1>5 DEF Register, Edit
  <2>5. QED
    BY <2>3, <2>4 DEF TriggersInv, NoEdit
<1>6. QED
  BY <1>3, <1>4, <1>5 DEF EditStep

LEMMA NextKeepsTriggers ==
  ASSUME TypeOK, TriggersInv, [Next]_vars
  PROVE  TriggersInv'
<1>1. CASE Fire
  <2>1. UNCHANGED <<subs, edit, registry>>
    BY <1>1 DEF Fire, FireCron, FireInterval, FireManual, FireDomain, FireRoot
  <2>2. QED
    BY <2>1, RunsKeepTriggers DEF Enabled, Effective
<1>2. CASE \E j \in Jobs : Expire(j)
  <2>1. UNCHANGED <<subs, edit, registry>>
    BY <1>2 DEF Expire, executorState
  <2>2. QED
    BY <2>1, RunsKeepTriggers DEF Enabled, Effective
<1>3. CASE BeginAnEdit
  <2>1. /\ edit = NoEdit
        /\ edit'.pc = "unregister"
        /\ UNCHANGED <<registry, subs>>
    BY <1>3, BeginEditType
  <2>2. QED
    BY <2>1 DEF TriggersInv, Enabled, Effective
<1>4. CASE AtRest \/ UNCHANGED vars
  <2>1. UNCHANGED <<subs, edit, registry>>
    BY <1>4 DEF AtRest, vars
  <2>2. QED
    BY <2>1, RunsKeepTriggers DEF Enabled, Effective
<1>5. QED
  BY <1>1, <1>2, <1>3, <1>4, StepKeepsTriggers, EditKeepsTriggers DEF Next

LEMMA TriggersCorrect == Spec => []TriggersInv
<1>1. Init => TriggersInv
  BY DEF Init, TriggersInv, NoEdit
<1>2. TypeOK /\ TriggersInv /\ [Next]_vars => TriggersInv'
  BY NextKeepsTriggers
<1>3. QED
  BY <1>1, <1>2, TypeCorrect, PTL DEF Spec

(* Outside an edit the triggers on the bus and in the scheduler are those  *)
(* of the effectively enabled jobs, however many edits came before and     *)
(* whatever runs changed the entries meanwhile.                            *)
THEOREM RegistrationIsConsistent == Spec => []RegistrationFollowsRegistry
<1>1. TypeOK /\ TriggersInv => RegistrationFollowsRegistry
  BY DEF TriggersInv, RegistrationFollowsRegistry, TypeOK
<1>2. QED
  BY <1>1, TypeCorrect, TriggersCorrect, PTL

(* No trigger or event starts an activation of a disabled or deleted job,  *)
(* save while the edit of that very job is being applied.                  *)
THEOREM OnlyEnabledJobsFire == Spec => NoFiringWhenDisabled
<1>1. TypeOK /\ TypeOK' /\ TriggersInv /\ [Next]_vars =>
        [\A a \in DOMAIN run' \ DOMAIN run :
           Manual(a) \/ Enabled(Job(a)) \/ (edit # NoEdit /\ edit.job = Job(a))]_vars
  <2> SUFFICES ASSUME TypeOK, TypeOK', TriggersInv, [Next]_vars,
                      NEW a \in DOMAIN run' \ DOMAIN run, ~Manual(a)
               PROVE  Enabled(Job(a)) \/ (edit # NoEdit /\ edit.job = Job(a))
    OBVIOUS
  <2>1. Job(a) \in subs /\ Job(a) \in Jobs
    BY NextEffect DEF NewcomersHeard, TypeOK
  <2>2. QED
    BY <2>1 DEF TriggersInv
<1>2. QED
  BY <1>1, TypeCorrect, TriggersCorrect, PTL DEF Spec, NoFiringWhenDisabled

-----------------------------------------------------------------------------
(* The hourly limit.                                                       *)

LEMMA SlotsAndManualRuns ==
  ASSUME NEW H, IsFiniteSet(H), Cardinality(H) <= Slots,
         NEW j \in Jobs,
         NEW R, \A a \in R : a \in Activation /\ Job(a) = j /\ (a \in H \/ Manual(a))
  PROVE  /\ IsFiniteSet(R)
         /\ Cardinality(R) \in Nat
         /\ Cardinality(R) <= Slots + Cardinality(ManualRoots)
<1> DEFINE f == [r \in ManualRoots |-> <<<<j, r>>>>]
           M == {f[r] : r \in ManualRoots}
<1>1. IsFiniteSet(ManualRoots) /\ Cardinality(ManualRoots) \in Nat
  BY PipelineAssumption, FS_Subset, FS_CardinalityType DEF Roots
<1>2. /\ IsFiniteSet(M)
      /\ Cardinality(M) <= Cardinality(ManualRoots)
      /\ Cardinality(M) \in Nat
  <2>1. DOMAIN f = ManualRoots
    OBVIOUS
  <2> HIDE DEF f
  <2>2. QED
    BY <1>1, <2>1, ImageFinite, FS_CardinalityType
<1>3. R \subseteq H \cup M
  <2> SUFFICES ASSUME NEW a \in R, a \notin H
               PROVE  a \in M
    OBVIOUS
  <2>1. a \in Activation /\ Job(a) = j /\ Manual(a)
    OBVIOUS
  <2>2. Len(a) = 1 /\ a[1][2] \in ManualRoots /\ a[1][1] = j /\ a[1] \in Jobs \X Nat
    BY <2>1 DEF Manual, Job, Activation
  <2>3. a = <<a[1]>> /\ a[1] = <<j, a[1][2]>>
    BY <2>1, <2>2 DEF Activation
  <2>4. QED
    BY <2>2, <2>3
<1> HIDE DEF M
<1>4. Cardinality(H) \in Nat
  BY FS_CardinalityType
<1>5. Cardinality(H \cap M) \in Nat
  <2>1. IsFiniteSet(H \cap M)
    BY FS_Intersection
  <2>2. QED
    BY <2>1, FS_CardinalityType
<1>6. /\ IsFiniteSet(H \cup M)
      /\ Cardinality(H \cup M) = Cardinality(H) + Cardinality(M) - Cardinality(H \cap M)
  BY <1>2, FS_Union
<1>7. IsFiniteSet(R) /\ Cardinality(R) <= Cardinality(H \cup M)
  BY <1>3, <1>6, FS_Subset
<1>8. Cardinality(R) \in Nat
  BY <1>7, FS_CardinalityType
<1>9. QED
  BY <1>1, <1>2, <1>4, <1>5, <1>6, <1>7, <1>8, PipelineAssumption

(* The count of a job only grows when one of its runs leaves "rated".      *)
LEMMA RecentGrows ==
  ASSUME TypeOK, [Next]_vars, NEW j \in Jobs
  PROVE  \/ recent'[j] <= recent[j]
         \/ /\ recent'[j] = recent[j] + 1
            /\ \E a \in Rated(j) : DOMAIN run' = DOMAIN run /\ run'[a].pc = "running"
<1>1. recent \in [Jobs -> Nat]
  BY DEF TypeOK
<1>2. CASE UNCHANGED recent
  BY <1>1, <1>2
<1>3. CASE \E i \in Jobs : Expire(i)
  BY <1>1, <1>3 DEF Expire
<1>4. ASSUME NEW a \in DOMAIN run, CheckChain(a)
      PROVE  \/ recent'[j] <= recent[j]
             \/ /\ recent'[j] = recent[j] + 1
                /\ \E c \in Rated(j) : DOMAIN run' = DOMAIN run /\ run'[c].pc = "running"
  <2>1. CASE recent' = recent
    BY <1>1, <2>1
  <2>2. CASE recent' # recent
    <3>1. Goto(a, "running") /\ recent' = [recent EXCEPT ![Job(a)] = @ + 1] /\ run[a].pc = "rated"
      BY <1>4, <2>2 DEF CheckChain
    <3>2. DOMAIN run' = DOMAIN run /\ run'[a].pc = "running"
      BY <3>1 DEF Goto, At, TypeOK
    <3>3. CASE Job(a) = j
      BY <1>1, <3>1, <3>2, <3>3 DEF Rated
    <3>4. CASE Job(a) # j
      BY <1>1, <3>1, <3>4
    <3>5. QED
      BY <3>3, <3>4
  <2>3. QED
    BY <2>1, <2>2
<1>5. CASE \E a \in DOMAIN run : Step(a)
  <2>1. PICK a \in DOMAIN run : Step(a)
    BY <1>5
  <2>2. UNCHANGED recent \/ CheckChain(a)
    BY <2>1 DEF Step, Enqueue, Ignore, Acquire, AbortWait, Approve, Refuse, Begin,
       BeginFails, CheckRate, ToolSucceeds, ToolPublishes, ToolFails, Abandon, EmitItem, EmitEnds,
       EmitFailure, Finish, pipelineState, executorState
  <2>3. QED
    BY <1>2, <1>4, <2>2
<1>6. CASE Fire \/ BeginAnEdit \/ EditStep \/ AtRest \/ UNCHANGED vars
  BY <1>2, <1>6, BeginEditType DEF Fire, FireCron, FireInterval, FireDomain, FireManual,
     FireRoot, EditStep, Unregister, SetEntry, Register, AtRest, vars
<1>7. QED
  BY <1>3, <1>5, <1>6 DEF Next

(* The hourly limit of a job may be passed, because checking and recording *)
(* are two critical sections, but by less than the number of runs that can *)
(* be between them: the slots and the manual runs.                         *)
THEOREM RateOvershoot == Spec => []RateOvershootBounded
<1>1. Init => RateOvershootBounded
  <2> SUFFICES ASSUME Init, NEW j \in Jobs
               PROVE  recent[j] + Cardinality(Rated(j))
                        < RateLimit[j] + Slots + Cardinality(ManualRoots)
    BY DEF RateOvershootBounded
  <2>1. Rated(j) = {} /\ Cardinality({}) = 0 /\ recent[j] = 0
    BY FS_EmptySet DEF Init, Rated
  <2>2. Cardinality(ManualRoots) \in Nat
    BY PipelineAssumption, FS_Subset, FS_CardinalityType DEF Roots
  <2>3. QED
    BY <2>1, <2>2, PipelineAssumption
<1>2. TypeOK /\ TypeOK' /\ SlotsBalanced /\ SlotsBalanced' /\ RateOvershootBounded
        /\ [Next]_vars => RateOvershootBounded'
  <2> SUFFICES ASSUME TypeOK, TypeOK', SlotsBalanced, SlotsBalanced', RateOvershootBounded,
                      [Next]_vars, NEW j \in Jobs
               PROVE  recent'[j] + Cardinality(Rated(j)')
                        < RateLimit[j] + Slots + Cardinality(ManualRoots)
    BY DEF RateOvershootBounded
  <2>1. /\ recent[j] \in Nat /\ recent'[j] \in Nat
        /\ RateLimit[j] \in Nat \ {0} /\ Slots \in Nat
        /\ Cardinality(ManualRoots) \in Nat
    BY PipelineAssumption, FS_Subset, FS_CardinalityType DEF Roots, TypeOK
  <2>2. /\ IsFiniteSet(Rated(j)) /\ Cardinality(Rated(j)) \in Nat
        /\ Cardinality(Rated(j)') \in Nat
        /\ Cardinality(Rated(j)') <= Slots + Cardinality(ManualRoots)
    <3>1. /\ IsFiniteSet(Holders) /\ Cardinality(Holders) <= Slots
          /\ IsFiniteSet(Holders') /\ Cardinality(Holders') <= Slots
      BY FS_Subset DEF TypeOK, Holders, SlotsBalanced
    <3>2. \A a \in Rated(j) : a \in Activation /\ Job(a) = j /\ (a \in Holders \/ Manual(a))
      BY DEF Rated, TypeOK, Holders, HoldsSlot, InSlot
    <3>3. \A a \in Rated(j)' : a \in Activation /\ Job(a) = j /\ (a \in Holders' \/ Manual(a))
      BY DEF Rated, TypeOK, Holders, HoldsSlot, InSlot, Job, Manual
    <3>4. QED
      BY <3>1, <3>2, <3>3, SlotsAndManualRuns
  <2>3. recent[j] + Cardinality(Rated(j)) < RateLimit[j] + Slots + Cardinality(ManualRoots)
    BY DEF RateOvershootBounded
  <2>4. CASE \E a \in DOMAIN run : Job(a) = j /\ CheckRate(a) /\ ~RateExceeded(j)
    <3>1. recent'[j] < RateLimit[j]
      BY <2>1, <2>4 DEF CheckRate, RateExceeded, executorState
    <3>2. QED
      BY <2>1, <2>2, <3>1
  <2>5. CASE ~\E a \in DOMAIN run : Job(a) = j /\ CheckRate(a) /\ ~RateExceeded(j)
    <3>1. Rated(j)' \subseteq Rated(j)
      <4> SUFFICES ASSUME NEW c \in DOMAIN run', Job(c) = j, run'[c].pc = "rated"
                   PROVE  c \in DOMAIN run /\ run[c].pc = "rated"
        BY DEF Rated, Job
      <4>1. c \in DOMAIN run
        BY NextEffect DEF NewcomersHeard
      <4>2. QED
        BY <2>5, <4>1, NextEffect DEF ChecksPassed
    <3>2. CASE recent'[j] <= recent[j]
      BY <2>1, <2>2, <2>3, <3>1, <3>2, FS_Subset
    <3>3. CASE recent'[j] = recent[j] + 1 /\ \E a \in Rated(j) :
                 DOMAIN run' = DOMAIN run /\ run'[a].pc = "running"
      <4>1. PICK a \in Rated(j) : DOMAIN run' = DOMAIN run /\ run'[a].pc = "running"
        BY <3>3
      <4>2. Rated(j)' \subseteq Rated(j) \ {a}
        BY <3>1, <4>1 DEF Rated
      <4>3. IsFiniteSet(Rated(j) \ {a})
            /\ Cardinality(Rated(j) \ {a}) = Cardinality(Rated(j)) - 1
        BY <2>2, <4>1, FS_RemoveElement
      <4>4. Cardinality(Rated(j)') <= Cardinality(Rated(j) \ {a})
        BY <4>2, <4>3, FS_Subset
      <4>5. QED
        BY <2>1, <2>2, <2>3, <3>3, <4>3, <4>4
    <3>4. QED
      BY <3>2, <3>3, RecentGrows
  <2>6. QED
    BY <2>4, <2>5
<1>3. QED
  BY <1>1, <1>2, TypeCorrect, LimiterIsExact, PTL DEF Spec
=============================================================================
