-------------------------------- MODULE JobRun --------------------------------
(***************************************************************************)
(* JobExecutor.Execute as the writer of durable run records.  Every state  *)
(* change of a run is one immediate transaction (PersistRunState) that     *)
(* writes the row and appends a run event; transactions can fail, the      *)
(* record can be removed under the run, the authenticated session and the  *)
(* manager come and go, and the process can crash.                         *)
(*                                                                         *)
(* Two numberings meet in the record: "queued" carries sequence 1 and a    *)
(* terminal event carries the length of the in-memory timeline, whereas    *)
(* PersistRunState gives every other event one more than the largest       *)
(* sequence it finds in the database.                                      *)
(***************************************************************************)
EXTENDS Naturals, Sequences

CONSTANTS
  Runs,          \* run ids
  Attempts,      \* ErrorPolicy.MaxRetries + 1
  MaxSessions,   \* bound on the session generations of a behaviour
  MaxFaults      \* bound on failed transactions, crashes, removals by users

ASSUME JobRunAssumption ==
  Attempts \in Nat \ {0} /\ MaxSessions \in Nat \ {0} /\ MaxFaults \in Nat

VARIABLES
  exec,       \* [Runs -> position in Execute]
  tries,      \* [Runs -> attempts begun]
  mem,        \* [Runs -> length of rl.RunEvents]
  log,        \* [Runs -> job_run_events of the run; the row repeats the last]
  removed,    \* runs whose rows were deleted
  proof,      \* [Runs -> the runtime proof: none, captured, live in the tracker]
  identity,   \* [Runs -> session generation persisted with the run, 0 = none]
  session,    \* current session generation
  authority,  \* generation of the last captured authority, 0 = none or invalid
  accepting,  \* commandRuntimeAccepting: between Start and Stop
  faults      \* faults so far

runVars == <<exec, tries, mem, log, removed, proof, identity, session,
             authority, accepting, faults>>

(* The candidate ports of Execute, in order.  "returning" is the body done *)
(* with the deferred finalization still ahead.                             *)
InFlight == {"admitted", "queued", "ready", "running", "backoff",
             "returning", "closing"}
PCs == {"idle", "ended", "dead"} \cup InFlight

States == {"queued", "started", "retry_scheduled", "terminal"}
Proofs == {"none", "captured", "live"}

Last(s) == s[Len(s)]
Terminal(r) == log[r] # <<>> /\ Last(log[r]).state = "terminal"
(* COALESCE(MAX(sequence), 0) + 1: sequences grow along the record.        *)
NextSequence(r) == IF log[r] = <<>> THEN 1 ELSE Last(log[r]).seq + 1
(* Mutant: the timeline is counted by its attempts.                        *)
TerminalSequenceMutant(r) == tries[r] + 1
TerminalSequence(r) == mem[r] + 1

AttemptLeft(r) == tries[r] < Attempts

RunInit ==
  /\ exec = [r \in Runs |-> "idle"]
  /\ tries = [r \in Runs |-> 0]
  /\ mem = [r \in Runs |-> 0]
  /\ log = [r \in Runs |-> <<>>]
  /\ removed = {}
  /\ proof = [r \in Runs |-> "none"]
  /\ identity = [r \in Runs |-> 0]
  /\ session = 1
  /\ authority = 0
  /\ accepting = TRUE
  /\ faults = 0

Goto(r, pc) == exec' = [exec EXCEPT ![r] = pc]
Fault == faults < MaxFaults /\ faults' = faults + 1

-----------------------------------------------------------------------------
(* PersistRunState.  A record is only born queued: any other event fails   *)
(* when the row is missing.                                                *)

(* Mutant: the row is created by whichever event comes first.              *)
RecordsMutant(r, state, seq) ==
  /\ log' = [log EXCEPT ![r] = Append(@, [state |-> state, seq |-> seq])]
  /\ UNCHANGED <<removed, faults>>

Records(r, state, seq) ==
  /\ log[r] # <<>>
  /\ log' = [log EXCEPT ![r] = Append(@, [state |-> state, seq |-> seq])]
  /\ UNCHANGED <<removed, faults>>

(* The transaction fails: contention, a closed database, or a missing row. *)
RecordFails(r) ==
  /\ \/ log[r] = <<>> /\ UNCHANGED faults
     \/ log[r] # <<>> /\ Fault
  /\ UNCHANGED <<log, removed>>

-----------------------------------------------------------------------------
(* Execute, up to the queued row.                                          *)

(* The identity of the session is captured before anything is persisted;   *)
(* the capture replaces the shared authority.                              *)
Admit(r) ==
  /\ exec[r] = "idle"
  /\ Goto(r, "admitted")
  /\ \/ /\ proof' = [proof EXCEPT ![r] = "captured"]
        /\ identity' = [identity EXCEPT ![r] = session]
        /\ authority' = session
     \/ UNCHANGED <<proof, identity, authority>>
  /\ UNCHANGED <<tries, mem, log, removed, session, accepting, faults>>

(* A delegation no longer authorized, invalid provenance, or the queued    *)
(* row not written: the run ends with no record at all.                    *)
Refuse(r) ==
  /\ exec[r] = "admitted"
  /\ Goto(r, "ended")
  /\ proof' = [proof EXCEPT ![r] = "none"]
  /\ UNCHANGED <<tries, mem, log, removed, identity, session, authority,
                 accepting, faults>>

Queue(r) ==
  /\ exec[r] = "admitted"
  /\ Goto(r, "queued")
  /\ log' = [log EXCEPT ![r] = <<[state |-> "queued", seq |-> 1]>>]
  /\ mem' = [mem EXCEPT ![r] = 1]
  /\ UNCHANGED <<tries, removed, proof, identity, session, authority,
                 accepting, faults>>

(* registerCommandRuntime, then the "triggered" event, in memory only; a    *)
(* run without a service identity returns before it.  A proof whose session *)
(* or tracker was invalidated meanwhile is not registered.                 *)
Register(r) ==
  /\ exec[r] = "queued"
  /\ \/ Goto(r, "ready") /\ mem' = [mem EXCEPT ![r] = @ + 1]
     \/ Goto(r, "returning") /\ UNCHANGED mem
  /\ proof' = [proof EXCEPT ![r] =
                 IF @ = "captured" /\ accepting THEN "live" ELSE "none"]
  /\ UNCHANGED <<tries, log, removed, identity, session, authority,
                 accepting, faults>>

-----------------------------------------------------------------------------
(* Execute, the attempts.                                                  *)

(* Rate limit, chain depth or loop refuse the run; a dry run completes     *)
(* here; a wait for the next attempt is cancelled; the attempt succeeds or *)
(* fails for good.                                                         *)
Return(r) ==
  /\ exec[r] \in {"ready", "running", "backoff"}
  /\ Goto(r, "returning")
  /\ UNCHANGED <<tries, mem, log, removed, proof, identity, session,
                 authority, accepting, faults>>

(* The event is appended to the timeline in memory before it is persisted. *)
Start(r) ==
  /\ exec[r] \in {"ready", "backoff"}
  /\ mem' = [mem EXCEPT ![r] = @ + 1]
  /\ \/ /\ Records(r, "started", NextSequence(r))
        /\ tries' = [tries EXCEPT ![r] = @ + 1]
        /\ Goto(r, "running")
     \/ RecordFails(r) /\ Goto(r, "returning") /\ UNCHANGED tries
  /\ UNCHANGED <<proof, identity, session, authority, accepting>>

ScheduleRetry(r) ==
  /\ exec[r] = "running"
  /\ AttemptLeft(r)
  /\ mem' = [mem EXCEPT ![r] = @ + 1]
  /\ \/ Records(r, "retry_scheduled", NextSequence(r)) /\ Goto(r, "backoff")
     \/ RecordFails(r) /\ Goto(r, "returning")
  /\ UNCHANGED <<tries, proof, identity, session, authority, accepting>>

-----------------------------------------------------------------------------
(* The deferred finalization: the proof is withdrawn before the terminal   *)
(* state is persisted.                                                     *)

CloseMutant(r) ==
  /\ exec[r] = "returning"
  /\ Goto(r, "closing")
  /\ UNCHANGED <<tries, mem, log, removed, proof, identity, session,
                 authority, accepting, faults>>

Close(r) ==
  /\ exec[r] = "returning"
  /\ Goto(r, "closing")
  /\ proof' = [proof EXCEPT ![r] = "none"]
  /\ UNCHANGED <<tries, mem, log, removed, identity, session, authority,
                 accepting, faults>>

Finish(r) ==
  /\ exec[r] = "closing"
  /\ Goto(r, "ended")
  /\ mem' = [mem EXCEPT ![r] = @ + 1]
  /\ Records(r, "terminal", TerminalSequence(r)) \/ RecordFails(r)
  /\ UNCHANGED <<tries, proof, identity, session, authority, accepting>>

RunStep(r) ==
  \/ Admit(r) \/ Refuse(r) \/ Queue(r) \/ Register(r)
  \/ Return(r) \/ Start(r) \/ ScheduleRetry(r)
  \/ Close(r) \/ Finish(r)

-----------------------------------------------------------------------------
(* Around the executor.                                                    *)

(* Logout, lock or another change of the security epoch cancels every      *)
(* watch of the old generation.                                            *)
SessionChange ==
  /\ session < MaxSessions
  /\ session' = session + 1
  /\ authority' = 0
  /\ proof' = [r \in Runs |-> "none"]
  /\ UNCHANGED <<exec, tries, mem, log, removed, identity, accepting, faults>>

(* Manager.Stop clears the tracker and invalidates captures in progress;   *)
(* runs already executing go on.                                           *)
Stop ==
  /\ accepting
  /\ accepting' = FALSE
  /\ proof' = [r \in Runs |-> "none"]
  /\ UNCHANGED <<exec, tries, mem, log, removed, identity, session,
                 authority, faults>>

StartManager ==
  /\ ~accepting
  /\ accepting' = TRUE
  /\ UNCHANGED <<exec, tries, mem, log, removed, proof, identity, session,
                 authority, faults>>

(* The process dies.  Nothing resumes the runs it was executing, and the   *)
(* generations of the next process are new ones.                           *)
Crash ==
  /\ Fault
  /\ session < MaxSessions
  /\ session' = session + 1
  /\ authority' = 0
  /\ accepting' = FALSE
  /\ proof' = [r \in Runs |-> "none"]
  /\ exec' = [r \in Runs |-> IF exec[r] \in InFlight THEN "dead" ELSE exec[r]]
  /\ UNCHANGED <<tries, mem, log, removed, identity>>

(* The rows of a run are deleted, by the retention or with the job.        *)
RemoveRecord(r) ==
  /\ log[r] # <<>>
  /\ log' = [log EXCEPT ![r] = <<>>]
  /\ removed' = removed \cup {r}
  /\ UNCHANGED <<exec, tries, mem, proof, identity, session, authority,
                 accepting>>

RunNext ==
  \/ \E r \in Runs : RunStep(r) \/ (RemoveRecord(r) /\ UNCHANGED faults)
  \/ SessionChange \/ Stop \/ StartManager \/ Crash

RunSpec == RunInit /\ [][RunNext]_runVars

-----------------------------------------------------------------------------
(* Properties.                                                             *)

Entry == [state : States, seq : Nat]

(* The variables keep their types; no run begins more attempts than its    *)
(* error policy grants.                                                    *)
RunTypeOK ==
  /\ exec \in [Runs -> PCs]
  /\ tries \in [Runs -> 0 .. Attempts]
  /\ mem \in [Runs -> Nat]
  /\ log \in [Runs -> Seq(Entry)]
  /\ removed \subseteq Runs
  /\ proof \in [Runs -> Proofs]
  /\ identity \in [Runs -> Nat]
  /\ session \in Nat \ {0}
  /\ authority \in Nat
  /\ accepting \in BOOLEAN
  /\ faults \in Nat

(* The sequences of a record grow strictly although the executor and the   *)
(* database number events differently: consumers order events by them.     *)
SequencesGrow ==
  \A r \in Runs : \A i, j \in DOMAIN log[r] :
    i < j => log[r][i].seq < log[r][j].seq

(* A live proof belongs to a run that is executing, is not yet recorded as *)
(* terminal and was admitted in the session that is still current.         *)
LiveProofIsCurrent ==
  \A r \in Runs : proof[r] = "live" =>
    /\ exec[r] \in {"ready", "running", "backoff", "returning"}
    /\ ~Terminal(r)
    /\ identity[r] = session

(* The states of the entries are the history promised by RunRecord: a      *)
(* record is born queued, grows by legal state changes, ends with its      *)
(* terminal state and never comes back once removed, even though the       *)
(* executor goes on after failed writes and removals under its feet.       *)
StatesOf(record) == [i \in DOMAIN record |-> record[i].state]
History == [r \in Runs |-> StatesOf(log[r])]
Record == INSTANCE RunRecord WITH history <- History, removed <- removed
RecordSpec == Record!Spec
=============================================================================
